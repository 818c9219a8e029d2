------------------------------- MODULE MCLive -------------------------------
(***************************************************************************)
(* The liveness of a single drive for TLC.  Either the CD mode is left and *)
(* entered again, with two albums in the queue, or play modes are chosen,  *)
(* with one: which of them is chosen at the beginning.                     *)
(***************************************************************************)
EXTENDS MCCDPlayer

VARIABLE modes  \* play modes are chosen

GoingAway == PlayFromOpen \/ TearStop \/ TearPoll \/ TearMeta \/ Construct
PlayModes == ModeBegin \/ ModeEnd

SingleLiveNext ==
  /\ UNCHANGED modes
  /\ LiveNext \/ (modes /\ PlayModes) \/ (~modes /\ GoingAway)
  /\ modes => Len(metaQueue') <= 1

SingleLiveSpec ==
  /\ LiveInit /\ modes \in BOOLEAN
  /\ [][SingleLiveNext]_<<vars, modes>>
  /\ Fairness

=============================================================================
