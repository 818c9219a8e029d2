------------------------------ MODULE MCModes ------------------------------
(***************************************************************************)
(* The mode host, and inside one of its modes the internet radio.  They    *)
(* share no variable: what the host does to the radio is to set it up and  *)
(* to tear it down, which StreamingPipeline has as keys that may come at   *)
(* any time.  So one run checks them side by side: which one moves is      *)
(* chosen at the beginning, and the other stays as it begins.              *)
(***************************************************************************)
EXTENDS ModeHost, StreamingPipeline

VARIABLE part  \* the one that moves

modesVars == <<part, vars, radioVars>>

ModesInit ==
  /\ part \in {"host", "radio"} /\ Init /\ RadioInit
  /\ part # "host" => last_mode = "CD" /\ ~aif

\* The sleep after a station of no known type, which the user interface waits for:
\* nothing happens any more.
Sleeps == netPc = "forever" /\ uiPc = "net" /\ UNCHANGED radioVars

ModesNext ==
  /\ UNCHANGED part
  /\ \/ part = "host" /\ Next /\ UNCHANGED radioVars
     \/ part = "radio" /\ (RadioNext \/ Sleeps) /\ UNCHANGED vars

\* The fairness of FairSpec and of RadioFairSpec.
Host(A) == part = "host" /\ A
Radio(A) == part = "radio" /\ A

ModesSpec ==
  /\ ModesInit
  /\ [][ModesNext]_modesVars
  /\ WF_vars(Host(DeviceStep)) /\ WF_vars(Host(TornDown)) /\ WF_vars(Host(SwitchEnds))
  /\ WF_vars(Host(RecoverEnds)) /\ WF_vars(Host(OtaShown))
  /\ WF_vars(Host(LoopPass))
  /\ SF_vars(Host(OtaTakes))
  /\ WF_radioVars(Radio(Ui)) /\ WF_radioVars(Radio(Net)) /\ WF_radioVars(Radio(Codec))
  /\ SF_radioVars(Radio(NetCopies)) /\ WF_radioVars(Radio(Overdue))

=============================================================================
