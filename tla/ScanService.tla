---------------------------- MODULE ScanService ----------------------------
(***************************************************************************)
(* What the uia_perceive_window tool promises the agent, without slots,    *)
(* worker processes or deadlines: a call is refused at once, or it owns    *)
(* the one scan of its gateway process until it is answered.  It is told   *)
(* "another scan is running" only when one is.  ScanTool implements it.    *)
(***************************************************************************)
CONSTANTS Calls,      \* the tool calls
          Processes,  \* the Hermes processes that loaded the plugin
          ProcessOf   \* [Calls -> Processes]

VARIABLE phase

ScanPhases == {"asked", "refused", "busy", "scanning", "answered"}

Rivals(c) == {d \in Calls \ {c} : ProcessOf[d] = ProcessOf[c]}

Init == phase = [c \in Calls |-> "asked"]

\* Bad arguments, or no runtime to run the scan in.
Refuse(c) ==
  /\ phase[c] = "asked"
  /\ phase' = [phase EXCEPT ![c] = "refused"]

Busy(c) ==
  /\ phase[c] = "asked"
  /\ \E d \in Rivals(c) : phase[d] = "scanning"
  /\ phase' = [phase EXCEPT ![c] = "busy"]

Begin(c) ==
  /\ phase[c] = "asked"
  /\ \A d \in Rivals(c) : phase[d] # "scanning"
  /\ phase' = [phase EXCEPT ![c] = "scanning"]

Finish(c) ==
  /\ phase[c] = "scanning"
  /\ phase' = [phase EXCEPT ![c] = "answered"]

Serve(c) == Refuse(c) \/ Busy(c) \/ Begin(c) \/ Finish(c)

Next == \E c \in Calls : Serve(c)

SafetySpec == Init /\ [][Next]_phase

Spec == SafetySpec /\ \A c \in Calls : WF_phase(Serve(c))
============================================================================
