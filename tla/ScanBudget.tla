----------------------------- MODULE ScanBudget -----------------------------
(***************************************************************************)
(* The limits of a scan, seen by the agent that calls the tool: the        *)
(* validators and the final size check of sidecar/hermes_plugin.py, the    *)
(* size check and the suggested parameters of sidecar/plugin_worker.py,    *)
(* and an agent that asks again with what was suggested.                   *)
(*                                                                         *)
(* Abstractions: a call is one step (ScanTool has its slot, processes and  *)
(* timeouts, here an error like any other); an encoded result is its size; *)
(* a window is how many elements each level adds, and how large the parts  *)
(* of its snapshot are.  It may be another one at the next call.           *)
(***************************************************************************)
EXTENDS Classifier, Integers

CONSTANTS Requests,   \* the arguments an agent starts with
          Windows,    \* what the window may be like at a call
          Absent,     \* the value of an argument that is not given
          NoHint,     \* a result without suggested_parameters
          Overhead    \* what the handler adds: hermes_profile and output_bytes

Fields == {"mode", "depth", "max_elements", "max_output_bytes"}
Hints == [mode : {"tree", "summary"}, depth : Nat, max_elements : Nat]

\* The arguments are a dictionary of these four: any values, or none.
ASSUME RequestsAssumption == \A r \in Requests : r = [f \in Fields |-> r[f]]
\* A key that is not in the dictionary is no value a validator lets through.
ASSUME AbsentAssumption == Absent \notin Nat /\ Absent \notin {"tree", "summary"}
ASSUME WindowsAssumption ==
  Windows \subseteq [width : Nat, element : Nat, metadata : Nat, summary : Nat,
                     patterns : Nat]
ASSUME NoHintAssumption == NoHint \notin Hints
\* A summary counts the few control types and patterns there are: with a profile
\* name of ordinary length it fits into the smallest budget.
ASSUME OverheadAssumption ==
  Overhead \in Nat /\ \A w \in Windows : w.summary + Overhead <= 16384

VARIABLES pc,        \* "call", "told" or "done"
          args,      \* the arguments of the last call
          followed,  \* they were suggested
          reply

vars == <<pc, args, followed, reply>>

Given(value, default) == IF value = Absent THEN default ELSE value

\* _bounded_int
Bounded(value, low, high) == value \in Int /\ low <= value /\ value <= high

\* The defaults of _mode and _bounded_int; the rest of the request is ScanTool's.
request ==
  [mode             |-> Given(args.mode, "tree"),
   depth            |-> Given(args.depth, 3),
   max_elements     |-> Given(args.max_elements, 500),
   max_output_bytes |-> Given(args.max_output_bytes, 131072)]

Accepted ==
  /\ request.mode \in {"tree", "summary"}
  /\ Bounded(request.depth, 0, 10)
  /\ Bounded(request.max_elements, 1, 2000)
  /\ Bounded(request.max_output_bytes, 16384, 262144)

TypeOK ==
  /\ pc \in {"call", "told", "done"}
  /\ DOMAIN args = Fields
  /\ followed \in BOOLEAN
  /\ reply.error \in {"none", "invalid_arguments", "tree_worker_error",
                      "output_budget_exceeded", "other"}
  /\ {reply.bytes, reply.measured, reply.elements, reply.patterns} \subseteq Nat
  /\ reply.hint = NoHint \/ reply.hint \in Hints
  /\ reply.hint # NoHint => reply.error = "output_budget_exceeded"

\* measured is history: what the worker measured, where it got that far.
NoReply == [error |-> "none", bytes |-> 0, hint |-> NoHint, elements |-> 0,
            patterns |-> 0, measured |-> 0]

Error(code) == [NoReply EXCEPT !.error = code]

-----------------------------------------------------------------------------
(* perceive_request *)

\* Elements down to a depth, of a window that is as wide at every level.
ElementsIn(w) == 1 + w.width * request.depth

\* Mutant: a depth of zero is made smaller.
suggested_unbounded ==
  [mode         |-> "summary",
   depth        |-> request.depth - 1,
   max_elements |-> IF request.max_elements = 1 THEN 1 ELSE request.max_elements \div 2]

\* Mutant: the other mode is suggested.
suggested_other_mode ==
  [mode         |-> IF request.mode = "tree" THEN "summary" ELSE "tree",
   depth        |-> IF request.depth = 0 THEN 0 ELSE request.depth - 1,
   max_elements |-> IF request.max_elements = 1 THEN 1 ELSE request.max_elements \div 2]

\* Mutant: the default is halved, and not what was asked for.
suggested_half_default ==
  [mode         |-> "summary",
   depth        |-> IF request.depth = 0 THEN 0 ELSE request.depth - 1,
   max_elements |-> 250]

\* Mutant: a limit is left out of what is suggested.
suggested_incomplete ==
  [mode |-> "summary", depth |-> IF request.depth = 0 THEN 0 ELSE request.depth - 1]

suggested_parameters ==
  [mode         |-> "summary",
   depth        |-> IF request.depth = 0 THEN 0 ELSE request.depth - 1,
   max_elements |-> IF request.max_elements = 1 THEN 1 ELSE request.max_elements \div 2]

\* The walk raises rather than return more than max_elements elements.
perceive_request(w, patterns) ==
  LET encoded == w.metadata + w.summary
                 + IF request.mode = "tree" THEN w.element * ElementsIn(w) ELSE 0
  IN IF ElementsIn(w) > request.max_elements THEN Error("tree_worker_error")
     ELSE IF encoded > request.max_output_bytes
     THEN [Error("output_budget_exceeded") EXCEPT
             !.bytes = w.summary, !.measured = encoded, !.hint = suggested_parameters]
     ELSE [error |-> "none", bytes |-> encoded, hint |-> NoHint,
           elements |-> ElementsIn(w), patterns |-> patterns, measured |-> encoded]

-----------------------------------------------------------------------------
(* handle_uia_perceive_window *)

\* Mutant: the worker's check is thought to be enough.
Unchecked(result) == [result EXCEPT !.bytes = @ + Overhead]

Checked(result) ==
  LET encoded == result.bytes + Overhead
  IN IF encoded > request.max_output_bytes
     THEN [Error("output_budget_exceeded") EXCEPT !.measured = result.measured]
     ELSE [result EXCEPT !.bytes = encoded]

Refuse ==
  /\ pc = "call" /\ ~Accepted
  /\ pc' = "told"
  /\ reply' = Error("invalid_arguments")
  /\ UNCHANGED <<args, followed>>

Scan ==
  /\ pc = "call" /\ Accepted
  /\ pc' = "told"
  /\ \E w \in Windows : \E p \in 0..w.patterns : reply' = Checked(perceive_request(w, p))
  /\ UNCHANGED <<args, followed>>

\* No runtime, a scan in progress, a worker that failed or ran out of time.
ScanFails ==
  /\ pc = "call" /\ Accepted
  /\ pc' = "told"
  /\ reply' = Error("other")
  /\ UNCHANGED <<args, followed>>

-----------------------------------------------------------------------------
(* the agent *)

\* The arguments of the next call, the last ones where nothing is suggested.
NextArgs ==
  IF reply.hint = NoHint THEN args
  ELSE [args EXCEPT !.mode = reply.hint.mode, !.depth = reply.hint.depth,
                    !.max_elements = reply.hint.max_elements]

Follow ==
  /\ pc = "told"
  /\ NextArgs # args
  /\ args' = NextArgs
  /\ pc' = "call"
  /\ followed' = TRUE
  /\ UNCHANGED reply

\* There is nothing to follow, or nothing that was not just asked.
Stop ==
  /\ pc = "told"
  /\ NextArgs = args
  /\ pc' = "done"
  /\ UNCHANGED <<args, followed, reply>>

-----------------------------------------------------------------------------

Init ==
  /\ pc = "call"
  /\ args \in Requests
  /\ followed = FALSE
  /\ reply = NoReply

Next == Refuse \/ Scan \/ ScanFails \/ Follow \/ Stop

\* Every call is answered, which ScanTool shows, and the agent goes on.
Spec == Init /\ [][Next]_vars /\ WF_vars(Next)

-----------------------------------------------------------------------------
(* Properties *)

Snapshot == pc = "told" /\ reply.error = "none"

\* max_output_bytes is the "Maximum UTF-8 size of the returned JSON payload": it
\* holds for what the handler returns, after it added fields to what the worker
\* measured.
WithinBudget == Snapshot => reply.bytes <= request.max_output_bytes

\* An agent that does what it is told is never told that its arguments are
\* invalid, whatever it started from.
SuggestionAccepted == followed => Accepted

\* Following suggestions ends: with a snapshot, with another error, or with
\* suggestions that repeat the request.
Settles == <>(pc = "done")

\* The confidence of a tier from T2 up never reaches into the range of a richer
\* one, so that an agent may compare confidences of windows.  It may of T3: three
\* elements without a pattern are as sure as the richest T2.
ConfidenceBands ==
  Snapshot =>
    LET tier == classify_tier(reply.elements, reply.patterns) IN
    \A c \in confidences(reply.elements, reply.patterns) :
      /\ tier = "T1" => c >= 70
      /\ tier = "T1/T2" => c \in 42..70
      /\ tier = "T2" => c \in 21..30
      /\ tier = "T3" => c <= 30

Smaller ==
  /\ request'.mode = "summary"
  /\ request'.depth <= request.depth /\ request'.max_elements <= request.max_elements
  /\ request' # request
  /\ request'.max_output_bytes = request.max_output_bytes

\* A suggestion that is followed asks for less, in a summary, and in no respect for
\* more, with the arguments that were left out counted at their defaults.  It says
\* nothing of oversized results without a suggestion, or with one that repeats the
\* request (the smallest summary): there the agent stops.
FollowsShrink == [][args' # args => Smaller]_vars
=============================================================================
