---------------------------- MODULE ExogenousState ----------------------------
(***************************************************************************)
(* The exogenous state controller of packages/replay/src/                  *)
(* exogenous_controller.py: a context manager that replaces the clock, the *)
(* HTTP functions and the LLM client by stubs while a replay runs.  The    *)
(* replacements are global to the process (mock.patch), entering and       *)
(* leaving go slot by slot, and several replays may be under way in        *)
(* threads.                                                                *)
(***************************************************************************)
EXTENDS Naturals, Sequences

CONSTANTS
  Controller,  \* uses of an ExogenousStateController
  Freezes,     \* the ones built with a frozen_time_iso
  Installed    \* the sets of slots whose modules can be imported

Clock == "time.time"
Http == <<"httpx.get", "httpx.post", "requests.get", "requests.post">>
Llm == <<"Completions.create", "AsyncCompletions.create">>
Optional == {Llm[i] : i \in 1 .. 2}
Slot == {Clock} \cup {Http[i] : i \in 1 .. 4} \cup Optional

ASSUME ExogenousAssumption ==
  /\ Freezes \subseteq Controller /\ "original" \notin Controller
  /\ \A I \in Installed : Clock \in I /\ I \subseteq Slot

VARIABLES
  installed,  \* what can be imported
  slot,       \* Slot -> "original", or the controller whose stub is there
  xpc,        \* "out", "entering", "inside", "leaving", "raised"
  xpos,       \* the next slot of a controller's plan to patch, or the last one patched
  patches,    \* the started patches: <<slot, what it held before>>
  around,     \* the controllers that were active when this one began to enter
  crossed     \* two controllers were not nested

xvars == <<installed, slot, xpc, xpos, patches, around, crossed>>

\* The order of __enter__: clock, HTTP functions, LLM client (the RNG is seeded
\* and never restored; snapshot, tools and flags patch nothing).
PatchPlan(c) == (IF c \in Freezes THEN <<Clock>> ELSE <<>>) \o Http \o Llm

Active(c) == xpc[c] \in {"entering", "inside", "leaving"}

XInit ==
  /\ installed \in Installed /\ slot = [s \in Slot |-> "original"]
  /\ xpc = [c \in Controller |-> "out"] /\ xpos = [c \in Controller |-> 0]
  /\ patches = [c \in Controller |-> <<>>] /\ around = [c \in Controller |-> {}]
  /\ crossed = FALSE

Entering(c) ==
  /\ xpc[c] = "out" /\ xpos[c] = 0
  /\ xpc' = [xpc EXCEPT ![c] = "entering"] /\ xpos' = [xpos EXCEPT ![c] = 1]
  /\ around' = [around EXCEPT ![c] = {d \in Controller : Active(d)}]
  /\ crossed' = (crossed \/ \E d \in Controller : xpc[d] \in {"entering", "leaving"})
  /\ UNCHANGED <<installed, slot, patches>>

\* patcher.start() of the next slot: a missing module is skipped for the LLM
\* client and raises for the HTTP functions.
StartPatch(c) ==
  LET s == PatchPlan(c)[xpos[c]] IN
  /\ xpc[c] = "entering" /\ xpos[c] <= Len(PatchPlan(c))
  /\ IF s \in installed
       THEN /\ slot' = [slot EXCEPT ![s] = c]
            /\ patches' = [patches EXCEPT ![c] = Append(@, <<s, slot[s]>>)]
       ELSE s \in Optional /\ UNCHANGED <<slot, patches>>
  /\ xpos' = [xpos EXCEPT ![c] = @ + 1] /\ UNCHANGED <<installed, xpc, around, crossed>>

\* __enter__ raised: __exit__ is not called and what was patched stays patched.
StartRaises(c) ==
  LET s == PatchPlan(c)[xpos[c]] IN
  /\ xpc[c] = "entering" /\ xpos[c] <= Len(PatchPlan(c)) /\ s \notin installed \cup Optional
  /\ xpc' = [xpc EXCEPT ![c] = "raised"] /\ UNCHANGED <<installed, slot, xpos, patches, around, crossed>>

Entered(c) ==
  /\ xpc[c] = "entering" /\ xpos[c] > Len(PatchPlan(c)) /\ xpc' = [xpc EXCEPT ![c] = "inside"]
  /\ UNCHANGED <<installed, slot, xpos, patches, around, crossed>>

\* __exit__: not nested when one that entered inside is still active, or
\* another is entering or leaving.
Leaving(c) ==
  /\ xpc[c] = "inside" /\ xpc' = [xpc EXCEPT ![c] = "leaving"]
  /\ crossed' = (crossed \/ \E d \in Controller \ {c} : Active(d) /\ (c \in around[d] \/ xpc[d] # "inside"))
  /\ UNCHANGED <<installed, slot, xpos, patches, around>>

\* patcher.stop(), the last one started first.
StopPatch(c) ==
  LET n == Len(patches[c])  p == patches[c][n] IN
  /\ xpc[c] = "leaving" /\ n > 0
  /\ slot' = [slot EXCEPT ![p[1]] = p[2]] /\ patches' = [patches EXCEPT ![c] = SubSeq(@, 1, n - 1)]
  /\ UNCHANGED <<installed, xpc, xpos, around, crossed>>

\* Left for good: the model uses a controller once.
Left(c) ==
  /\ xpc[c] = "leaving" /\ patches[c] = <<>> /\ xpc' = [xpc EXCEPT ![c] = "out"]
  /\ UNCHANGED <<installed, slot, xpos, patches, around, crossed>>

XNext ==
  \E c \in Controller :
    Entering(c) \/ StartPatch(c) \/ StartRaises(c) \/ Entered(c) \/ Leaving(c) \/ StopPatch(c) \/ Left(c)
XSpec == XInit /\ [][XNext]_xvars
-----------------------------------------------------------------------------
\* A patch that never started is never stopped, and nobody's stub is in a slot
\* without a started patch.
XTypeOK ==
  /\ slot \in [Slot -> Controller \cup {"original"}]
  /\ \A c \in Controller :
       /\ Len(patches[c]) < xpos[c] \/ patches[c] = <<>>
       /\ xpc[c] = "inside" => {patches[c][i][1] : i \in DOMAIN patches[c]}
                                 = {PatchPlan(c)[i] : i \in DOMAIN PatchPlan(c)} \cap installed

\* When nobody is active any more, every slot holds the original again, unless
\* controllers were not nested (threads: exogenous_controller.py:72) or an enter
\* failed midway, which leaves exactly the slots before the missing module.
Restored ==
  (~crossed /\ \A c \in Controller : ~Active(c)) =>
    \A s \in Slot : slot[s] # "original" =>
      \E c \in Controller : xpc[c] = "raised" /\ \E i \in DOMAIN patches[c] : patches[c][i][1] = s

\* While a controller is inside and none was entered within it, the replay sees
\* the controller's own stubs and nobody else's.
SeesOwnStubs ==
  \A c \in Controller :
    (~crossed /\ xpc[c] = "inside" /\ \A d \in Controller : Active(d) => c \notin around[d])
      => \A i \in DOMAIN patches[c] :
           \/ slot[patches[c][i][1]] = c
           \/ \E d \in Controller : xpc[d] = "raised" /\ c \in around[d]
=============================================================================
