-------------------------- MODULE MCRecoveryEngine --------------------------
(* Constants of the model-checked instances of RecoveryEngine. *)
EXTENDS RecoveryEngine

CONSTANTS c1, v1, v2, v3, p1, p2

AskFor(target, mode, decision, expected) ==
  [setting |-> c1, target |-> target, version |-> c1, expected |-> expected,
   mode |-> mode, decision |-> decision]

Setup(ask1, ask2, auto) ==
  [info |-> [p \in Proposal |-> IF p = p1 THEN ask1 ELSE ask2], auto |-> auto]

\* Two recoveries of one component's version: an optimistically locked one and
\* one that needs approval.
Contended == Setup(AskFor(v2, "simulation", "allow", v1),
                   AskFor(v3, "approved", "needs_approval", AnyVersion), TRUE)

\* A denied one, or a locked dry run, next to one that is allowed, with automatic
\* compensation switched off.
Denied == Setup(AskFor(v2, "approved", "deny", AnyVersion),
                AskFor(v3, "manual", "allow", AnyVersion), FALSE)
Dry == Setup(AskFor(v2, "dry_run", "allow", v1),
             AskFor(v3, "approved", "allow", AnyVersion), FALSE)

MCSetups == {Contended, Denied, Dry}
MCInitial == [c \in Setting |-> v1]
=============================================================================
