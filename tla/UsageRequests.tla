--------------------------- MODULE UsageRequests ---------------------------
(***************************************************************************)
(* What the provider route ledger promises about usage: each instance of a *)
(* request begins once, has at most one resolved model recorded, and is    *)
(* reported once, with the model that was recorded when it ended.          *)
(***************************************************************************)
EXTENDS Sequences

CONSTANTS Instances,   \* instances of requests
          Models,
          None

VARIABLES phase,       \* "new", "live" or "ended"
          model,       \* the resolved model recorded for the instance
          reports      \* the terminal samples of the instance, by their model

uvars == <<phase, model, reports>>

UInit ==
  /\ phase = [i \in Instances |-> "new"]
  /\ model = [i \in Instances |-> None]
  /\ reports = [i \in Instances |-> <<>>]

Start(i) ==
  /\ phase[i] = "new"
  /\ phase' = [phase EXCEPT ![i] = "live"]
  /\ UNCHANGED <<model, reports>>

Resolve(i) ==
  /\ phase[i] = "live" /\ model[i] = None
  /\ \E m \in Models : model' = [model EXCEPT ![i] = m]
  /\ UNCHANGED <<phase, reports>>

End(i) ==
  /\ phase[i] = "live"
  /\ phase' = [phase EXCEPT ![i] = "ended"]
  /\ reports' = [reports EXCEPT ![i] = <<model[i]>>]
  /\ UNCHANGED model

UNext == \E i \in Instances : Start(i) \/ Resolve(i) \/ End(i)

USpec == UInit /\ [][UNext]_uvars
=============================================================================
