--------------------------- MODULE CommandLedger ---------------------------
(***************************************************************************)
(* What Workplane promises about commands (docs/DOMAIN.md section 8): each *)
(* idempotency identity takes effect at most once, whatever its retries,   *)
(* and a command takes effect at exactly the aggregate version its caller  *)
(* expected.  CommandTx.tla implements this with database transactions.    *)
(***************************************************************************)
EXTENDS Naturals

CONSTANTS
  Projects,   \* project identifiers
  Requests    \* requests: records with op, key, project, expected, events

VARIABLES
  version,    \* version[p]: the aggregate version of p, 0 before it exists
  applied     \* the effects: records with request, project and from

ledgerVars == <<version, applied>>

\* (organization, actor,) operation and key: what makes two requests the same
\* command.
Identity(r) == <<r.op, r.key>>

Creates(r) == r.op = "createProject"

LedgerInit ==
  /\ version = [p \in Projects |-> 0]
  /\ applied = {}

\* r takes effect on p: as its creation, or at the version it expects.
Apply(r, p) ==
  /\ \A a \in applied : Identity(a.request) # Identity(r)
  /\ IF Creates(r) THEN version[p] = 0
                   ELSE version[p] = r.expected /\ version[p] > 0 /\ p = r.project
  /\ version' = [version EXCEPT ![p] = @ + r.events]
  /\ applied' = applied \cup
                  {[request |-> r, project |-> p, from |-> version[p]]}

LedgerNext == \E r \in Requests, p \in Projects : Apply(r, p)

LedgerSpec == LedgerInit /\ [][LedgerNext]_ledgerVars
=============================================================================
