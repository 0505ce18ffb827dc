------------------------- MODULE RankTableExchange -------------------------
(***************************************************************************)
(* What the rank table exchange promises the ranks, with no sockets,       *)
(* threads or messages: one table is fixed, once, from the entries of some *)
(* of the ranks; a rank that succeeds holds that table, finds its own      *)
(* entry in it, and the table has one entry for every rank id below the    *)
(* size that rank was given.  Any rank may fail instead, at any time.      *)
(***************************************************************************)
EXTENDS Integers, FiniteSets

CONSTANTS
    Clients,   \* the ranks, as processes
    Configs    \* what the application may pass them: records of a rank id,
               \* a communicator size and a TLS state for every process

VARIABLES
    cfg,       \* the configuration of this run
    table,     \* the processes whose entries make the table; {}: none yet
    outcome    \* "pending", "ok" or "failed", for every process

vars == <<cfg, table, outcome>>

IdsOf(t) == {cfg.id[d] : d \in t}

DistinctIds(t) == \A d, e \in t : cfg.id[d] = cfg.id[e] => d = e

Complete(c, t) == DistinctIds(t) /\ IdsOf(t) = 0 .. cfg.size[c] - 1

TlsConsistent(t) ==
    ~ \E d, e \in t : cfg.tls[d] = "enable" /\ cfg.tls[e] = "disable"

Init ==
    /\ cfg \in Configs
    /\ table = {}
    /\ outcome = [c \in Clients |-> "pending"]

Decide ==
    /\ table = {}
    /\ table' \in SUBSET Clients
    /\ UNCHANGED <<cfg, outcome>>

Succeed(c) ==
    /\ outcome[c] = "pending"
    /\ c \in table /\ Complete(c, table) /\ TlsConsistent(table)
    /\ outcome' = [outcome EXCEPT ![c] = "ok"]
    /\ UNCHANGED <<cfg, table>>

Fail(c) ==
    /\ outcome[c] = "pending"
    /\ outcome' = [outcome EXCEPT ![c] = "failed"]
    /\ UNCHANGED <<cfg, table>>

Next == Decide \/ \E c \in Clients : Succeed(c) \/ Fail(c)

Spec == Init /\ [][Next]_vars

=============================================================================
