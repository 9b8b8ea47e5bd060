--------------------------- MODULE VersionHistory ---------------------------
(***************************************************************************)
(* What the registry does promise of a configuration kept in numbered      *)
(* versions, some of them active: the prompts of an agent, the             *)
(* configurations of a model endpoint.  Versions are added at the end and  *)
(* never change but for is_active.  A request makes at most one version    *)
(* active; which of the others it leaves active is not promised, since two *)
(* requests may overlap.                                                   *)
(*                                                                         *)
(* PromptStore and ModelEndpoints implement this specification.            *)
(***************************************************************************)
EXTENDS Naturals, Sequences

CONSTANT Clients

VARIABLE versions       \* versions[n]: is version n active, and who made it

Active == {v \in DOMAIN versions : versions[v].active}

\* The versions, with those in S active.
WithActive(S) == [v \in DOMAIN versions |-> [active |-> v \in S, by |-> versions[v].by]]

Init == versions = <<>>

AddActive(c) ==
  \E S \in SUBSET Active :
    versions' = Append(WithActive(S), [active |-> TRUE, by |-> c])

\* A version added without being activated changes nothing for those who read
\* the active one.  It is never the first.
AddInactive(c) ==
  /\ versions # <<>>
  /\ versions' = Append(versions, [active |-> FALSE, by |-> c])

Activate(v) == \E S \in SUBSET Active : versions' = WithActive(S \cup {v})

Next ==
  \/ \E c \in Clients : AddActive(c) \/ AddInactive(c)
  \/ \E v \in DOMAIN versions : Activate(v)

Spec == Init /\ [][Next]_versions
=============================================================================
