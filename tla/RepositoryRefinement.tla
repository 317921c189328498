-------------------------- MODULE RepositoryRefinement --------------------------
(***************************************************************************)
(* TwoSlotRepository implements DurableVault: the stable version is what    *)
(* the client last observed, the tentative one whatever else an open would  *)
(* select from the storage as it is.  This is so as long as the medium      *)
(* keeps what it stored and the slots can be read; writes may fail in every *)
(* way the module knows and the program may crash anywhere.                 *)
(***************************************************************************)
EXTENDS TwoSlotRepository

Versions == [vault : Vaults, gen : 0..MaxGen, content : Contents]
OpenVaults == [vault : Vaults, content : Contents]

ASSUME VersionAssumption == None \notin Versions \cup OpenVaults

VersionOf(c) == [vault |-> c.vault, gen |-> c.gen, content |-> c.content]

\* The slots open would accept now; none without metadata.
Openable == IF store["meta"] \in MetaRecords THEN Candidates(store, store["meta"]) ELSE {}

StableVersion == IF observed = None THEN None ELSE VersionOf(observed)

TentativeVersion ==
  IF \E c \in Openable : Current(c) /\ c # observed
  THEN VersionOf(CHOOSE c \in Openable : Current(c))
  ELSE None

OpenVault == IF session = None THEN None
             ELSE [vault |-> session.vault, content |-> session.content]

Durable == INSTANCE DurableVault WITH stable <- StableVersion,
                                      tentative <- TentativeVersion,
                                      session <- OpenVault

(* Every behaviour of the repository, seen through the mapping, is one of a
   store that switches atomically between a stable and one tentative version. *)
ImplementsDurableVault == Durable!Spec
=============================================================================
