-------------------------- MODULE ProviderRegistry --------------------------
(***************************************************************************)
(* The custom providers and their credentials: ProviderStore               *)
(* (app/core/provider_store.py), SecretResolver (app/core/secret_store.py) *)
(* and the endpoints under /settings/connections/providers                 *)
(* (app/api/server.py).                                                    *)
(*                                                                         *)
(* update reads the row without the lock and writes all of it back, and    *)
(* row and credential are deleted one after the other.                     *)
(***************************************************************************)
EXTENDS Requests, FiniteSets

CONSTANT Providers   \* ids of custom providers; an id is never used again

VARIABLES
    rows,      \* table custom_providers: is_default, discovered_models
    keys,      \* the stores that hold the credential of each id
    (* history *)
    created,   \* ids given out
    raced      \* ids deleted while a credential was being saved, or by a
               \* request that the server did not finish

registry == <<rows, keys, created, raced>>

RegistryInit ==
    /\ rows = <<>>
    /\ keys = [p \in Providers |-> {}]
    /\ created = {}
    /\ raced = {}

Stored == DOMAIN rows

\* resolve: a key in any store.
Configured(p) == keys[p] # {}

\* Mutant: the other providers keep their mark.
BugDemoted(p, default) == rows

\* "UPDATE custom_providers SET is_default=0" for all others, in the transaction
\* that writes a default.
Demoted(p, default) ==
    [q \in Stored |-> [rows[q] EXCEPT !.default = @ /\ (q = p \/ ~default)]]

Create(p, default) ==
    /\ Serve
    /\ p \notin created
    /\ created' = created \cup {p}
    /\ rows' = Inserted(Demoted(p, default), p, [default |-> default, found |-> FALSE])
    /\ UNCHANGED <<keys, raced, call>>

(***************************************************************************)
(* update: a read, and a transaction that writes the whole row             *)
(***************************************************************************)
Update(p, set, after) == [pc |-> "get", p |-> p, set |-> set, after |-> after]

\* The row with what the request sets; health and test results are not modelled.
Changed(row, set) ==
    CASE set = "default" -> [row EXCEPT !.default = TRUE]
      [] set = "plain" -> [row EXCEPT !.default = FALSE]
      [] set = "models" -> [row EXCEPT !.found = TRUE]
      [] set = "status" -> row

\* After the update the team test enters its result, the check of a provider writes
\* its health, and every other request answers.
Continue(c) == Become(c, call[c].after)

Get(c) ==
    /\ At(c, "get")
    /\ IF call[c].p \in Stored
       THEN Become(c, [pc |-> "write", p |-> call[c].p, after |-> call[c].after,
                       row |-> Changed(rows[call[c].p], call[c].set)])
       ELSE Finish(c)
    /\ UNCHANGED registry

Write(c) ==
    /\ At(c, "write")
    /\ LET p == call[c].p
           row == call[c].row
       IN rows' = [q \in Stored |-> IF q = p THEN row ELSE Demoted(p, row.default)[q]]
    /\ Continue(c)
    /\ UNCHANGED <<keys, created, raced>>

PutProvider(c, p, default) ==
    /\ Begin(c, Update(p, IF default THEN "default" ELSE "plain", Idle))
    /\ UNCHANGED registry

(***************************************************************************)
(* Model discovery and the connection test                                 *)
(***************************************************************************)
\* Without a row (404) or a key (409) nothing is requested; the test enters that the
\* authentication failed.
Discover(c, p, after) ==
    /\ p \in Stored
    /\ IF Configured(p)
       THEN Begin(c, [pc |-> "fetch", p |-> p, after |-> after])
       ELSE after # Idle /\ Begin(c, after)
    /\ UNCHANGED registry

DiscoverModels(c, p) ==
    \/ Discover(c, p, Idle)
    \/ Discover(c, p, Update(p, "status", Idle))

\* The provider lists its models, does not support it, or fails.
Fetched(c) ==
    /\ At(c, "fetch")
    /\ \/ \E set \in {"models", "status"} : Become(c, Update(call[c].p, set, call[c].after))
       \/ Continue(c)
    /\ UNCHANGED registry

(***************************************************************************)
(* Credentials and deletion                                                *)
(***************************************************************************)
SaveCredential(c, p, mode) ==
    /\ p \in Stored
    /\ Begin(c, [pc |-> "set", p |-> p, mode |-> mode])
    /\ UNCHANGED registry

\* A key for the secure store replaces the one of the session, and not the other way
\* round.
SetSecret(c) ==
    /\ At(c, "set")
    /\ keys' = [keys EXCEPT ![call[c].p] =
           IF call[c].mode = "secure" THEN {"secure"} ELSE @ \cup {"session"}]
    /\ Finish(c)
    /\ UNCHANGED <<rows, created, raced>>

DeleteCredential(c, p) ==
    /\ p \in Stored
    /\ Begin(c, [pc |-> "drop", p |-> p])
    /\ UNCHANGED registry

Saving(p) == \E c \in Clients : At(c, "set") /\ call[c].p = p

DeleteProvider(c, p) ==
    /\ p \in Stored
    /\ rows' = [q \in Stored \ {p} |-> rows[q]]
    /\ raced' = IF Saving(p) THEN raced \cup {p} ELSE raced
    /\ Begin(c, [pc |-> "drop", p |-> p])
    /\ UNCHANGED <<keys, created>>

Dropped(p) == {}

DropSecret(c) ==
    /\ At(c, "drop")
    /\ keys' = [keys EXCEPT ![call[c].p] = Dropped(call[c].p)]
    /\ Finish(c)
    /\ UNCHANGED <<rows, created, raced>>

\* The tables and the secure store outlive the process, the session does not.
RegistryAfterDeath ==
    /\ keys' = [p \in Providers |-> keys[p] \ {"session"}]
    /\ raced' = raced \cup {p \in Providers \ Stored :
                              \E c \in Clients : At(c, "drop") /\ call[c].p = p}
    /\ UNCHANGED <<rows, created>>

RegistryStep(c) ==
    \/ \E p \in Providers :
          \/ \E default \in BOOLEAN : Create(p, default) \/ PutProvider(c, p, default)
          \/ DiscoverModels(c, p)
          \/ \E mode \in {"session", "secure"} : SaveCredential(c, p, mode)
          \/ DeleteCredential(c, p)
          \/ DeleteProvider(c, p)
    \/ Get(c) \/ Write(c)
    \/ Fetched(c)
    \/ SetSecret(c)
    \/ DropSecret(c)
-----------------------------------------------------------------------------
\* However updates that read before another one wrote follow each other, at most one
\* provider is the default: default() need not choose among several.
OneDefault == Cardinality({p \in Stored : rows[p].default}) <= 1

\* "Credentials live elsewhere" and are deleted with their provider: once it is
\* deleted no store holds its key, unless the key was being saved at the time or the
\* server died between the two deletions.
KeysHaveProvider ==
    \A p \in Providers \ Stored :
        \/ keys[p] = {}
        \/ p \in raced
        \/ \E c \in Clients : At(c, "drop") /\ call[c].p = p
=============================================================================
