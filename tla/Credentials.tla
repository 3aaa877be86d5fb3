------------------------------ MODULE Credentials ------------------------------
(***************************************************************************)
(* The credentials that outlive a gateway process: agents' API keys and    *)
(* the accounts of human operators.                                        *)
(*                                                                         *)
(* Several gateways share one store.  A key is put in the cache of the     *)
(* gateway that mints it, then in the store, then the marker of readiness  *)
(* is written, then the key is handed out; a gateway may die in between.   *)
(* An account is created, by an administrator or by the seeding of a       *)
(* starting gateway, together with the index entry of its address.         *)
(***************************************************************************)
EXTENDS FiniteSets

CONSTANTS
  Gateway, Key, Account, Email,
  NoAccount    \* no account: what an address without index entry leads to

VARIABLES
  cache,     \* cache[g]: the keys gateway g knows
  stored,    \* the keys in the store
  marker,    \* the readiness marker
  handed,    \* the keys that were returned to a client
  email,     \* email[u]: the address of account u, or NoAccount if there is none
  index,     \* index[m]: the account of address m, or NoAccount
  job        \* job[g]: what gateway g is doing

vars == <<cache, stored, marker, handed, email, index, job>>
keys == <<cache, stored, handed>>
accounts == <<email, index>>

Idle == [pc |-> "idle"]
KeyJob == [pc : {"persist", "mark", "return"}, key : Key]
AccountJob == [pc : {"create"}, email : Email, account : Account]
Job == {Idle, [pc |-> "mark"]} \cup KeyJob \cup AccountJob

\* Identities nobody has drawn yet.
Unborn == {u \in Account : /\ email[u] = NoAccount
                           /\ \A g \in Gateway : "account" \in DOMAIN job[g]
                                                   => job[g].account # u}

-----------------------------------------------------------------------------
(* Keys *)

\* issue_agent_key: registered in the process first.
Mint(g, k) ==
  /\ job[g] = Idle
  /\ \A h \in Gateway : k \notin cache[h]
  /\ k \notin stored /\ k \notin handed
  /\ cache' = [cache EXCEPT ![g] = @ \cup {k}]
  /\ job' = [job EXCEPT ![g] = [pc |-> "persist", key |-> k]]
  /\ UNCHANGED <<stored, handed, marker, accounts>>

\* Fault: the registration in the process is all there is.
PersistNothing(g) ==
  /\ job[g].pc = "persist"
  /\ job' = [job EXCEPT ![g].pc = "return"]
  /\ UNCHANGED <<keys, marker, accounts>>

\* put_api_key writes the key, and then the marker.
Persist(g) ==
  /\ job[g].pc = "persist"
  /\ stored' = stored \cup {job[g].key}
  /\ job' = [job EXCEPT ![g].pc = "mark"]
  /\ UNCHANGED <<cache, handed, marker, accounts>>

MarkCredentials(g) ==
  /\ job[g].pc = "mark"
  /\ marker' = TRUE
  /\ job' = [job EXCEPT ![g] = IF "key" \in DOMAIN @ THEN [@ EXCEPT !.pc = "return"]
                               ELSE Idle]
  /\ UNCHANGED <<keys, accounts>>

HandOut(g) ==
  /\ job[g].pc = "return"
  /\ handed' = handed \cup {job[g].key}
  /\ job' = [job EXCEPT ![g] = Idle]
  /\ UNCHANGED <<cache, stored, marker, accounts>>

Resolves(g, k) == k \in cache[g] \/ k \in stored

\* A key that is found in the store warms the cache.
Resolve(g, k) ==
  /\ k \in handed /\ Resolves(g, k)
  /\ cache' = [cache EXCEPT ![g] = @ \cup {k}]
  /\ UNCHANGED <<stored, handed, marker, accounts, job>>

\* IdentityResolver.has_any_credential
HasAnyCredential(g) == cache[g] # {} \/ marker

-----------------------------------------------------------------------------
(* Accounts *)

\* Seeding looks the address up first; create_user does not.
SeedBootstrapAdmin(g, m) ==
  /\ job[g] = Idle /\ index[m] = NoAccount
  /\ \E u \in Unborn :
       job' = [job EXCEPT ![g] = [pc |-> "create", email |-> m, account |-> u]]
  /\ UNCHANGED <<keys, marker, accounts>>

RequestUser(g, m) ==
  /\ job[g] = Idle
  /\ \E u \in Unborn :
       job' = [job EXCEPT ![g] = [pc |-> "create", email |-> m, account |-> u]]
  /\ UNCHANGED <<keys, marker, accounts>>

\* Both puts are conditional: no such account, and no entry for its address.
IsNew(m, u) == email[u] = NoAccount /\ index[m] = NoAccount

CreateUser(g) ==
  /\ job[g].pc = "create"
  /\ LET m == job[g].email
         u == job[g].account
     IN IF IsNew(m, u)
        THEN /\ email' = [email EXCEPT ![u] = m]
             /\ index' = [index EXCEPT ![m] = u]
             /\ job' = [job EXCEPT ![g] = [pc |-> "mark"]]
        ELSE job' = [job EXCEPT ![g] = Idle] /\ UNCHANGED accounts
  /\ UNCHANGED <<keys, marker>>

\* A gateway dies and starts again with an empty cache.
Restart(g) ==
  /\ job' = [job EXCEPT ![g] = Idle]
  /\ cache' = [cache EXCEPT ![g] = {}]
  /\ UNCHANGED <<stored, handed, marker, accounts>>

-----------------------------------------------------------------------------

Init ==
  /\ cache = [g \in Gateway |-> {}]
  /\ stored = {} /\ handed = {} /\ marker = FALSE
  /\ email = [u \in Account |-> NoAccount]
  /\ index = [m \in Email |-> NoAccount]
  /\ job = [g \in Gateway |-> Idle]

Next ==
  \E g \in Gateway :
    \/ Persist(g) \/ MarkCredentials(g) \/ HandOut(g) \/ CreateUser(g) \/ Restart(g)
    \/ \E k \in Key : Mint(g, k) \/ Resolve(g, k)
    \/ \E m \in Email : SeedBootstrapAdmin(g, m) \/ RequestUser(g, m)

Spec == Init /\ [][Next]_vars

-----------------------------------------------------------------------------
(* Properties *)

TypeOK ==
  /\ cache \in [Gateway -> SUBSET Key]
  /\ stored \subseteq Key /\ handed \subseteq Key /\ marker \in BOOLEAN
  /\ email \in [Account -> Email \cup {NoAccount}]
  /\ index \in [Email -> Account \cup {NoAccount}]
  /\ job \in [Gateway -> Job]

\* routes.py issue_agent_key: a key that was handed out survives restarts and is
\* known to every gateway, not just to the one that minted it.
HandedKeysResolve == \A g \in Gateway, k \in handed : Resolves(g, k)

\* budget_repo.py create_user: gateways seed and administrators create at once,
\* and still an address has one account, the one its index entry leads to.
OneAccountPerEmail ==
  \A u \in Account : email[u] # NoAccount => index[email[u]] = u

\* identity.py has_any_credential: whether at least one agent key is known, cache
\* or repository.
StoredKeysMakeReady ==
  stored # {} => \A g \in Gateway : job[g] = Idle => HasAnyCredential(g)
                                     \/ \E h \in Gateway : job[h].pc = "mark"

-----------------------------------------------------------------------------
(* What the properties rest on, kept by every step *)

\* A key that was handed out is in the store, and so is one that is about to be.
KeysAreStored ==
  /\ handed \subseteq stored
  /\ \A g \in Gateway : job[g].pc \in {"mark", "return"} /\ "key" \in DOMAIN job[g]
                          => job[g].key \in stored

\* The inductive invariant.
Kept == TypeOK /\ KeysAreStored /\ OneAccountPerEmail
================================================================================
