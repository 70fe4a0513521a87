----------------------------- MODULE TenantKeys -----------------------------
(***************************************************************************)
(* The keys of one workspace and the secrets sealed under them: the        *)
(* wrapped provider on its key file (keys.py WrappedKeyProvider,           *)
(* FileKeyStore, KeyRing), the connections that hold the secrets (store.py *)
(* upsert_connection and its neighbours, through seal.py), rotation and    *)
(* re-sealing (cli/main.py keyring_rotate, keys.reseal) and the shred with *)
(* which a purge begins (purge.py _shred_key, _delete_local).              *)
(*                                                                         *)
(* Every seal builds its own ring, so nothing is cached between two calls  *)
(* and no lock is shared: a key file is read whole, changed and written    *)
(* whole by several processes at once.                                     *)
(*                                                                         *)
(*   table[g]   the key file: the material of generation g, or NoKey       *)
(*   conns[i]   connection documents of one provider                       *)
(*   job[p]     what process p is in the middle of                         *)
(*   minted, logins   how many materials and secrets there have been; each *)
(*              material and each secret is a number of its own            *)
(* and bookkeeping: shredded, the materials a purge has destroyed; rushed, *)
(* whether a key was written on a decision that had become old; newest[o], *)
(* the secret of the last login of o; stale, owners whose row was written  *)
(* by one operation while another was at it; borrowed, owners to whom a    *)
(* re-seal has copied the shared secret; lagging, owners whose row was     *)
(* sealed under a key chosen before the file changed.                      *)
(***************************************************************************)
EXTENDS Integers, FiniteSets, FiniteSetsExt

CONSTANTS Server, Console,       \* processes that log users in, and an operator's commands
          Owner, Common,         \* a connection belongs to a user or to the workspace
          MaxRows, MaxLogins, MaxMints, MaxResets   \* bounds; resets are rotations, re-seals, purges

ASSUME KeysAssumption ==
  /\ Common \in Owner
  /\ {MaxRows, MaxLogins, MaxMints, MaxResets} \subseteq Nat \ {0}

Proc == Server \cup Console

VARIABLES table, conns, job, minted, logins, resets,
          shredded, rushed, newest, stale, borrowed, lagging

memory == <<shredded, rushed, newest, stale, borrowed, lagging>>
keyVars == <<table, conns, job, minted, logins, resets, memory>>
-----------------------------------------------------------------------------
NoKey == 0
Gens == 1..MaxMints
Conns == 1..MaxRows
NoConn == [st |-> "absent", owner |-> Common, secret |-> 0, gen |-> 0, mat |-> NoKey]
AtRest == [pc |-> "idle", op |-> "none", owner |-> Common, secret |-> 0, row |-> 0,
         gen |-> 0, mat |-> NoKey, tab |-> [g \in Gens |-> NoKey],
         todo |-> {}, base |-> 0, then |-> FALSE,
         cut |-> FALSE,    \* the key file changed since p chose its generation
         late |-> FALSE]   \* a row of the owner changed since p read it

\* generations(): the highest one in the file, 0 when there is none.
TopGen(t) == Max({0} \cup {g \in Gens : t[g] # NoKey})
Stored(t) == {t[g] : g \in Gens} \ {NoKey}

ActiveOf(o) == {i \in Conns : conns[i].st = "active" /\ conns[i].owner = o}

\* get_connection: the owner's own connection, else the one of the workspace.
Lookup(o) == IF ActiveOf(o) # {} THEN ActiveOf(o) ELSE ActiveOf(Common)

\* KeyRing.open: the envelope names a generation; what is stored there must be the
\* key that sealed it.
Opens(i) == conns[i].mat # NoKey /\ table[conns[i].gen] = conns[i].mat

Ready(p) == job[p].pc \in {"idle", "raised"}
Turns(p, r) == job' = [job EXCEPT ![p] = r]

\* The others learn nothing of a write; the bookkeeping does.
FileChanges(p, r) ==
  job' = [q \in Proc |-> IF q = p THEN r ELSE [job[q] EXCEPT !.cut = TRUE]]
RowChanges(p, o, r) ==
  job' = [q \in Proc |-> IF q = p THEN r
                         ELSE [job[q] EXCEPT !.late = @ \/ job[q].owner = o]]

KeysInit ==
  /\ table = [g \in Gens |-> NoKey] /\ conns = [i \in Conns |-> NoConn]
  /\ job = [p \in Proc |-> AtRest] /\ minted = 0 /\ logins = 0 /\ resets = 0
  /\ shredded = {} /\ rushed = FALSE /\ newest = [o \in Owner |-> 0]
  /\ stale = {} /\ borrowed = {} /\ lagging = {}

(* Sealing a secret into a connection. *)

\* ctx.connections.upsert after a login.
Login(p, o) ==
  /\ Ready(p) /\ logins < MaxLogins
  /\ logins' = logins + 1
  /\ Turns(p, [AtRest EXCEPT !.pc = "find", !.op = "login", !.owner = o, !.secret = logins + 1])
  /\ UNCHANGED <<table, conns, minted, resets, memory>>

\* Slip: every login makes a document of its own, as create_connection does.
NeverOverwritten(o) == {}

\* Slip: the status of the document is not looked at.
OverwrittenRevoked(o) == {i \in Conns : conns[i].st # "absent" /\ conns[i].owner = o}

\* upsert_connection looks for the active document of (provider, owner): the one it
\* will overwrite.
Overwritten(o) == ActiveOf(o)

Find(p) ==
  /\ job[p].pc = "find"
  /\ \E i \in IF Overwritten(job[p].owner) = {} THEN {0} ELSE Overwritten(job[p].owner) :
       Turns(p, [job[p] EXCEPT !.pc = "decide", !.row = i,
                                  !.late = @ /\ job[p].op = "reseal"])
  /\ UNCHANGED <<table, conns, minted, logins, resets, memory>>

\* Slip: the highest generation is minted again.
SameGen(t) == Max({1, TopGen(t)})

\* The generation a rotation mints.
NextGen(t) == TopGen(t) + 1

\* current() lists the generations; rotate() does, too.
Decide(p) ==
  LET r == [job[p] EXCEPT !.cut = FALSE] IN
  /\ job[p].pc = "decide"
  /\ IF r.op = "rotate"
     THEN NextGen(table) \in Gens /\ Turns(p, [r EXCEPT !.pc = "load", !.gen = NextGen(table)])
     ELSE IF TopGen(table) = 0
          THEN Turns(p, [r EXCEPT !.pc = "load", !.gen = 1])
          ELSE Turns(p, [r EXCEPT !.pc = "fetch", !.gen = TopGen(table)])
  /\ UNCHANGED <<table, conns, minted, logins, resets, memory>>

\* ... and reads the highest in a second look at the file; gone, it mints the first.
Fetch(p) ==
  LET r == job[p] IN
  /\ r.pc = "fetch"
  /\ Turns(p, IF table[r.gen] # NoKey
             THEN [r EXCEPT !.pc = "store", !.mat = table[r.gen]]
             ELSE [r EXCEPT !.pc = "load", !.gen = 1])
  /\ UNCHANGED <<table, conns, minted, logins, resets, memory>>

\* _mint: a new material; put() reads the file ...
Load(p) ==
  /\ job[p].pc = "load" /\ minted < MaxMints
  /\ minted' = minted + 1
  /\ Turns(p, [job[p] EXCEPT !.pc = "put", !.mat = minted + 1, !.tab = table])
  /\ UNCHANGED <<table, conns, logins, resets, memory>>

\* ... and writes it back with the new entry, over whatever is there by then.
PutKey(p) ==
  LET r == job[p] IN
  /\ r.pc = "put"
  /\ table' = [r.tab EXCEPT ![r.gen] = r.mat]
  /\ rushed' = (rushed \/ r.cut)
  /\ FileChanges(p, [r EXCEPT !.pc = "reread"])
  /\ UNCHANGED <<conns, minted, logins, resets, shredded, newest, stale, borrowed, lagging>>

\* _mint reads again, and goes by what is stored.
Reread(p) ==
  LET r == job[p]
      m == [r EXCEPT !.mat = IF table[r.gen] # NoKey THEN table[r.gen] ELSE r.mat] IN
  /\ r.pc = "reread"
  /\ Turns(p, IF r.op # "rotate" THEN [m EXCEPT !.pc = "store"]
             ELSE IF r.then THEN [AtRest EXCEPT !.pc = "list", !.op = "reseal"] ELSE AtRest)
  /\ UNCHANGED <<table, conns, minted, logins, resets, memory>>

\* Ids are unique: that of a deleted document somebody still holds is not given out.
FreshIds == {i \in Conns : conns[i].st = "absent" /\ \A p \in Proc : job[p].row # i}

\* The document is written with the sealed secret, in the place of the one that was
\* found, or as a new one.
Store(p) ==
  LET r == job[p]
      new == [st |-> "active", owner |-> r.owner, secret |-> r.secret, gen |-> r.gen, mat |-> r.mat]
  IN
  /\ r.pc = "store"
  /\ r.row # 0 \/ FreshIds # {}
  /\ LET i == IF r.row # 0 THEN r.row ELSE Min(FreshIds) IN conns' = [conns EXCEPT ![i] = new]
  /\ RowChanges(p, r.owner, IF r.op = "login" THEN AtRest ELSE [r EXCEPT !.pc = "scan", !.owner = Common])
  /\ newest' = IF r.op = "login" THEN [newest EXCEPT ![r.owner] = r.secret] ELSE newest
  /\ stale' = IF r.late THEN stale \cup {r.owner} ELSE stale
  /\ lagging' = IF r.cut THEN lagging \cup {r.owner} ELSE lagging
  /\ UNCHANGED <<table, minted, logins, resets, shredded, rushed, borrowed>>

\* revoke_connection: the secret is dropped, the document stays. It overwrites what
\* it read of it, so that its write alone counts.
Revoke(i) ==
  /\ conns[i].st = "active"
  /\ conns' = [conns EXCEPT ![i] = [NoConn EXCEPT !.st = "revoked", !.owner = conns[i].owner]]
  /\ job' = [q \in Proc |-> [job[q] EXCEPT !.late = @ \/ job[q].owner = conns[i].owner]]
  /\ UNCHANGED <<table, minted, logins, resets, memory>>

(* The commands of an operator. *)

\* rya keyring rotate, with or without --reseal.
Rotate(p, andReseal) ==
  /\ Ready(p) /\ resets < MaxResets
  /\ resets' = resets + 1
  /\ Turns(p, [AtRest EXCEPT !.pc = "decide", !.op = "rotate", !.then = andReseal])
  /\ UNCHANGED <<table, conns, minted, logins, memory>>

\* rya keyring reseal.
Reseal(p) ==
  /\ Ready(p) /\ resets < MaxResets
  /\ resets' = resets + 1
  /\ Turns(p, [AtRest EXCEPT !.pc = "list", !.op = "reseal"])
  /\ UNCHANGED <<table, conns, minted, logins, memory>>

\* list_connections: every document, the revoked ones, too.
List(p) ==
  /\ job[p].pc = "list"
  /\ Turns(p, [job[p] EXCEPT !.pc = "scan", !.base = TopGen(table),
                !.todo = {<<i, conns[i].owner>> : i \in {j \in Conns : conns[j].st # "absent"}}])
  /\ UNCHANGED <<table, conns, minted, logins, resets, memory>>

\* Slip: anything sealed will do, as in the older reseal_connections.
NeedsSealing(i) == conns[i].mat = NoKey

\* The document whose secret is sealed again. What get_connection returns is open, so
\* needs_reseal says yes to whatever there is.
NeedsReseal(i) == conns[i].st = "active"

\* One listed document: get_connection for its owner, and upsert of what that returns.
Scan(p) ==
  /\ job[p].pc = "scan"
  /\ \E d \in job[p].todo :
       LET o == d[2]
           rest == [job[p] EXCEPT !.todo = @ \ {d}]
       IN
       \/ /\ Lookup(o) = {}
          /\ Turns(p, rest) /\ UNCHANGED borrowed
       \/ \E i \in Lookup(o) :
            /\ Opens(i)
            /\ IF NeedsReseal(i)
               THEN /\ Turns(p, [rest EXCEPT !.pc = "find", !.owner = o, !.secret = conns[i].secret,
                                           !.late = FALSE])
                    /\ borrowed' = IF conns[i].owner # o THEN borrowed \cup {o} ELSE borrowed
               ELSE Turns(p, rest) /\ UNCHANGED borrowed
  /\ UNCHANGED <<table, conns, minted, logins, resets, shredded, rushed, newest, stale, lagging>>

ResealEnds(p) ==
  /\ job[p].pc = "scan" /\ job[p].todo = {}
  /\ Turns(p, AtRest)
  /\ UNCHANGED <<table, conns, minted, logins, resets, memory>>

\* get_connection is outside the try: a secret that does not open ends the loop.
ResealRaises(p) ==
  /\ job[p].pc = "scan"
  /\ \E d \in job[p].todo : \E i \in Lookup(d[2]) : ~Opens(i)
  /\ Turns(p, [AtRest EXCEPT !.pc = "raised"])
  /\ UNCHANGED <<table, conns, minted, logins, resets, memory>>

\* rya workspaces purge --force.
Purge(p) ==
  /\ Ready(p) /\ resets < MaxResets
  /\ resets' = resets + 1
  /\ Turns(p, [AtRest EXCEPT !.pc = "destroy", !.op = "purge"])
  /\ UNCHANGED <<table, conns, minted, logins, memory>>

\* Slip: the current generation goes, the older ones stay.
CurrentDestroyed(t) == [g \in Gens |-> IF g = TopGen(t) THEN NoKey ELSE t[g]]

\* What destroy() leaves in the file: nothing of this workspace.
Destroyed(t) == [g \in Gens |-> NoKey]

\* FileKeyStore.destroy: the file is read ...
ReadKeys(p) ==
  /\ job[p].pc = "destroy"
  /\ Turns(p, [job[p] EXCEPT !.pc = IF TopGen(table) = 0 THEN "delete" ELSE "shred"])
  /\ UNCHANGED <<table, conns, minted, logins, resets, memory>>

\* ... and written without them.
Shred(p) ==
  /\ job[p].pc = "shred"
  /\ table' = Destroyed(table)
  /\ shredded' = shredded \cup Stored(table)
  /\ FileChanges(p, [job[p] EXCEPT !.pc = "delete"])
  /\ UNCHANGED <<conns, minted, logins, resets, rushed, newest, stale, borrowed, lagging>>

\* _delete_local.
DeleteRows(p) ==
  /\ job[p].pc = "delete"
  /\ conns' = [i \in Conns |-> NoConn]
  /\ job' = [q \in Proc |-> IF q = p THEN AtRest ELSE [job[q] EXCEPT !.late = TRUE]]
  /\ UNCHANGED <<table, minted, logins, resets, memory>>

\* A process dies; the commands are commands, and the api restarts.
Die(p) ==
  /\ ~Ready(p)
  /\ Turns(p, AtRest)
  /\ UNCHANGED <<table, conns, minted, logins, resets, memory>>

KeysNext ==
  \/ \E p \in Server, o \in Owner : Login(p, o)
  \/ \E p \in Proc : \/ Find(p) \/ Decide(p) \/ Fetch(p) \/ Load(p) \/ PutKey(p)
                     \/ Reread(p) \/ Store(p)
  \/ \E i \in Conns : Revoke(i)
  \/ \E p \in Console : \/ \E b \in BOOLEAN : Rotate(p, b)
                        \/ Reseal(p) \/ List(p) \/ Scan(p) \/ ResealEnds(p) \/ ResealRaises(p)
                        \/ Purge(p) \/ ReadKeys(p) \/ Shred(p) \/ DeleteRows(p)
  \/ \E p \in Proc : Die(p)

KeysSpec == KeysInit /\ [][KeysNext]_keyVars
-----------------------------------------------------------------------------
KeysTyped ==
  /\ table \in [Gens -> 0..MaxMints]
  /\ conns \in [Conns -> [st : {"absent", "active", "revoked"}, owner : Owner,
                         secret : 0..MaxLogins, gen : 0..MaxMints, mat : 0..MaxMints]]
  /\ job \in [Proc ->
       [pc : {"idle", "find", "decide", "fetch", "load", "put", "reread", "store", "list",
              "scan", "destroy", "shred", "delete", "raised"},
        op : {"none", "login", "rotate", "reseal", "purge"}, owner : Owner,
        secret : 0..MaxLogins, row : 0..MaxRows, gen : 0..MaxMints, mat : 0..MaxMints,
        tab : [Gens -> 0..MaxMints], todo : SUBSET (Conns \X Owner), base : 0..MaxMints,
        then : BOOLEAN, cut : BOOLEAN, late : BOOLEAN]]
  /\ minted \in 0..MaxMints /\ logins \in 0..MaxLogins /\ resets \in 0..MaxResets
  /\ shredded \subseteq 1..MaxMints /\ rushed \in BOOLEAN /\ newest \in [Owner -> 0..MaxLogins]
  /\ stale \subseteq Owner /\ borrowed \subseteq Owner /\ lagging \subseteq Owner

\* As long as no key was written on an old decision, a sealed secret opens, unless a
\* purge has destroyed its key: rotations and re-seals lose nothing (keys.py rotate:
\* "Old ciphertext keeps opening until re-sealed").
SecretsStayReadable ==
  ~rushed => \A i \in Conns : conns[i].st = "active" => Opens(i) \/ conns[i].mat \in shredded

\* A key that was shredded never comes back into the file, in whatever order mints and
\* purges went on, unless the file was written on an old decision (keys.py destroy:
\* every generation goes).
ShredIsFinal == ~rushed => Stored(table) \cap shredded = {}

\* A user's active connections all hold the secret of that user's last login, whatever
\* is re-sealed meanwhile, unless two operations were at that user's row at once (store.py
\* upsert_connection: no duplicates "which would let get_connection later inject a stale
\* token") or a re-seal has copied the shared secret to them.
NoStaleToken ==
  \A i \in Conns : conns[i].st = "active" /\ conns[i].owner \notin stale \cup borrowed
                    => conns[i].secret = newest[conns[i].owner]

\* Once revoked, a document is never active again, unless its owner's row was being
\* written when it was revoked (store.py revoke_connection).
RevokedStaysRevoked ==
  \A i \in Conns : conns[i].st = "revoked"
      => conns'[i].st # "active" \/ conns[i].owner \in stale'

\* A re-seal that comes to its end leaves nothing sealed under a generation older than
\* the one it began with, so that the older ones are no longer needed (keys.reseal: "this
\* is the loop that ends that dependency"); excepted are users whose row was written by
\* somebody else on the way, a key file that was written on an old decision, and one
\* that lost what a purge took.
ResealReaches ==
  \A p \in Proc : ResealEnds(p) /\ TopGen(table) >= job[p].base /\ ~rushed =>
      \A i \in Conns : conns[i].st = "active" /\ conns[i].owner \notin stale \cup lagging
                        => conns[i].gen >= job[p].base

\* Rotations, re-seals, logins and purges, in whatever order and dying anywhere: no
\* secret is lost, no shredded key comes back, no stale token is injected.
KeysSound == SecretsStayReadable /\ ShredIsFinal /\ NoStaleToken

\* A re-seal that ends has reached everything nobody else was writing meanwhile, and no
\* step makes a revoked connection active again.
ResealsKeepOrder == [][RevokedStaysRevoked /\ ResealReaches]_keyVars

\* A secret that does not open is reported and does not end the re-seal (keys.reseal:
\* "one unreadable secret must not stop the other 99 from being re-sealed").
ResealGoesOn == \A p \in Proc : job[p].pc # "raised"
=============================================================================
