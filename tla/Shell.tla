------------------------------- MODULE Shell --------------------------------
(***************************************************************************)
(* The shell of one node: concurrent installs, uninstalls, revocation and  *)
(* teardown over the slot table, its claim books and the persisted         *)
(* freshness store (WASM/host/shell-core.ts bootShell, slot-table.ts,      *)
(* policy.ts checkHostGates, bundle.ts FreshnessMarks).                    *)
(*                                                                         *)
(* An install is a process that awaits admission, its modules and its      *)
(* realm; everything between two awaits is one step.  A slot is named by   *)
(* the install that made it.  What a bundle's bytes decide (signatures,    *)
(* manifest, modules that compile) is a choice made when it is loaded.     *)
(***************************************************************************)
EXTENDS Integers, FiniteSets

CONSTANTS
    Apps,       \* labels
    Authors,
    Claims,     \* protocol and service ids
    Bundles,    \* the verified bundles there are to install
    MaxSlots,   \* DEFAULT_MAX_APP_SLOTS
    NInstalls   \* bound: installs begun, across restarts

Unset == -1

ASSUME ShellAssumption ==
    /\ NInstalls \in Nat
    /\ MaxSlots \in Nat
    /\ \A b \in Bundles :
         /\ b.app \in Apps /\ b.author \in Authors /\ b.version \in Nat
         /\ b.protocols \subseteq Claims /\ b.services \subseteq Claims
         /\ b.links \in BOOLEAN

VARIABLES
    node,       \* the process: "down", "booting", "up" or "closed"
    begun,      \* installs begun so far
    phase,      \* where each install is
    bundle,     \* what each install carries
    target,     \* the slot each install replaces, 0 for none
    slots,      \* the installed slots
    peer,       \* the peer book: who serves each protocol id, 0 for nobody
    local,      \* the local book
    occupant,   \* who holds `link`, 0 for nobody
    bound,      \* whose realm hears the link driver's events, 0 for nobody
    active,     \* slots whose seam is open
    held,       \* installs whose modules or realm have not been disposed
    marks,      \* the freshness marks in memory
    revoked,    \* the revoked authors in memory
    disk        \* what the freshness store last persisted

table == <<slots, peer, local, occupant>>
store == <<marks, revoked, disk>>
vars == <<node, begun, phase, bundle, target, slots, peer, local, occupant, bound,
          active, held, marks, revoked, disk>>

Ids == 1..NInstalls
Keys == Authors \X Apps
Key(b) == <<b.author, b.app>>
Versions == {b.version : b \in Bundles} \union {Unset}

Phases == {"unused", "admission", "modules", "realm", "installed", "ended"}

(* The state's types; the slots are installs that committed. *)
TypeOK ==
    /\ node \in {"down", "booting", "up", "closed"}
    /\ begun \in 0..NInstalls
    /\ phase \in [Ids -> Phases]
    /\ \A i \in Ids : phase[i] # "unused" => bundle[i] \in Bundles
    /\ target \in [Ids -> Ids \union {0}]
    /\ slots \subseteq {i \in Ids : phase[i] = "installed"}
    /\ peer \in [Claims -> Ids \union {0}]
    /\ local \in [Claims -> Ids \union {0}]
    /\ occupant \in Ids \union {0}
    /\ bound \in Ids \union {0}
    /\ active \subseteq Ids
    /\ held \subseteq Ids
    /\ marks \in [Keys -> Versions]
    /\ revoked \subseteq Authors

NoBundle == [app |-> "none"]

Init ==
    /\ node = "down"
    /\ begun = 0
    /\ phase = [i \in Ids |-> "unused"]
    /\ bundle = [i \in Ids |-> NoBundle]
    /\ target = [i \in Ids |-> 0]
    /\ slots = {}
    /\ peer = [c \in Claims |-> 0]
    /\ local = [c \in Claims |-> 0]
    /\ occupant = 0
    /\ bound = 0
    /\ active = {}
    /\ held = {}
    /\ marks = [k \in Keys |-> Unset]
    /\ revoked = {}
    /\ disk = [marks |-> [k \in Keys |-> Unset], revoked |-> {}]

-----------------------------------------------------------------------------
(* The rules an install is held to.                                        *)

(* checkHostGates: revocation, then the downgrade guard. *)
HostGates(b) == b.author \notin revoked /\ b.version >= marks[Key(b)]

(* refuseConflicts: the replaced slot still stands, nobody else holds the  *)
(* label or a claim, `link` is taken only at boot or from its holder, and  *)
(* there is room.                                                          *)
Fits(b, t, boot) ==
    /\ t # 0 => t \in slots
    /\ \A s \in slots : bundle[s].app = b.app => s = t
    /\ \A c \in b.protocols : peer[c] \in {0, t}
    /\ \A c \in b.services : local[c] \in {0, t}
    /\ b.links => IF occupant = 0 THEN boot ELSE occupant = t
    /\ t = 0 => Cardinality(slots) < MaxSlots

(* checkInstallation. *)
Installable(b, t, boot) == node # "closed" /\ Fits(b, t, boot)

CommitsUngated(b, t, boot) == Installable(b, t, boot)

(* What the commit window asks again. *)
Commits(b, t, boot) == HostGates(b) /\ Installable(b, t, boot)

-----------------------------------------------------------------------------
(* The slot table, the link driver's binding and teardown.                 *)

ReleasedKept(book, s) == book

(* release(): the book without slot s's claims. *)
Released(book, s) == [c \in Claims |-> IF book[c] = s THEN 0 ELSE book[c]]

(* commit(): slot s takes its claims. *)
Claimed(book, names, s) == [c \in Claims |-> IF c \in names THEN s ELSE book[c]]

DisposesRealmless(X, A) ==
    /\ active' = (active \union A) \ X
    /\ held' = held \ (X \intersect slots)

(* disposeSlot() of the slots X, beside which A becomes active. *)
Disposes(X, A) ==
    /\ active' = (active \union A) \ X
    /\ held' = held \ X

(* table.commit(), and the driver following the `link` claim. *)
TableCommit(i) ==
    LET b == bundle[i]
        t == target[i]
    IN
    /\ slots' = (slots \ {t}) \union {i}
    /\ peer' = Claimed(Released(peer, t), b.protocols, i)
    /\ local' = Claimed(Released(local, t), b.services, i)
    /\ occupant' = IF b.links THEN i ELSE IF occupant = t THEN 0 ELSE occupant
    /\ bound' = IF b.links THEN i ELSE IF occupant' = 0 THEN 0 ELSE bound

(* doUninstall() of the slots X: claims dropped, the driver released when  *)
(* nothing holds `link`, the slots disposed.                               *)
Uninstalls(X) ==
    /\ slots' = slots \ X
    /\ peer' = [c \in Claims |-> IF peer[c] \in X THEN 0 ELSE peer[c]]
    /\ local' = [c \in Claims |-> IF local[c] \in X THEN 0 ELSE local[c]]
    /\ occupant' = IF occupant \in X THEN 0 ELSE occupant
    /\ bound' = IF occupant' = 0 THEN 0 ELSE bound
    /\ phase' = [i \in Ids |-> IF i \in X THEN "ended" ELSE phase[i]]
    /\ Disposes(X, {})

-----------------------------------------------------------------------------
(* The freshness store.                                                    *)

(* FreshnessMarks.persist() of marks m and revoked authors r. *)
Persisted(m, r) == [marks |-> m, revoked |-> r]

(* set() whose write fails: the mark is rolled back. *)
SetFails(b) == UNCHANGED store

(* set(): monotonic, and persisted before the install commits. *)
SetMark(b) ==
    IF marks[Key(b)] >= b.version
    THEN UNCHANGED store
    ELSE /\ marks' = [marks EXCEPT ![Key(b)] = b.version]
         /\ disk' = Persisted(marks', revoked)
         /\ UNCHANGED revoked

-----------------------------------------------------------------------------
(* Installs.                                                               *)

(* An install ends with nothing to show for it. *)
Fails(i) ==
    /\ phase' = [phase EXCEPT ![i] = "ended"]
    /\ Disposes({i}, {})
    /\ UNCHANGED <<begun, bundle, target, table, bound>>

(* installBundle() up to its first await.  A bundle that reaches `link` is *)
(* not asked of the admission predicate, and is checked for conflicts now. *)
Begins(b, t, boot) ==
    LET i == begun + 1 IN
    /\ begun < NInstalls
    /\ HostGates(b)
    /\ b.links => Installable(b, t, boot)
    /\ begun' = i
    /\ phase' = [phase EXCEPT ![i] = IF b.links THEN "modules" ELSE "admission"]
    /\ bundle' = [bundle EXCEPT ![i] = b]
    /\ target' = [target EXCEPT ![i] = t]
    /\ UNCHANGED <<table, bound, active, held, store>>

Install(b) ==
    /\ node \in {"up", "closed"}
    /\ Begins(b, 0, FALSE)
    /\ UNCHANGED node

(* ... naming the label it replaces, resolved to the slot that holds it. *)
Replace(b, s) ==
    /\ node \in {"up", "closed"}
    /\ s \in slots
    /\ Begins(b, s, FALSE)
    /\ UNCHANGED node

(* The admission predicate has answered. *)
Admission(i, admits) ==
    /\ phase[i] = "admission"
    /\ IF admits /\ Installable(bundle[i], target[i], FALSE)
       THEN /\ phase' = [phase EXCEPT ![i] = "modules"]
            /\ UNCHANGED <<begun, bundle, target, table, bound, active, held>>
       ELSE Fails(i)
    /\ UNCHANGED <<node, store>>

(* The modules are built, and the realm is being stood up. *)
ModulesBuilt(i) ==
    /\ phase[i] = "modules"
    /\ phase' = [phase EXCEPT ![i] = "realm"]
    /\ held' = held \union {i}
    /\ UNCHANGED <<node, begun, bundle, target, table, bound, active, store>>

(* The boot install is the one under way while the node is booting; its    *)
(* failure closes the shell.                                               *)
Boots(i) == node = "booting" /\ i = begun

BootStands == node' = IF node = "booting" THEN "up" ELSE node

BootEnds == node' = IF node = "booting" THEN "closed" ELSE node

ModulesFail(i) ==
    /\ phase[i] = "modules"
    /\ Fails(i)
    /\ BootEnds
    /\ UNCHANGED store

(* The realm could not be stood up, or the commit window refuses. *)
RealmFails(i) ==
    /\ phase[i] = "realm"
    /\ Fails(i)
    /\ BootEnds
    /\ UNCHANGED store

(* ... or the mark could not be persisted. *)
MarkFails(i) ==
    /\ phase[i] = "realm"
    /\ Commits(bundle[i], target[i], Boots(i))
    /\ marks[Key(bundle[i])] < bundle[i].version
    /\ SetFails(bundle[i])
    /\ Fails(i)
    /\ BootEnds

(* The realm stands: gates and conflicts again, the mark, the handover.    *)
Commit(i) ==
    /\ phase[i] = "realm"
    /\ Commits(bundle[i], target[i], Boots(i))
    /\ SetMark(bundle[i])
    /\ TableCommit(i)
    /\ phase' = [j \in Ids |-> IF j = i THEN "installed" ELSE IF j = target[i] THEN "ended" ELSE phase[j]]
    /\ Disposes({target[i]}, {i})
    /\ BootStands
    /\ UNCHANGED <<begun, bundle, target>>

-----------------------------------------------------------------------------
(* The embedder.                                                           *)

Uninstall(s) ==
    /\ node \in {"up", "closed"}
    /\ s \in slots
    /\ Uninstalls({s})
    /\ UNCHANGED <<node, begun, bundle, target, store>>

SlotsOf(a) == {s \in slots : bundle[s].author = a}

(* revoke(): persisted first, then the author's slots are torn down.  One  *)
(* that cannot be persisted is rolled back and leaves everything as it was.*)
Revoke(a) ==
    /\ node \in {"up", "closed"}
    /\ revoked' = revoked \union {a}
    /\ disk' = IF a \in revoked THEN disk ELSE Persisted(marks, revoked')
    /\ Uninstalls(SlotsOf(a))
    /\ UNCHANGED <<node, begun, bundle, target, marks>>

(* close(), also after a boot whose listeners could not be bound. *)
Close ==
    /\ node = "up"
    /\ node' = "closed"
    /\ Uninstalls(slots)
    /\ UNCHANGED <<begun, bundle, target, store>>

(* The process goes, and with it everything but the persisted store. *)
Crash ==
    /\ node # "down"
    /\ node' = "down"
    /\ phase' = [i \in Ids |-> IF phase[i] = "unused" THEN "unused" ELSE "ended"]
    /\ slots' = {}
    /\ peer' = [c \in Claims |-> 0]
    /\ local' = [c \in Claims |-> 0]
    /\ occupant' = 0
    /\ bound' = 0
    /\ active' = {}
    /\ held' = {}
    /\ UNCHANGED <<begun, bundle, target, store>>

(* bootShell() without a network: the store is read back. *)
Boot ==
    /\ node = "down"
    /\ node' = "up"
    /\ marks' = disk.marks
    /\ revoked' = disk.revoked
    /\ UNCHANGED <<begun, phase, bundle, target, table, bound, active, held, disk>>

(* bootShell() with a network: its transport is installed before all else. *)
BootTransport(b) ==
    /\ node = "down"
    /\ b.links
    /\ begun < NInstalls
    /\ node' = "booting"
    /\ b.author \notin disk.revoked /\ b.version >= disk.marks[Key(b)]
    /\ Fits(b, 0, TRUE)
    /\ marks' = disk.marks
    /\ revoked' = disk.revoked
    /\ begun' = begun + 1
    /\ phase' = [phase EXCEPT ![begun + 1] = "modules"]
    /\ bundle' = [bundle EXCEPT ![begun + 1] = b]
    /\ target' = [target EXCEPT ![begun + 1] = 0]
    /\ UNCHANGED <<table, bound, active, held, disk>>

-----------------------------------------------------------------------------
Next ==
    \/ \E b \in Bundles : Install(b) \/ BootTransport(b)
    \/ \E b \in Bundles, s \in Ids : Replace(b, s)
    \/ \E i \in Ids, admits \in BOOLEAN : Admission(i, admits)
    \/ \E i \in Ids : ModulesBuilt(i) \/ ModulesFail(i) \/ RealmFails(i) \/ MarkFails(i) \/ Commit(i)
    \/ \E s \in Ids : Uninstall(s)
    \/ \E a \in Authors : Revoke(a)
    \/ Close
    \/ Crash
    \/ Boot

Spec == Init /\ [][Next]_vars

-----------------------------------------------------------------------------
(* Properties.                                                             *)

(* The books are exactly the installed manifests: every claim of every     *)
(* installed slot resolves to it, no claim resolves to anything else, a    *)
(* label is one slot's, and the link driver's events go to the realm that  *)
(* holds `link`, whatever installs, replacements and removals overlapped   *)
(* (slot-table.ts; activate and release following the claim).              *)
BooksAgree ==
    /\ bound = occupant
    /\ \A s, t \in slots : bundle[s].app = bundle[t].app => s = t
    /\ \A c \in Claims :
         /\ peer[c] # 0 => peer[c] \in slots /\ c \in bundle[peer[c]].protocols
         /\ local[c] # 0 => local[c] \in slots /\ c \in bundle[local[c]].services
    /\ \A s \in slots :
         /\ \A c \in bundle[s].protocols : peer[c] = s
         /\ \A c \in bundle[s].services : local[c] = s
         /\ bundle[s].links <=> occupant = s

(* An install leaves a running app or nothing: what is not disposed is a   *)
(* running slot or a candidate still loading, and only running slots have  *)
(* an open seam (disposeSlot on every path).                               *)
NothingLeaks ==
    /\ active = slots
    /\ held = {i \in Ids : phase[i] = "realm"} \union slots

(* Downgrade guard and revocation: a running slot is at its author's mark  *)
(* for that label and its author is not revoked, even when its install     *)
(* began first (checkHostGates asked again at commit); and what guards the *)
(* node is on disk, so a crash at any point cannot rewind it               *)
(* (FreshnessMarks.set and revoke rolling back what they cannot persist).  *)
GuardsHold ==
    /\ \A s \in slots : /\ bundle[s].version = marks[Key(bundle[s])]
                        /\ bundle[s].author \notin revoked
    /\ node # "down" => disk = Persisted(marks, revoked)
=============================================================================
