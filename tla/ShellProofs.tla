---------------------------- MODULE ShellProofs -----------------------------
(***************************************************************************)
(* Proofs about Shell: the claim books, the disposals and the guards hold  *)
(* for every set of bundles, every number of overlapping installs and      *)
(* every crash. And about ModuleTable, the modules of one installed        *)
(* bundle: every call is answered by its own result, and no worker stays   *)
(* behind.                                                                 *)
(***************************************************************************)
EXTENDS Shell, ModuleTable, Sequences, SequenceTheorems, FiniteSetTheorems, TLAPS

-----------------------------------------------------------------------------
(* The inductive invariant.                                                *)

(* The types, with the domain of `bundle` and the shape of the store. *)
Typed ==
    /\ TypeOK
    /\ bundle \in [Ids -> Bundles \union {NoBundle}]
    /\ disk \in [marks : [Keys -> Versions], revoked : SUBSET Authors]

(* An install is a slot exactly while its phase says so, ids are used in   *)
(* order, and a node that is down has neither slots nor installs under way.*)
Phased ==
    /\ \A i \in Ids : phase[i] = "installed" <=> i \in slots
    /\ \A i \in Ids : i > begun => phase[i] = "unused"
    /\ node = "down" => /\ slots = {}
                        /\ \A i \in Ids : phase[i] \in {"unused", "ended"}

(* Whoever holds `link` is installed. *)
Occupied == occupant # 0 => occupant \in slots

ShellInv ==
    /\ Typed
    /\ Phased
    /\ Occupied
    /\ BooksAgree
    /\ NothingLeaks
    /\ GuardsHold

-----------------------------------------------------------------------------
(* What the assumption on the bundles gives: a key names one label of one  *)
(* author.                                                                 *)
LEMMA ConstantFacts ==
    /\ 0 \notin Ids
    /\ Ids \subseteq Int
    /\ Versions \subseteq Int
    /\ \A b \in Bundles : /\ b.version \in Versions /\ b.version \in Int
                          /\ b.author \in Authors /\ b.app \in Apps
                          /\ Key(b) \in Keys
                          /\ b.protocols \subseteq Claims /\ b.services \subseteq Claims
                          /\ b.links \in BOOLEAN
    /\ \A b, c \in Bundles : Key(b) = Key(c) => b.app = c.app /\ b.author = c.author
  BY ShellAssumption DEF Ids, Versions, Unset, Key, Keys

(* A node that was never started satisfies the invariant. *)
LEMMA InitHolds == Init => ShellInv
  BY ConstantFacts, ShellAssumption
  DEF Init, ShellInv, Typed, TypeOK, Phased, Phases, Occupied, BooksAgree, NothingLeaks, GuardsHold,
      Persisted, Versions, Keys, Unset

(* doUninstall of any slots keeps it, whether asked for one (uninstall),   *)
(* for an author's (revoke, the store written first) or for all (close).   *)
LEMMA UninstallsKeeps ==
    ASSUME ShellInv, NEW X, X \subseteq slots, Uninstalls(X), node # "down",
           node' \in {"up", "closed", "booting"}, UNCHANGED <<begun, bundle, target, marks>>,
           revoked' \subseteq Authors,
           disk' = Persisted(marks, revoked'),
           \A s \in slots \ X : bundle[s].author \notin revoked'
    PROVE  ShellInv'
  <1>1. X \subseteq Ids
    BY DEF ShellInv, Typed, TypeOK
  <1>2. Typed'
    BY <1>1, ConstantFacts DEF Uninstalls, Disposes, ShellInv, Typed, TypeOK, Phases, Persisted
  <1>3. Phased'
    BY <1>1, ConstantFacts DEF Uninstalls, ShellInv, Typed, TypeOK, Phased, Phases
  <1>4. Occupied'
    BY <1>1, ConstantFacts DEF Uninstalls, ShellInv, Typed, TypeOK, Occupied
  <1>5. BooksAgree'
    BY <1>1, ConstantFacts DEF Uninstalls, ShellInv, Typed, TypeOK, Occupied, BooksAgree
  <1>6. NothingLeaks'
    BY <1>1, ConstantFacts DEF Uninstalls, Disposes, ShellInv, Typed, TypeOK, Phased, NothingLeaks
  <1>7. GuardsHold'
    BY <1>1, ConstantFacts DEF Uninstalls, ShellInv, Typed, TypeOK, GuardsHold, Persisted
  <1> QED
    BY <1>2, <1>3, <1>4, <1>5, <1>6, <1>7 DEF ShellInv

(* An install that fails at any await, of a boot or not, leaves nothing    *)
(* behind.                                                                 *)
LEMMA FailsKeeps ==
    ASSUME ShellInv, NEW i \in Ids, phase[i] \in {"admission", "modules", "realm"}, Fails(i),
           node' \in {node, "closed"}, UNCHANGED store
    PROVE  ShellInv'
  <1>0. i \notin slots /\ node # "down" /\ node' # "down" /\ node' \in {"booting", "up", "closed"}
    BY DEF ShellInv, Phased, Typed, TypeOK
  <1>2. Typed'
    BY <1>0, ConstantFacts DEF Fails, Disposes, ShellInv, Typed, TypeOK, Phases, store, table
  <1>3. Phased'
    BY <1>0, ConstantFacts DEF Fails, ShellInv, Typed, TypeOK, Phased, Phases, table
  <1>4. Occupied'
    BY DEF Fails, ShellInv, Occupied, table
  <1>5. BooksAgree'
    BY DEF Fails, ShellInv, BooksAgree, table
  <1>6. NothingLeaks'
    BY <1>0 DEF Fails, Disposes, ShellInv, Typed, TypeOK, NothingLeaks, table
  <1>7. GuardsHold'
    BY <1>0 DEF Fails, ShellInv, GuardsHold, Persisted, table, store
  <1> QED
    BY <1>2, <1>3, <1>4, <1>5, <1>6, <1>7 DEF ShellInv

(* installBundle up to its first await touches no slot and no book. *)
LEMMA BeginsKeeps ==
    ASSUME ShellInv, NEW b \in Bundles, NEW t \in Ids \union {0}, NEW boot \in BOOLEAN,
           Begins(b, t, boot), node # "down", UNCHANGED node
    PROVE  ShellInv'
  <1>0. begun + 1 \in Ids /\ begun + 1 > begun /\ begun \in Int /\ phase[begun + 1] = "unused" /\ begun + 1 \notin slots
    BY ShellAssumption DEF Begins, ShellInv, Typed, TypeOK, Phased, Ids
  <1>2. Typed'
    <2>1. begun' \in 0..NInstalls
      BY ShellAssumption DEF Begins, ShellInv, Typed, TypeOK
    <2>2. bundle' \in [Ids -> Bundles \union {NoBundle}] /\ target' \in [Ids -> Ids \union {0}]
      BY <1>0 DEF Begins, ShellInv, Typed, TypeOK
    <2>3. phase' \in [Ids -> Phases] /\ \A j \in Ids : phase'[j] # "unused" => bundle'[j] \in Bundles
      BY <1>0 DEF Begins, ShellInv, Typed, TypeOK, Phases
    <2>4. slots' \subseteq {j \in Ids : phase'[j] = "installed"}
      BY <1>0 DEF Begins, ShellInv, Typed, TypeOK, Phases, table
    <2> QED
      BY <2>1, <2>2, <2>3, <2>4, ConstantFacts DEF Begins, ShellInv, Typed, TypeOK, store, table
  <1>3. Phased'
    BY <1>0, ConstantFacts DEF Begins, ShellInv, Typed, TypeOK, Phased, Phases, table
  <1>4. Occupied'
    BY DEF Begins, ShellInv, Occupied, table
  <1>8. \A s \in slots : bundle'[s] = bundle[s]
    BY <1>0 DEF Begins, ShellInv, Typed, TypeOK
  <1>5. BooksAgree'
    BY <1>8 DEF Begins, ShellInv, BooksAgree, table
  <1>6. NothingLeaks'
    BY <1>0 DEF Begins, ShellInv, Typed, TypeOK, NothingLeaks, table
  <1>7. GuardsHold'
    BY <1>8 DEF Begins, ShellInv, GuardsHold, Persisted, table, store
  <1> QED
    BY <1>2, <1>3, <1>4, <1>5, <1>6, <1>7 DEF ShellInv

(* An install passing from one await to the next: admitted, or its modules *)
(* built.                                                                  *)
LEMMA ProceedsKeeps ==
    ASSUME ShellInv, NEW i \in Ids, NEW p \in {"modules", "realm"}, phase[i] \in {"admission", "modules"},
           phase' = [phase EXCEPT ![i] = p], held' = IF p = "realm" THEN held \union {i} ELSE held,
           UNCHANGED <<node, begun, bundle, target, table, bound, active, store>>
    PROVE  ShellInv'
  <1>0. i \notin slots /\ ~(i > begun) /\ node # "down"
    BY DEF ShellInv, Phased
  <1>2. Typed'
    BY <1>0, ConstantFacts DEF ShellInv, Typed, TypeOK, Phases, table, store
  <1>3. Phased'
    BY <1>0, ConstantFacts DEF ShellInv, Typed, TypeOK, Phased, Phases, table
  <1>4. Occupied'
    BY DEF ShellInv, Occupied, table
  <1>5. BooksAgree'
    BY DEF ShellInv, BooksAgree, table
  <1>6. NothingLeaks'
    BY <1>0 DEF ShellInv, Typed, TypeOK, NothingLeaks, table
  <1>7. GuardsHold'
    BY DEF ShellInv, GuardsHold, Persisted, table, store
  <1> QED
    BY <1>2, <1>3, <1>4, <1>5, <1>6, <1>7 DEF ShellInv

(* FreshnessMarks.set leaves the bundle's key at its version, every other  *)
(* key as it was, and the store on disk what it is in memory.              *)
LEMMA SetMarkFacts ==
    ASSUME ShellInv, NEW b \in Bundles, HostGates(b), SetMark(b)
    PROVE  /\ marks' \in [Keys -> Versions]
           /\ revoked' = revoked
           /\ marks'[Key(b)] = b.version
           /\ \A k \in Keys : k # Key(b) => marks'[k] = marks[k]
           /\ disk \in [marks : [Keys -> Versions], revoked : SUBSET Authors]
                => disk' \in [marks : [Keys -> Versions], revoked : SUBSET Authors]
           /\ disk = Persisted(marks, revoked) => disk' = Persisted(marks', revoked')
  <1>1. /\ marks \in [Keys -> Versions] /\ Key(b) \in Keys /\ b.version \in Int /\ b.version \in Versions
        /\ marks[Key(b)] \in Int /\ revoked \subseteq Authors /\ b.version >= marks[Key(b)]
    BY ConstantFacts DEF ShellInv, Typed, TypeOK, HostGates
  <1>2. CASE marks[Key(b)] >= b.version
    BY <1>1, <1>2 DEF SetMark, store
  <1>3. CASE ~(marks[Key(b)] >= b.version)
    <2>1. /\ marks' = [marks EXCEPT ![Key(b)] = b.version]
          /\ disk' = Persisted(marks', revoked) /\ revoked' = revoked
      BY <1>3 DEF SetMark
    <2>2. marks' \in [Keys -> Versions] /\ marks'[Key(b)] = b.version
      BY <1>1, <2>1
    <2>3. \A k \in Keys : k # Key(b) => marks'[k] = marks[k]
      BY <1>1, <2>1
    <2>4. Persisted(marks', revoked) \in [marks : [Keys -> Versions], revoked : SUBSET Authors]
      BY <1>1, <2>2 DEF Persisted
    <2> QED
      BY <2>1, <2>2, <2>3, <2>4
  <1> QED
    BY <1>2, <1>3

(* The commit window keeps it: the conflicts and gates asked again there   *)
(* are what makes the books, the label and the marks come out right,       *)
(* whatever other installs did since this one was checked.                 *)
LEMMA CommitKeeps ==
    ASSUME ShellInv, NEW i \in Ids, Commit(i)
    PROVE  ShellInv'
  <1> DEFINE b == bundle[i]
             t == target[i]
  <1>0. /\ i \notin slots /\ phase[i] = "realm" /\ ~(i > begun) /\ node # "down" /\ node # "closed"
        /\ b \in Bundles /\ t \in Ids \union {0} /\ t # i
        /\ node' \in {"up", node} /\ UNCHANGED <<begun, bundle, target>>
        /\ t # 0 => t \in slots
    BY ConstantFacts DEF Commit, Commits, Installable, Fits, BootStands, ShellInv, Phased, Typed, TypeOK
  <1>1. /\ \A s \in slots : bundle[s].app = b.app => s = t
        /\ \A c \in b.protocols : peer[c] \in {0, t}
        /\ \A c \in b.services : local[c] \in {0, t}
        /\ b.links => occupant \in {0, t}
        /\ b.author \notin revoked
    BY DEF Commit, Commits, HostGates, Installable, Fits
  <1>2. /\ slots' = (slots \ {t}) \union {i}
        /\ peer' = [c \in Claims |-> IF c \in b.protocols THEN i ELSE IF peer[c] = t THEN 0 ELSE peer[c]]
        /\ local' = [c \in Claims |-> IF c \in b.services THEN i ELSE IF local[c] = t THEN 0 ELSE local[c]]
        /\ occupant' = IF b.links THEN i ELSE IF occupant = t THEN 0 ELSE occupant
        /\ bound' = IF b.links THEN i ELSE IF occupant' = 0 THEN 0 ELSE bound
    BY DEF Commit, TableCommit, Claimed, Released
  <1>3. /\ phase' = [j \in Ids |-> IF j = i THEN "installed" ELSE IF j = t THEN "ended" ELSE phase[j]]
        /\ active' = (active \union {i}) \ {t}
        /\ held' = held \ {t}
    BY DEF Commit, Disposes
  <1>4. /\ marks' \in [Keys -> Versions]
        /\ revoked' = revoked
        /\ marks'[Key(b)] = b.version
        /\ \A k \in Keys : k # Key(b) => marks'[k] = marks[k]
        /\ disk' \in [marks : [Keys -> Versions], revoked : SUBSET Authors]
        /\ disk' = Persisted(marks', revoked')
    BY <1>0, SetMarkFacts DEF Commit, Commits, ShellInv, Typed, GuardsHold
  <1>5. /\ slots \subseteq Ids
        /\ \A s \in slots : bundle[s] \in Bundles
        /\ peer \in [Claims -> Ids \union {0}] /\ local \in [Claims -> Ids \union {0}]
        /\ occupant \in Ids \union {0} /\ bound \in Ids \union {0}
        /\ phase \in [Ids -> Phases]
    BY DEF ShellInv, Typed, TypeOK
  <1>6. Typed'
    <2>1. phase' \in [Ids -> Phases] /\ \A j \in Ids : phase'[j] # "unused" => bundle[j] \in Bundles
      <3>1. ASSUME NEW j \in Ids, phase'[j] # "unused" PROVE phase[j] # "unused"
        <4>1. t # 0 => phase[t] = "installed"
          BY <1>0 DEF ShellInv, Phased, Typed, TypeOK
        <4> QED
          BY <1>0, <1>3, <3>1, <4>1, ConstantFacts
      <3>2. phase' \in [Ids -> Phases]
        BY <1>3, <1>5 DEF Phases
      <3> QED
        BY <3>1, <3>2 DEF ShellInv, Typed, TypeOK
    <2>2. slots' \subseteq {j \in Ids : phase'[j] = "installed"}
      BY <1>0, <1>2, <1>3 DEF ShellInv, Typed, TypeOK
    <2>3. /\ peer' \in [Claims -> Ids \union {0}] /\ local' \in [Claims -> Ids \union {0}]
          /\ occupant' \in Ids \union {0} /\ bound' \in Ids \union {0}
      BY <1>2, <1>5
    <2> QED
      BY <2>1, <2>2, <2>3, <1>0, <1>3, <1>4 DEF ShellInv, Typed, TypeOK
  <1>7. Phased'
    BY <1>0, <1>2, <1>3, ConstantFacts DEF ShellInv, Typed, TypeOK, Phased, Phases
  <1>8. Occupied'
    BY <1>0, <1>2, ConstantFacts DEF ShellInv, Occupied
  <1>9. BooksAgree'
    <2> USE <1>0, <1>1, <1>2, <1>5, ConstantFacts
    <2>1. bound' = occupant'
      BY DEF ShellInv, BooksAgree
    <2>2. \A s, u \in slots' : bundle[s].app = bundle[u].app => s = u
      BY DEF ShellInv, BooksAgree
    <2>3. \A c \in Claims : peer'[c] # 0 => peer'[c] \in slots' /\ c \in bundle[peer'[c]].protocols
      BY DEF ShellInv, BooksAgree
    <2>4. \A c \in Claims : local'[c] # 0 => local'[c] \in slots' /\ c \in bundle[local'[c]].services
      BY DEF ShellInv, BooksAgree
    <2>5. \A s \in slots' : \A c \in bundle[s].protocols : peer'[c] = s
      BY DEF ShellInv, BooksAgree
    <2>6. \A s \in slots' : \A c \in bundle[s].services : local'[c] = s
      BY DEF ShellInv, BooksAgree
    <2>7. \A s \in slots' : bundle[s].links <=> occupant' = s
      BY DEF ShellInv, BooksAgree, Occupied
    <2> QED
      BY <2>1, <2>2, <2>3, <2>4, <2>5, <2>6, <2>7, SMTT(30) DEF BooksAgree
  <1>10. NothingLeaks'
    BY <1>0, <1>2, <1>3, <1>5, ConstantFacts DEF ShellInv, NothingLeaks, Phased
  <1>11. GuardsHold'
    <2>1. \A s \in slots' : bundle[s].version = marks'[Key(bundle[s])] /\ bundle[s].author \notin revoked'
      <3> SUFFICES ASSUME NEW s \in slots'
                   PROVE  bundle[s].version = marks'[Key(bundle[s])] /\ bundle[s].author \notin revoked'
        OBVIOUS
      <3>1. CASE s = i
        BY <3>1, <1>1, <1>4
      <3>2. CASE s # i
        <4>1. s \in slots /\ bundle[s].app # b.app
          BY <3>2, <1>1, <1>2
        <4>2. Key(bundle[s]) # Key(b) /\ Key(bundle[s]) \in Keys
          BY <4>1, <1>0, <1>5, ConstantFacts
        <4> QED
          BY <4>1, <4>2, <1>4 DEF ShellInv, GuardsHold
      <3> QED
        BY <3>1, <3>2
    <2> QED
      BY <2>1, <1>0, <1>4 DEF GuardsHold
  <1> QED
    BY <1>6, <1>7, <1>8, <1>9, <1>10, <1>11 DEF ShellInv

(* A crash at any point: everything goes but the disk. *)
LEMMA CrashKeeps == ShellInv /\ Crash => ShellInv'
  <1> SUFFICES ASSUME ShellInv, Crash PROVE ShellInv'
    OBVIOUS
  <1>2. Typed'
    BY ConstantFacts DEF Crash, ShellInv, Typed, TypeOK, Phases, store
  <1>3. Phased'
    BY ConstantFacts DEF Crash, ShellInv, Typed, TypeOK, Phased, Phases
  <1> QED
    BY <1>2, <1>3, ConstantFacts DEF Crash, ShellInv, Occupied, BooksAgree, NothingLeaks, GuardsHold

(* A boot without a network reads the store back. *)
LEMMA BootKeeps == ShellInv /\ Boot => ShellInv'
  <1> SUFFICES ASSUME ShellInv, Boot PROVE ShellInv'
    OBVIOUS
  <1>1. slots = {} /\ disk = Persisted(disk.marks, disk.revoked)
    BY DEF Boot, ShellInv, Typed, Phased, Persisted
  <1>2. Typed'
    BY ConstantFacts DEF Boot, ShellInv, Typed, TypeOK, table
  <1>3. Phased'
    BY <1>1 DEF Boot, ShellInv, Phased, table
  <1> QED
    BY <1>1, <1>2, <1>3 DEF Boot, ShellInv, Occupied, BooksAgree, NothingLeaks, GuardsHold, table

(* A boot with a network also begins its transport's install. *)
LEMMA BootTransportKeeps ==
    ASSUME ShellInv, NEW b \in Bundles, BootTransport(b)
    PROVE  ShellInv'
  <1>0. /\ begun + 1 \in Ids /\ begun \in Int /\ phase[begun + 1] = "unused" /\ slots = {}
        /\ disk = Persisted(disk.marks, disk.revoked)
    BY ShellAssumption DEF BootTransport, ShellInv, Typed, TypeOK, Phased, Ids, Persisted
  <1>2. Typed'
    <2>1. begun' \in 0..NInstalls
      BY ShellAssumption DEF BootTransport, ShellInv, Typed, TypeOK
    <2>2. bundle' \in [Ids -> Bundles \union {NoBundle}] /\ target' \in [Ids -> Ids \union {0}]
      BY <1>0 DEF BootTransport, ShellInv, Typed, TypeOK
    <2>3. phase' \in [Ids -> Phases] /\ \A j \in Ids : phase'[j] # "unused" => bundle'[j] \in Bundles
      BY <1>0 DEF BootTransport, ShellInv, Typed, TypeOK, Phases
    <2> QED
      BY <2>1, <2>2, <2>3, <1>0, ConstantFacts DEF BootTransport, ShellInv, Typed, TypeOK, table
  <1>3. Phased'
    BY <1>0, ConstantFacts DEF BootTransport, ShellInv, Typed, TypeOK, Phased, Phases, table
  <1>6. NothingLeaks'
    BY <1>0 DEF BootTransport, ShellInv, Typed, TypeOK, NothingLeaks, table
  <1> QED
    BY <1>0, <1>2, <1>3, <1>6 DEF BootTransport, ShellInv, Occupied, BooksAgree, GuardsHold, table

(* Every step keeps the invariant. *)
LEMMA StepHolds == ShellInv /\ [Next]_vars => ShellInv'
  <1> SUFFICES ASSUME ShellInv, [Next]_vars PROVE ShellInv'
    OBVIOUS
  <1>0. slots \subseteq Ids /\ (node # "down" => disk = Persisted(marks, revoked)) /\ revoked \subseteq Authors
    BY DEF ShellInv, Typed, TypeOK, GuardsHold
  <1>1. ASSUME NEW b \in Bundles, Install(b) PROVE ShellInv'
    BY <1>1, BeginsKeeps DEF Install
  <1>2. ASSUME NEW b \in Bundles, BootTransport(b) PROVE ShellInv'
    BY <1>2, BootTransportKeeps
  <1>3. ASSUME NEW b \in Bundles, NEW s \in Ids, Replace(b, s) PROVE ShellInv'
    BY <1>3, BeginsKeeps DEF Replace
  <1>4. ASSUME NEW i \in Ids, NEW admits \in BOOLEAN, Admission(i, admits) PROVE ShellInv'
    <2>1. CASE Fails(i)
      BY <1>4, <2>1, FailsKeeps DEF Admission
    <2>2. CASE ~Fails(i)
      BY <1>4, <2>2, ProceedsKeeps DEF Admission
    <2> QED
      BY <2>1, <2>2
  <1>5. ASSUME NEW i \in Ids, ModulesBuilt(i) PROVE ShellInv'
    BY <1>5, ProceedsKeeps DEF ModulesBuilt
  <1>6. ASSUME NEW i \in Ids, ModulesFail(i) \/ RealmFails(i) \/ MarkFails(i) PROVE ShellInv'
    BY <1>6, FailsKeeps DEF ModulesFail, RealmFails, MarkFails, SetFails, BootEnds
  <1>7. ASSUME NEW i \in Ids, Commit(i) PROVE ShellInv'
    BY <1>7, CommitKeeps
  <1>8. ASSUME NEW s \in Ids, Uninstall(s) PROVE ShellInv'
    <2>1. \A u \in slots : bundle[u].author \notin revoked
      BY DEF ShellInv, GuardsHold
    <2> QED
      BY <1>0, <1>8, <2>1, UninstallsKeeps DEF Uninstall, store
  <1>9. ASSUME NEW a \in Authors, Revoke(a) PROVE ShellInv'
    <2>1. disk' = Persisted(marks, revoked') /\ revoked' \subseteq Authors /\ SlotsOf(a) \subseteq slots
      <3>1. a \in revoked => revoked \union {a} = revoked
        OBVIOUS
      <3> QED
        BY <1>0, <1>9, <3>1 DEF Revoke, SlotsOf
    <2>2. \A s \in slots \ SlotsOf(a) : bundle[s].author \notin revoked'
      BY <1>9 DEF Revoke, SlotsOf, ShellInv, GuardsHold
    <2> QED
      BY <1>9, <2>1, <2>2, UninstallsKeeps DEF Revoke
  <1>10. CASE Close
    <2>1. \A u \in slots : bundle[u].author \notin revoked
      BY DEF ShellInv, GuardsHold
    <2> QED
      BY <1>0, <1>10, <2>1, UninstallsKeeps DEF Close, store
  <1>11. CASE UNCHANGED vars
    BY <1>11 DEF vars, ShellInv, Typed, TypeOK, Phased, Occupied, BooksAgree, NothingLeaks, GuardsHold
  <1> QED
    BY <1>1, <1>2, <1>3, <1>4, <1>5, <1>6, <1>7, <1>8, <1>9, <1>10, <1>11, CrashKeeps, BootKeeps DEF Next

-----------------------------------------------------------------------------
(* The invariant, and with it the types, hold in every behaviour of the    *)
(* shell.                                                                  *)
THEOREM ShellHolds == Spec => []ShellInv
  BY InitHolds, StepHolds, PTL DEF Spec

(* For every set of bundles and every interleaving of installs,            *)
(* replacements, removals, revocations and crashes the claim books are     *)
(* exactly the installed manifests, labels are unique, and the link driver *)
(* is bound to the holder of `link` (slot-table.ts commit and release,     *)
(* shell-core.ts doUninstall).                                             *)
THEOREM BooksHold == Spec => []BooksAgree
  <1>1. ShellInv => BooksAgree
    BY DEF ShellInv
  <1> QED
    BY <1>1, ShellHolds, PTL

(* Whatever fails, is refused or is torn down, what has not been disposed  *)
(* is a running slot or a candidate still loading (shell-core.ts           *)
(* disposeSlot).                                                           *)
THEOREM NothingLeaksHolds == Spec => []NothingLeaks
  <1>1. ShellInv => NothingLeaks
    BY DEF ShellInv
  <1> QED
    BY <1>1, ShellHolds, PTL

(* No interleaving or crash leaves a revoked author's or a downgraded slot *)
(* running, or lets the node run on guards that are not on disk (policy.ts *)
(* checkHostGates, bundle.ts FreshnessMarks).                              *)
THEOREM GuardsAlwaysHold == Spec => []GuardsHold
  <1>1. ShellInv => GuardsHold
    BY DEF ShellInv
  <1> QED
    BY <1>1, ShellHolds, PTL

-----------------------------------------------------------------------------
(* What is on disk only ever gets stricter. *)
Stricter ==
    /\ \A k \in Keys : disk'.marks[k] >= disk.marks[k]
    /\ disk.revoked \subseteq disk'.revoked

(* Only a commit and a revocation write the store, and neither takes       *)
(* anything back.                                                          *)
LEMMA StepStricter == ShellInv /\ [Next]_vars => Stricter
  <1> SUFFICES ASSUME ShellInv, [Next]_vars PROVE Stricter
    OBVIOUS
  <1>0. /\ disk \in [marks : [Keys -> Versions], revoked : SUBSET Authors]
        /\ node # "down" => disk.marks = marks /\ disk.revoked = revoked
        /\ \A k \in Keys : disk.marks[k] \in Int
    <2>1. disk \in [marks : [Keys -> Versions], revoked : SUBSET Authors]
      BY DEF ShellInv, Typed
    <2>2. node # "down" => disk.marks = marks /\ disk.revoked = revoked
      BY DEF ShellInv, GuardsHold, Persisted
    <2>3. disk.marks \in [Keys -> Versions]
      BY <2>1
    <2>4. \A k \in Keys : disk.marks[k] \in Int
      BY <2>3, ConstantFacts
    <2> QED
      BY <2>1, <2>2, <2>4
  <1>1. CASE UNCHANGED disk
    BY <1>0, <1>1 DEF Stricter
  <1>2. ASSUME NEW i \in Ids, Commit(i) PROVE Stricter
    <2>1. phase[i] = "realm" /\ SetMark(bundle[i]) /\ HostGates(bundle[i])
      BY <1>2 DEF Commit, Commits
    <2>2. bundle[i] \in Bundles /\ node # "down"
      BY <2>1 DEF ShellInv, Typed, TypeOK, Phased
    <2>3. marks[Key(bundle[i])] =< bundle[i].version
      BY <2>1, <2>2, ConstantFacts DEF HostGates, ShellInv, Typed, TypeOK
    <2>4. /\ marks'[Key(bundle[i])] = bundle[i].version
          /\ \A k \in Keys : k # Key(bundle[i]) => marks'[k] = marks[k]
          /\ revoked' = revoked
          /\ disk' = Persisted(marks', revoked')
      BY <2>1, <2>2, SetMarkFacts DEF ShellInv, GuardsHold
    <2> QED
      BY <1>0, <2>2, <2>3, <2>4, ConstantFacts DEF Stricter, Persisted
  <1>3. ASSUME NEW a \in Authors, Revoke(a) PROVE Stricter
    BY <1>0, <1>3 DEF Revoke, Stricter, Persisted
  <1>4. \/ UNCHANGED disk
        \/ \E i \in Ids : Commit(i)
        \/ \E a \in Authors : Revoke(a)
    <2>1. ASSUME NEW b \in Bundles, Install(b) \/ BootTransport(b) \/ \E s \in Ids : Replace(b, s)
          PROVE  UNCHANGED disk
      BY <2>1 DEF Install, BootTransport, Replace, Begins, store
    <2>2. ASSUME NEW i \in Ids, \E admits \in BOOLEAN : Admission(i, admits) PROVE UNCHANGED disk
      BY <2>2 DEF Admission, store
    <2>3. ASSUME NEW i \in Ids, ModulesBuilt(i) \/ ModulesFail(i) \/ RealmFails(i) \/ MarkFails(i)
          PROVE  UNCHANGED disk
      BY <2>3 DEF ModulesBuilt, ModulesFail, RealmFails, MarkFails, SetFails, store
    <2>4. ASSUME (\E s \in Ids : Uninstall(s)) \/ Close \/ Crash \/ Boot \/ UNCHANGED vars
          PROVE  UNCHANGED disk
      BY <2>4 DEF Uninstall, Close, Crash, Boot, store, vars
    <2> QED
      BY <2>1, <2>2, <2>3, <2>4 DEF Next
  <1> QED
    BY <1>1, <1>2, <1>3, <1>4

(* Across installs, revocations, failed writes, crashes and restarts no    *)
(* persisted mark is ever lowered and no persisted revocation undone       *)
(* (bundle.ts FreshnessMarks set and revoke).                              *)
THEOREM StoreNeverRewound == Spec => [][Stricter]_vars
  <1>1. ShellInv /\ [Next]_vars => [Stricter]_vars
    BY StepStricter
  <1> QED
    BY <1>1, ShellHolds, PTL DEF Spec

-----------------------------------------------------------------------------
(***************************************************************************)
(* The module table, whatever modules a bundle has, however many calls     *)
(* there are and however many workers are spawned.                         *)
(***************************************************************************)

RefT == [made : {"loading", "failed", "loaded"}, worker : Nat, dead : BOOLEAN, pending : Nat]
MsgT == [type : {"ready", "loadError", "error", "result"}, of : Nat]
WorkerT == [mod : Modules, load : {"spawning", "loading", "loaded", "failed"}, alive : BOOLEAN,
            posted : SUBSET MsgT]
CallT == [mod : Modules, stage : {"queued", "loading", "running", "done"}, worker : Nat, answer : Int]
TableT == [ref : [Modules -> RefT], worker : Seq(WorkerT), call : Seq(CallT)]

(* Table u, part by part. *)
Has(u, rf, wk, cl) == u \in TableT /\ u.ref = rf /\ u.worker = wk /\ u.call = cl

(* A table with one of its parts replaced. *)
LEMMA TableRef ==
  ASSUME NEW t \in TableT, NEW rf \in [Modules -> RefT]
  PROVE  Has([t EXCEPT !.ref = rf], rf, t.worker, t.call)
BY DEF TableT, Has
LEMMA TableWorker ==
  ASSUME NEW t \in TableT, NEW wk \in Seq(WorkerT)
  PROVE  Has([t EXCEPT !.worker = wk], t.ref, wk, t.call)
BY DEF TableT, Has
LEMMA TableCall ==
  ASSUME NEW t \in TableT, NEW cl \in Seq(CallT)
  PROVE  Has([t EXCEPT !.call = cl], t.ref, t.worker, cl)
BY DEF TableT, Has

-----------------------------------------------------------------------------
(* The inductive invariant, of a set st and the parts of its table. *)
Shape(st, rf, wk, cl) ==
    /\ st \in {"building", "failed", "built", "disposed"}
    /\ rf \in [Modules -> RefT] /\ wk \in Seq(WorkerT) /\ cl \in Seq(CallT)

(* Calls are made of a built set only, whose first loads have all ended    *)
(* well; a module is released with its set, and then has neither a worker  *)
(* nor a call.                                                             *)
SetOK(st, rf, cl) ==
    /\ Len(cl) > 0 => st \in {"built", "disposed"}
    /\ st \in {"built", "disposed"} => \A m \in Modules : rf[m].made = "loaded"
    /\ st = "failed" => \A m \in Modules : rf[m].made # "loading"
    /\ \A m \in Modules : rf[m].dead => st \in {"failed", "disposed"} /\ rf[m].worker = 0 /\ rf[m].pending = 0
    /\ st \in {"failed", "disposed"} => \A m \in Modules : rf[m].made = "loaded" => rf[m].dead

(* A module's worker is one of its own, and its call one that runs. *)
RefOK(rf, wk, cl) == \A m \in Modules :
    /\ rf[m].worker # 0 => rf[m].worker \in 1..Len(wk) /\ wk[rf[m].worker].mod = m
    /\ rf[m].pending # 0 => /\ rf[m].pending \in 1..Len(cl)
                            /\ cl[rf[m].pending].mod = m /\ cl[rf[m].pending].stage = "running"

(* A call that runs is its module's, on its module's worker; one that      *)
(* loads waits for a load under way; and those before it are answered.     *)
Runs(rf, c, x) == x.stage = "running" => /\ rf[x.mod].pending = c /\ x.worker # 0
                                         /\ rf[x.mod].worker = x.worker
Awaits(wk, x) == x.stage = "loading" => /\ x.worker \in 1..Len(wk) /\ wk[x.worker].mod = x.mod
                                        /\ wk[x.worker].load \in {"spawning", "loading"}
InTurn(cl, c) == cl[c].stage \in {"loading", "running"} =>
                   \A d \in 1..(c - 1) : cl[d].mod = cl[c].mod => cl[d].stage = "done"
CallOK(rf, wk, cl) == \A c \in 1..Len(cl) :
    /\ cl[c].answer \in {0, -1, c}
    /\ Runs(rf, c, cl[c]) /\ Awaits(wk, cl[c]) /\ InTurn(cl, c)

(* A worker that runs is its module's; a load under way is the first one,  *)
(* or some call's; and until the first load has ended well there is only   *)
(* the one worker, which does not run if it has failed.                    *)
Held(rf, w, v) == v.alive => rf[v.mod].worker = w
Wanted(rf, cl, w, v) == v.load \in {"spawning", "loading"} =>
    rf[v.mod].made = "loading" \/ \E c \in 1..Len(cl) : cl[c].stage = "loading" /\ cl[c].worker = w
Alone(rf, wk, w) == LET v == wk[w] IN
    /\ rf[v.mod].made # "loaded" => \A u \in 1..Len(wk) : wk[u].mod = v.mod => u = w
    /\ rf[v.mod].made = "failed" => ~v.alive
Loads(rf, w, v) ==
    /\ v.load = "spawning" => rf[v.mod].worker = 0 /\ v.posted = {}
    /\ v.load = "loading" => rf[v.mod].worker = w \/ (rf[v.mod].dead /\ rf[v.mod].worker = 0)

(* What it has posted and nobody has read: it is dead if it crashed, and   *)
(* while it is its module's worker, a result is of the call that runs.     *)
Says(rf, cl, w, v) == \A msg \in v.posted :
    /\ msg.type = "error" => ~v.alive
    /\ msg.type = "result" /\ rf[v.mod].worker = w =>
         /\ msg.of \in 1..Len(cl) /\ cl[msg.of].stage = "running"
         /\ cl[msg.of].worker = w /\ cl[msg.of].mod = v.mod
WorkerOK(rf, wk, cl) == \A w \in 1..Len(wk) :
    Held(rf, w, wk[w]) /\ Wanted(rf, cl, w, wk[w]) /\ Alone(rf, wk, w) /\ Loads(rf, w, wk[w]) /\ Says(rf, cl, w, wk[w])

ModOK(st, rf, wk, cl) ==
    Shape(st, rf, wk, cl) /\ SetOK(st, rf, cl) /\ RefOK(rf, wk, cl) /\ CallOK(rf, wk, cl) /\ WorkerOK(rf, wk, cl)

ModInv == ModOK(set, ref, worker, call)

(* Two sequences alike but at one place. *)
But(s, s1, i) == Len(s1) = Len(s) /\ \A k \in 1..Len(s) : k # i => s1[k] = s[k]

(* A module's ref, a worker or a call is changed, and nothing else. *)
RefIs(rf, rf1, m, made, wkr, pending) ==
    /\ rf1 \in [Modules -> RefT] /\ \A k \in Modules : k # m => rf1[k] = rf[k]
    /\ rf1[m].dead = rf[m].dead
    /\ rf1[m].made = made /\ rf1[m].worker = wkr /\ rf1[m].pending = pending
WorkerIs(wk, wk1, w, load, alive, posted) ==
    /\ wk1 \in Seq(WorkerT) /\ But(wk, wk1, w) /\ wk1[w].mod = wk[w].mod
    /\ wk1[w].load = load /\ wk1[w].alive = alive /\ wk1[w].posted = posted
CallIs(cl, cl1, c, stage, wkr, ans) ==
    /\ cl1 \in Seq(CallT) /\ But(cl, cl1, c) /\ cl1[c].mod = cl[c].mod
    /\ cl1[c].stage = stage /\ cl1[c].worker = wkr /\ cl1[c].answer = ans

NoLoader(cl, w) == \A c \in 1..Len(cl) : ~(cl[c].stage = "loading" /\ cl[c].worker = w)

Spawns(wk, wk1, w, m) ==
    /\ wk1 \in Seq(WorkerT) /\ w = Len(wk) + 1 /\ Len(wk1) = w /\ \A k \in 1..Len(wk) : wk1[k] = wk[k]
    /\ wk1[w].mod = m /\ wk1[w].load = "spawning" /\ ~wk1[w].alive /\ wk1[w].posted = {}

(* A call is answered; and what its module's worker is then: it is one the *)
(* module no longer has, or it has posted no result that is not read.      *)
Ended(cl, cl1, c) ==
    /\ cl1 \in Seq(CallT) /\ But(cl, cl1, c)
    /\ c # 0 => cl1[c].mod = cl[c].mod /\ cl1[c].stage = "done" /\ cl1[c].answer \in {0, -1, c}
Leaves(rf, wk, m, x) ==
    \/ x = 0 /\ (rf[m].worker # 0 => wk[rf[m].worker].load # "loading" /\ ~wk[rf[m].worker].alive)
    \/ x = rf[m].worker /\ \A msg \in wk[rf[m].worker].posted : msg.type # "result"

(* Some modules are torn down. *)
TornDown(rf, wk, cl, rf1, wk1, cl1, R) ==
    /\ rf1 \in [Modules -> RefT] /\ \A m \in Modules \ R : rf1[m] = rf[m]
    /\ \A m \in R : rf1[m].made = rf[m].made /\ rf1[m].dead /\ rf1[m].pending = 0 /\ rf1[m].worker = 0
    /\ wk1 \in Seq(WorkerT) /\ Len(wk1) = Len(wk)
    /\ \A k \in 1..Len(wk) : /\ wk1[k].mod = wk[k].mod /\ wk1[k].load = wk[k].load /\ wk1[k].posted = wk[k].posted
                             /\ wk1[k].alive => wk[k].alive /\ \A m \in R : rf[m].worker # k
    /\ cl1 \in Seq(CallT) /\ Len(cl1) = Len(cl)
    /\ \A c \in 1..Len(cl) :
         /\ cl1[c].mod = cl[c].mod /\ cl1[c].worker = cl[c].worker
         /\ \/ (\E m \in R : rf[m].pending = c) /\ cl1[c].stage = "done" /\ cl1[c].answer = -1
            \/ (\A m \in R : rf[m].pending # c) /\ cl1[c] = cl[c]

(* A worker posts, is read, or stops. *)
LEMMA WorkerSays ==
  ASSUME NEW st, NEW rf, NEW wk, NEW cl, ModOK(st, rf, wk, cl),
         NEW wk1 \in Seq(WorkerT), NEW w \in 1..Len(wk), But(wk, wk1, w),
         wk1[w].mod = wk[w].mod, wk1[w].load = wk[w].load, wk1[w].alive => wk[w].alive,
         wk[w].load = "spawning" => wk1[w].posted = {}, Says(rf, cl, w, wk1[w])
  PROVE  ModOK(st, rf, wk1, cl)
<1> USE DEF But
<1>0. Shape(st, rf, wk, cl) /\ SetOK(st, rf, cl) /\ RefOK(rf, wk, cl) /\ CallOK(rf, wk, cl) /\ WorkerOK(rf, wk, cl)
  BY DEF ModOK
<1>1. Shape(st, rf, wk1, cl)
  BY <1>0 DEF Shape
<1>2. RefOK(rf, wk1, cl)
  BY <1>0 DEF RefOK
<1>3. CallOK(rf, wk1, cl)
  BY <1>0 DEF CallOK, Awaits
<1>4. ASSUME NEW k \in 1..Len(wk1)
      PROVE  Held(rf, k, wk1[k]) /\ Wanted(rf, cl, k, wk1[k]) /\ Alone(rf, wk1, k) /\ Loads(rf, k, wk1[k]) /\ Says(rf, cl, k, wk1[k])
  <2>0. Held(rf, k, wk[k]) /\ Wanted(rf, cl, k, wk[k]) /\ Alone(rf, wk, k) /\ Loads(rf, k, wk[k]) /\ Says(rf, cl, k, wk[k])
    BY <1>0 DEF WorkerOK
  <2>1. Held(rf, k, wk1[k])
    BY <2>0 DEF Held
  <2>2. Wanted(rf, cl, k, wk1[k])
    BY <2>0 DEF Wanted
  <2>3. Alone(rf, wk1, k)
    BY <2>0 DEF Alone
  <2>4. Loads(rf, k, wk1[k])
    BY <2>0 DEF Loads
  <2>5. Says(rf, cl, k, wk1[k])
    BY <2>0 DEF Says
  <2> QED BY <2>1, <2>2, <2>3, <2>4, <2>5
<1>5. WorkerOK(rf, wk1, cl)
  BY <1>4 DEF WorkerOK
<1> QED BY <1>0, <1>1, <1>2, <1>3, <1>5 DEF ModOK

(* What the types say of workers, calls and refs. *)
LEMMA WorkerMods == ASSUME NEW wk \in Seq(WorkerT)
                    PROVE  Len(wk) \in Nat /\ \A k \in 1..Len(wk) : wk[k].mod \in Modules
<1>1. Len(wk) \in Nat /\ \A k \in 1..Len(wk) : wk[k] \in WorkerT
  OBVIOUS
<1> QED BY <1>1 DEF WorkerT
LEMMA CallMods == ASSUME NEW cl \in Seq(CallT)
                  PROVE  Len(cl) \in Nat /\ \A k \in 1..Len(cl) : cl[k].mod \in Modules
<1>1. Len(cl) \in Nat /\ \A k \in 1..Len(cl) : cl[k] \in CallT
  OBVIOUS
<1> QED BY <1>1 DEF CallT

(* Of a module's calls at most one has had its turn and is not answered. *)
LEMMA OneCall ==
  ASSUME NEW st, NEW rf, NEW wk, NEW cl, ModOK(st, rf, wk, cl), NEW c \in 1..Len(cl), NEW d \in 1..Len(cl),
         cl[c].mod = cl[d].mod, cl[c].stage \in {"loading", "running"}, cl[d].stage \in {"loading", "running"}
  PROVE  c = d
<1>1. InTurn(cl, c) /\ InTurn(cl, d) /\ Len(cl) \in Nat
  BY DEF ModOK, CallOK, Shape
<1>2. ~(c < d) /\ ~(d < c)
  BY <1>1 DEF InTurn
<1> QED BY <1>2

(* A call to be made finds none before it unanswered, so none under way. *)
LEMMA FirstAlone ==
  ASSUME NEW st, NEW rf, NEW wk, NEW cl, ModOK(st, rf, wk, cl), NEW c \in 1..Len(cl), NEW d \in 1..Len(cl),
         cl[c].stage = "queued", \A k \in 1..(c - 1) : cl[k].mod = cl[c].mod => cl[k].stage = "done",
         cl[c].mod = cl[d].mod
  PROVE  cl[d].stage \notin {"loading", "running"}
<1>1. InTurn(cl, d) /\ Len(cl) \in Nat
  BY DEF ModOK, CallOK, Shape
<1>2. d < c => d \in 1..(c - 1)
  OBVIOUS
<1>3. c < d => c \in 1..(d - 1)
  OBVIOUS
<1>4. d = c \/ d < c \/ c < d
  OBVIOUS
<1> QED BY <1>1, <1>2, <1>3, <1>4 DEF InTurn

(* Nor has a module two loads under way. *)
LEMMA OneLoad ==
  ASSUME NEW st, NEW rf, NEW wk, NEW cl, ModOK(st, rf, wk, cl), NEW w \in 1..Len(wk), NEW v \in 1..Len(wk),
         wk[w].mod = wk[v].mod, wk[w].load \in {"spawning", "loading"}, wk[v].load \in {"spawning", "loading"}
  PROVE  w = v
<1>0. Shape(st, rf, wk, cl) /\ SetOK(st, rf, cl) /\ RefOK(rf, wk, cl) /\ CallOK(rf, wk, cl) /\ WorkerOK(rf, wk, cl)
  BY DEF ModOK
<1>1. wk[w] \in WorkerT /\ wk[v] \in WorkerT
  BY <1>0 DEF Shape
<1>2. wk[w].mod \in Modules
  BY <1>1 DEF WorkerT
<1>3. CASE rf[wk[w].mod].made = "loading"
  BY <1>0, <1>3 DEF WorkerOK, Alone
<1>4. CASE rf[wk[w].mod].made # "loading"
  <2>1. PICK c \in 1..Len(cl) : cl[c].stage = "loading" /\ cl[c].worker = w
    BY <1>0, <1>4 DEF WorkerOK, Wanted
  <2>2. PICK d \in 1..Len(cl) : cl[d].stage = "loading" /\ cl[d].worker = v
    BY <1>0, <1>4 DEF WorkerOK, Wanted
  <2>3. cl[c].mod = cl[d].mod
    BY <1>0, <2>1, <2>2 DEF CallOK, Awaits
  <2>4. c = d
    BY <2>1, <2>2, <2>3, OneCall
  <2> QED BY <2>1, <2>2, <2>4
<1> QED BY <1>3, <1>4

(* A call whose module was released while it waited is refused. *)
LEMMA CallRefused ==
  ASSUME NEW st, NEW rf, NEW wk, NEW cl, ModOK(st, rf, wk, cl),
         NEW cl1 \in Seq(CallT), NEW c \in 1..Len(cl), But(cl, cl1, c), cl[c].stage = "queued",
         cl1[c].mod = cl[c].mod, cl1[c].stage = "done", cl1[c].answer \in {0, -1, c}
  PROVE  ModOK(st, rf, wk, cl1)
<1> USE DEF But
<1>0. Shape(st, rf, wk, cl) /\ SetOK(st, rf, cl) /\ RefOK(rf, wk, cl) /\ CallOK(rf, wk, cl) /\ WorkerOK(rf, wk, cl)
  BY DEF ModOK
<1>t. /\ Len(wk) \in Nat /\ (\A k \in 1..Len(wk) : wk[k].mod \in Modules)
      /\ Len(cl) \in Nat /\ (\A k \in 1..Len(cl) : cl[k].mod \in Modules)
      /\ Len(cl1) \in Nat /\ (\A k \in 1..Len(cl1) : cl1[k].mod \in Modules)
  BY <1>0, WorkerMods, CallMods DEF Shape
<1>1. Shape(st, rf, wk, cl1)
  BY <1>0 DEF Shape
<1>2. SetOK(st, rf, cl1)
  BY <1>0, <1>t DEF SetOK
<1>3. RefOK(rf, wk, cl1)
  BY <1>0, <1>t DEF RefOK
<1>4. ASSUME NEW k \in 1..Len(cl1)
      PROVE  cl1[k].answer \in {0, -1, k} /\ Runs(rf, k, cl1[k]) /\ Awaits(wk, cl1[k]) /\ InTurn(cl1, k)
  <2>0. k \in 1..Len(cl) => cl[k].answer \in {0, -1, k} /\ Runs(rf, k, cl[k]) /\ Awaits(wk, cl[k]) /\ InTurn(cl, k)
    BY <1>0 DEF CallOK
  <2>1. cl1[k].answer \in {0, -1, k}
    BY <1>0, <1>t, <2>0
  <2>2. Runs(rf, k, cl1[k])
    BY <1>0, <1>t, <2>0 DEF Runs
  <2>3. Awaits(wk, cl1[k])
    BY <1>0, <1>t, <2>0 DEF Awaits
  <2>4. InTurn(cl1, k)
    BY <1>0, <1>t, <2>0 DEF InTurn, CallOK
  <2> QED BY <2>1, <2>2, <2>3, <2>4
<1>5. ASSUME NEW k \in 1..Len(wk)
      PROVE  /\ Held(rf, k, wk[k]) /\ Wanted(rf, cl1, k, wk[k]) /\ Alone(rf, wk, k)
             /\ Loads(rf, k, wk[k]) /\ Says(rf, cl1, k, wk[k])
  <2>0. k \in 1..Len(wk) => /\ Held(rf, k, wk[k]) /\ Wanted(rf, cl, k, wk[k]) /\ Alone(rf, wk, k)
                            /\ Loads(rf, k, wk[k]) /\ Says(rf, cl, k, wk[k])
    BY <1>0 DEF WorkerOK
  <2>1. Held(rf, k, wk[k])
    BY <1>0, <1>t, <2>0 DEF Held
  <2>2. Wanted(rf, cl1, k, wk[k])
    BY <1>0, <1>t, <2>0 DEF Wanted
  <2>3. Alone(rf, wk, k)
    BY <1>0, <1>t, <2>0 DEF Alone
  <2>4. Loads(rf, k, wk[k])
    BY <1>0, <1>t, <2>0 DEF Loads
  <2>5. Says(rf, cl1, k, wk[k])
    BY <1>0, <1>t, <2>0 DEF Says
  <2> QED BY <2>1, <2>2, <2>3, <2>4, <2>5
<1>6. CallOK(rf, wk, cl1) /\ WorkerOK(rf, wk, cl1)
  BY <1>4, <1>5 DEF CallOK, WorkerOK
<1> QED BY <1>1, <1>2, <1>3, <1>6 DEF ModOK

(* The call in flight, if any, is answered, and its worker may go with it. *)
LEMMA CallEnds ==
  ASSUME NEW st, NEW rf, NEW wk, NEW cl, ModOK(st, rf, wk, cl),
         NEW m \in Modules, NEW x, Leaves(rf, wk, m, x), NEW rf1, RefIs(rf, rf1, m, rf[m].made, x, 0),
         NEW c, c = rf[m].pending, NEW cl1, Ended(cl, cl1, c)
  PROVE  ModOK(st, rf1, wk, cl1)
<1> SUFFICES ASSUME rf1 \in [Modules -> RefT], \A k \in Modules : k # m => rf1[k] = rf[k],
                    rf1[m].made = rf[m].made, rf1[m].dead = rf[m].dead, rf1[m].pending = 0, rf1[m].worker = x,
                    \/ /\ rf1[m].worker = 0
                       /\ rf[m].worker # 0 => wk[rf[m].worker].load # "loading" /\ ~wk[rf[m].worker].alive
                    \/ rf1[m].worker = rf[m].worker /\ \A msg \in wk[rf[m].worker].posted : msg.type # "result",
                    cl1 \in Seq(CallT), But(cl, cl1, c),
                    c # 0 => cl1[c].mod = cl[c].mod /\ cl1[c].stage = "done" /\ cl1[c].answer \in {0, -1, c}
             PROVE  ModOK(st, rf1, wk, cl1)
  BY Zenon DEF RefIs, Ended, Leaves
<1> USE DEF But
<1>0. Shape(st, rf, wk, cl) /\ SetOK(st, rf, cl) /\ RefOK(rf, wk, cl) /\ CallOK(rf, wk, cl) /\ WorkerOK(rf, wk, cl)
  BY DEF ModOK
<1>a. c # 0 => c \in 1..Len(cl) /\ cl[c].mod = m /\ cl[c].stage = "running"
  BY <1>0 DEF RefOK
<1>t. /\ Len(wk) \in Nat /\ (\A k \in 1..Len(wk) : wk[k].mod \in Modules)
      /\ Len(cl) \in Nat /\ (\A k \in 1..Len(cl) : cl[k].mod \in Modules)
      /\ Len(cl1) \in Nat /\ (\A k \in 1..Len(cl1) : cl1[k].mod \in Modules)
  BY <1>0, WorkerMods, CallMods DEF Shape
<1>1. Shape(st, rf1, wk, cl1)
  BY <1>0 DEF Shape
<1>2. SetOK(st, rf1, cl1)
  BY <1>0, <1>a, <1>t, SMTT(30) DEF SetOK
<1>3. RefOK(rf1, wk, cl1)
  BY <1>0, <1>a, <1>t DEF RefOK
<1>4. ASSUME NEW k \in 1..Len(cl1)
      PROVE  cl1[k].answer \in {0, -1, k} /\ Runs(rf1, k, cl1[k]) /\ Awaits(wk, cl1[k]) /\ InTurn(cl1, k)
  <2>0. k \in 1..Len(cl) => cl[k].answer \in {0, -1, k} /\ Runs(rf, k, cl[k]) /\ Awaits(wk, cl[k]) /\ InTurn(cl, k)
    BY <1>0 DEF CallOK
  <2>1. cl1[k].answer \in {0, -1, k}
    BY <1>0, <1>a, <1>t, <2>0
  <2>2. Runs(rf1, k, cl1[k])
    BY <1>0, <1>a, <1>t, <2>0 DEF Runs
  <2>3. Awaits(wk, cl1[k])
    BY <1>0, <1>a, <1>t, <2>0 DEF Awaits
  <2>4. InTurn(cl1, k)
    BY <1>0, <1>a, <1>t, <2>0 DEF InTurn, CallOK
  <2> QED BY <2>1, <2>2, <2>3, <2>4
<1>5. ASSUME NEW k \in 1..Len(wk)
      PROVE  /\ Held(rf1, k, wk[k]) /\ Wanted(rf1, cl1, k, wk[k]) /\ Alone(rf1, wk, k)
             /\ Loads(rf1, k, wk[k]) /\ Says(rf1, cl1, k, wk[k])
  <2>0. k \in 1..Len(wk) => /\ Held(rf, k, wk[k]) /\ Wanted(rf, cl, k, wk[k]) /\ Alone(rf, wk, k)
                            /\ Loads(rf, k, wk[k]) /\ Says(rf, cl, k, wk[k])
    BY <1>0 DEF WorkerOK
  <2>1. Held(rf1, k, wk[k])
    BY <1>0, <1>a, <1>t, <2>0 DEF Held
  <2>2. Wanted(rf1, cl1, k, wk[k])
    BY <1>0, <1>a, <1>t, <2>0 DEF Wanted
  <2>3. Alone(rf1, wk, k)
    BY <1>0, <1>a, <1>t, <2>0 DEF Alone
  <2>4. Loads(rf1, k, wk[k])
    BY <1>0, <1>a, <1>t, <2>0 DEF Loads
  <2>5. Says(rf1, cl1, k, wk[k])
    <3> SUFFICES ASSUME NEW msg \in wk[k].posted
                 PROVE  /\ msg.type = "error" => ~wk[k].alive
                        /\ msg.type = "result" /\ rf1[wk[k].mod].worker = k =>
                             /\ msg.of \in 1..Len(cl1) /\ cl1[msg.of].stage = "running"
                             /\ cl1[msg.of].worker = k /\ cl1[msg.of].mod = wk[k].mod
      BY DEF Says
    <3>1. Says(rf, cl, k, wk[k]) /\ k # 0
      BY <2>0
    <3>2. msg.type = "result" /\ rf1[wk[k].mod].worker = k => wk[k].mod # m /\ rf[wk[k].mod].worker = k
      BY <1>t, <3>1
    <3>3. msg.type = "result" /\ rf1[wk[k].mod].worker = k =>
            msg.of # c /\ msg.of \in 1..Len(cl) /\ cl[msg.of].stage = "running"
            /\ cl[msg.of].worker = k /\ cl[msg.of].mod = wk[k].mod
      BY <1>a, <3>1, <3>2 DEF Says
    <3> QED BY <3>1, <3>3 DEF Says
  <2> QED BY <2>1, <2>2, <2>3, <2>4, <2>5
<1>6. CallOK(rf1, wk, cl1) /\ WorkerOK(rf1, wk, cl1)
  BY <1>4, <1>5 DEF CallOK, WorkerOK
<1> QED BY <1>1, <1>2, <1>3, <1>6 DEF ModOK

(* A call whose turn it is goes to its module's worker. *)
LEMMA CallRuns ==
  ASSUME NEW st, NEW rf, NEW wk, NEW cl, ModOK(st, rf, wk, cl),
         NEW c \in 1..Len(cl), cl[c].stage = "queued", NEW m, m = cl[c].mod, ~rf[m].dead,
         \A k \in 1..(c - 1) : cl[k].mod = cl[c].mod => cl[k].stage = "done",
         rf[m].worker # 0, NEW rf1, RefIs(rf, rf1, m, rf[m].made, rf[m].worker, c),
         NEW cl1, CallIs(cl, cl1, c, "running", rf[m].worker, cl[c].answer)
  PROVE  ModOK(st, rf1, wk, cl1)
<1> SUFFICES ASSUME rf1 \in [Modules -> RefT], \A k \in Modules : k # m => rf1[k] = rf[k],
                    rf1[m].made = rf[m].made, rf1[m].dead = rf[m].dead, rf1[m].worker = rf[m].worker, rf1[m].pending = c,
                    cl1 \in Seq(CallT), But(cl, cl1, c),
                    cl1[c].mod = m, cl1[c].stage = "running", cl1[c].worker = rf[m].worker, cl1[c].answer = cl[c].answer
             PROVE  ModOK(st, rf1, wk, cl1)
  BY Zenon DEF RefIs, CallIs
<1> USE DEF But
<1>0. Shape(st, rf, wk, cl) /\ SetOK(st, rf, cl) /\ RefOK(rf, wk, cl) /\ CallOK(rf, wk, cl) /\ WorkerOK(rf, wk, cl)
  BY DEF ModOK
<1>a. /\ m \in Modules /\ c \in 1..Len(cl) /\ ~rf[m].dead
      /\ \A d \in 1..Len(cl) : cl[d].mod = m => cl[d].stage \notin {"loading", "running"}
      /\ rf[m].made = "loaded" /\ rf[m].pending = 0
  <2>1. \A d \in 1..Len(cl) : cl[d].mod = m => cl[d].stage \notin {"loading", "running"}
    BY FirstAlone
  <2>2. cl[c] \in CallT /\ Len(cl) > 0
    BY <1>0 DEF Shape
  <2>3. m \in Modules
    BY <2>2 DEF CallT
  <2>4. rf[m].pending = 0
    <3>1. rf[m].pending # 0 => /\ rf[m].pending \in 1..Len(cl)
                               /\ cl[rf[m].pending].mod = m /\ cl[rf[m].pending].stage = "running"
      BY <1>0, <2>3, Zenon DEF RefOK
    <3> QED BY <2>1, <3>1
  <2>5. rf[m].made = "loaded"
    BY <1>0, <2>2, <2>3 DEF SetOK
  <2> QED BY <2>1, <2>3, <2>4, <2>5
<1>t. /\ Len(wk) \in Nat /\ (\A k \in 1..Len(wk) : wk[k].mod \in Modules)
      /\ Len(cl) \in Nat /\ (\A k \in 1..Len(cl) : cl[k].mod \in Modules)
      /\ Len(cl1) \in Nat /\ (\A k \in 1..Len(cl1) : cl1[k].mod \in Modules)
  BY <1>0, WorkerMods, CallMods DEF Shape
<1>1. Shape(st, rf1, wk, cl1)
  BY <1>0 DEF Shape
<1>2. SetOK(st, rf1, cl1)
  BY <1>0, <1>a, <1>t DEF SetOK
<1>3. RefOK(rf1, wk, cl1)
  BY <1>0, <1>a, <1>t, SMTT(30) DEF RefOK
<1>4. ASSUME NEW k \in 1..Len(cl1)
      PROVE  cl1[k].answer \in {0, -1, k} /\ Runs(rf1, k, cl1[k]) /\ Awaits(wk, cl1[k]) /\ InTurn(cl1, k)
  <2>0. k \in 1..Len(cl) => cl[k].answer \in {0, -1, k} /\ Runs(rf, k, cl[k]) /\ Awaits(wk, cl[k]) /\ InTurn(cl, k)
    BY <1>0 DEF CallOK
  <2>1. cl1[k].answer \in {0, -1, k}
    BY <1>0, <1>a, <1>t, <2>0
  <2>2. Runs(rf1, k, cl1[k])
    BY <1>0, <1>a, <1>t, <2>0 DEF Runs
  <2>3. Awaits(wk, cl1[k])
    BY <1>0, <1>a, <1>t, <2>0 DEF Awaits
  <2>4. InTurn(cl1, k)
    BY <1>0, <1>a, <1>t, <2>0 DEF InTurn, CallOK
  <2> QED BY <2>1, <2>2, <2>3, <2>4
<1>5. ASSUME NEW k \in 1..Len(wk)
      PROVE  /\ Held(rf1, k, wk[k]) /\ Wanted(rf1, cl1, k, wk[k]) /\ Alone(rf1, wk, k)
             /\ Loads(rf1, k, wk[k]) /\ Says(rf1, cl1, k, wk[k])
  <2>0. k \in 1..Len(wk) => /\ Held(rf, k, wk[k]) /\ Wanted(rf, cl, k, wk[k]) /\ Alone(rf, wk, k)
                            /\ Loads(rf, k, wk[k]) /\ Says(rf, cl, k, wk[k])
    BY <1>0 DEF WorkerOK
  <2>1. Held(rf1, k, wk[k])
    BY <1>0, <1>a, <1>t, <2>0, SMTT(30) DEF Held
  <2>2. Wanted(rf1, cl1, k, wk[k])
    BY <1>0, <1>a, <1>t, <2>0 DEF Wanted
  <2>3. Alone(rf1, wk, k)
    BY <1>0, <1>a, <1>t, <2>0 DEF Alone
  <2>4. Loads(rf1, k, wk[k])
    BY <1>0, <1>a, <1>t, <2>0, SMTT(30) DEF Loads
  <2>5. Says(rf1, cl1, k, wk[k])
    <3> SUFFICES ASSUME NEW msg \in wk[k].posted
                 PROVE  /\ msg.type = "error" => ~wk[k].alive
                        /\ msg.type = "result" /\ rf1[wk[k].mod].worker = k =>
                             /\ msg.of \in 1..Len(cl1) /\ cl1[msg.of].stage = "running"
                             /\ cl1[msg.of].worker = k /\ cl1[msg.of].mod = wk[k].mod
      BY DEF Says
    <3>1. rf1[wk[k].mod].worker = rf[wk[k].mod].worker
      BY <1>a, <1>t
    <3>2. Says(rf, cl, k, wk[k])
      BY <2>0
    <3>3. msg.type = "result" /\ rf1[wk[k].mod].worker = k =>
            msg.of # c /\ msg.of \in 1..Len(cl) /\ cl[msg.of].stage = "running"
            /\ cl[msg.of].worker = k /\ cl[msg.of].mod = wk[k].mod
      BY <3>1, <3>2 DEF Says
    <3> QED BY <3>2, <3>3 DEF Says
  <2> QED BY <2>1, <2>2, <2>3, <2>4, <2>5
<1>6. CallOK(rf1, wk, cl1) /\ WorkerOK(rf1, wk, cl1)
  BY <1>4, <1>5 DEF CallOK, WorkerOK
<1> QED BY <1>1, <1>2, <1>3, <1>6 DEF ModOK

(* One without a worker has one loaded. *)
LEMMA LoadBegins ==
  ASSUME NEW st, NEW rf, NEW wk, NEW cl, ModOK(st, rf, wk, cl),
         NEW c \in 1..Len(cl), cl[c].stage = "queued", NEW m, m = cl[c].mod, ~rf[m].dead,
         \A k \in 1..(c - 1) : cl[k].mod = cl[c].mod => cl[k].stage = "done",
         rf[m].worker = 0, NEW w, NEW wk1, Spawns(wk, wk1, w, m),
         NEW cl1, CallIs(cl, cl1, c, "loading", w, cl[c].answer)
  PROVE  ModOK(st, rf, wk1, cl1)
<1> SUFFICES ASSUME wk1 \in Seq(WorkerT), w = Len(wk) + 1, Len(wk1) = w, \A k \in 1..Len(wk) : wk1[k] = wk[k],
                    wk1[w].mod = m, wk1[w].load = "spawning", ~wk1[w].alive, wk1[w].posted = {},
                    cl1 \in Seq(CallT), But(cl, cl1, c),
                    cl1[c].mod = m, cl1[c].stage = "loading", cl1[c].worker = w, cl1[c].answer = cl[c].answer
             PROVE  ModOK(st, rf, wk1, cl1)
  BY Zenon DEF Spawns, CallIs
<1> USE DEF But
<1>0. Shape(st, rf, wk, cl) /\ SetOK(st, rf, cl) /\ RefOK(rf, wk, cl) /\ CallOK(rf, wk, cl) /\ WorkerOK(rf, wk, cl)
  BY DEF ModOK
<1>a. /\ m \in Modules /\ c \in 1..Len(cl) /\ ~rf[m].dead
      /\ \A d \in 1..Len(cl) : cl[d].mod = m => cl[d].stage \notin {"loading", "running"}
      /\ rf[m].made = "loaded" /\ rf[m].pending = 0 /\ Len(wk) \in Nat
      /\ \A k \in Modules : rf[k].made = "loaded"
  <2>1. \A d \in 1..Len(cl) : cl[d].mod = m => cl[d].stage \notin {"loading", "running"}
    BY FirstAlone
  <2>2. cl[c] \in CallT /\ Len(cl) > 0
    BY <1>0 DEF Shape
  <2>3. m \in Modules
    BY <2>2 DEF CallT
  <2>4. rf[m].pending = 0
    <3>1. rf[m].pending # 0 => /\ rf[m].pending \in 1..Len(cl)
                               /\ cl[rf[m].pending].mod = m /\ cl[rf[m].pending].stage = "running"
      BY <1>0, <2>3, Zenon DEF RefOK
    <3> QED BY <2>1, <3>1
  <2>5. rf[m].made = "loaded"
    BY <1>0, <2>2, <2>3 DEF SetOK
  <2>6. Len(wk) \in Nat /\ \A k \in Modules : rf[k].made = "loaded"
    BY <1>0, <2>2 DEF SetOK, Shape
  <2> QED BY <2>1, <2>3, <2>4, <2>5, <2>6
<1>t. /\ Len(wk) \in Nat /\ (\A k \in 1..Len(wk) : wk[k].mod \in Modules)
      /\ Len(cl) \in Nat /\ (\A k \in 1..Len(cl) : cl[k].mod \in Modules)
      /\ Len(wk1) \in Nat /\ (\A k \in 1..Len(wk1) : wk1[k].mod \in Modules)
      /\ Len(cl1) \in Nat /\ (\A k \in 1..Len(cl1) : cl1[k].mod \in Modules)
  BY <1>0, WorkerMods, CallMods DEF Shape
<1>1. Shape(st, rf, wk1, cl1)
  BY <1>0 DEF Shape
<1>2. SetOK(st, rf, cl1)
  BY <1>0, <1>a, <1>t DEF SetOK
<1>3. RefOK(rf, wk1, cl1)
  BY <1>0, <1>a, <1>t, SMTT(30) DEF RefOK
<1>4. ASSUME NEW k \in 1..Len(cl1)
      PROVE  cl1[k].answer \in {0, -1, k} /\ Runs(rf, k, cl1[k]) /\ Awaits(wk1, cl1[k]) /\ InTurn(cl1, k)
  <2>0. k \in 1..Len(cl) => cl[k].answer \in {0, -1, k} /\ Runs(rf, k, cl[k]) /\ Awaits(wk, cl[k]) /\ InTurn(cl, k)
    BY <1>0 DEF CallOK
  <2>1. cl1[k].answer \in {0, -1, k}
    BY <1>0, <1>a, <1>t, <2>0
  <2>2. Runs(rf, k, cl1[k])
    BY <1>0, <1>a, <1>t, <2>0 DEF Runs
  <2>3. Awaits(wk1, cl1[k])
    BY <1>0, <1>a, <1>t, <2>0, SMTT(30) DEF Awaits
  <2>4. InTurn(cl1, k)
    BY <1>0, <1>a, <1>t, <2>0 DEF InTurn, CallOK
  <2> QED BY <2>1, <2>2, <2>3, <2>4
<1>5. ASSUME NEW k \in 1..Len(wk1)
      PROVE  /\ Held(rf, k, wk1[k]) /\ Wanted(rf, cl1, k, wk1[k]) /\ Alone(rf, wk1, k)
             /\ Loads(rf, k, wk1[k]) /\ Says(rf, cl1, k, wk1[k])
  <2>0. k \in 1..Len(wk) => /\ Held(rf, k, wk[k]) /\ Wanted(rf, cl, k, wk[k]) /\ Alone(rf, wk, k)
                            /\ Loads(rf, k, wk[k]) /\ Says(rf, cl, k, wk[k])
    BY <1>0 DEF WorkerOK
  <2>1. Held(rf, k, wk1[k])
    BY <1>0, <1>a, <1>t, <2>0 DEF Held
  <2>2. Wanted(rf, cl1, k, wk1[k])
    <3>1. CASE k = w
      BY <1>a, <3>1 DEF Wanted
    <3>2. CASE k # w
      <4> SUFFICES ASSUME wk1[k].load \in {"spawning", "loading"}
                   PROVE  \E d \in 1..Len(cl1) : cl1[d].stage = "loading" /\ cl1[d].worker = k
        BY DEF Wanted
      <4>1. k \in 1..Len(wk) /\ wk1[k] = wk[k]
        BY <1>t, <3>2
      <4>2. rf[wk[k].mod].made = "loaded"
        BY <1>a, <1>t, <4>1
      <4>3. PICK d \in 1..Len(cl) : cl[d].stage = "loading" /\ cl[d].worker = k
        BY <2>0, <4>1, <4>2 DEF Wanted
      <4> QED BY <4>3
    <3> QED BY <3>1, <3>2
  <2>3. Alone(rf, wk1, k)
    BY <1>0, <1>a, <1>t, <2>0 DEF Alone
  <2>4. Loads(rf, k, wk1[k])
    BY <1>0, <1>a, <1>t, <2>0 DEF Loads
  <2>5. Says(rf, cl1, k, wk1[k])
    BY <1>0, <1>a, <1>t, <2>0, SMTT(30) DEF Says
  <2> QED BY <2>1, <2>2, <2>3, <2>4, <2>5
<1>6. CallOK(rf, wk1, cl1) /\ WorkerOK(rf, wk1, cl1)
  BY <1>4, <1>5 DEF CallOK, WorkerOK
<1> QED BY <1>1, <1>2, <1>3, <1>6 DEF ModOK

(* A module's first load fails, and with it the worker. *)
LEMMA FirstFails ==
  ASSUME NEW st, NEW rf, NEW wk, NEW cl, ModOK(st, rf, wk, cl),
         NEW m \in Modules, NEW rf1, NEW w \in 1..Len(wk), wk[w].mod = m, wk[w].load \in {"spawning", "loading"}, NEW wk1,
         NoLoader(cl, w),
         RefIs(rf, rf1, m, "failed", rf[m].worker, rf[m].pending), WorkerIs(wk, wk1, w, "failed", FALSE, wk[w].posted)
  PROVE  ModOK(st, rf1, wk1, cl)
<1> SUFFICES ASSUME rf1 \in [Modules -> RefT], \A k \in Modules : k # m => rf1[k] = rf[k],
                    wk1 \in Seq(WorkerT), But(wk, wk1, w), wk1[w].mod = m,
                    wk1[w].load = "failed", ~wk1[w].alive, wk1[w].posted = wk[w].posted,
                    rf1[m].made = "failed", rf1[m].dead = rf[m].dead, rf1[m].worker = rf[m].worker, rf1[m].pending = rf[m].pending
             PROVE  ModOK(st, rf1, wk1, cl)
  BY Zenon DEF RefIs, WorkerIs, CallIs
<1> USE DEF But
<1>0. Shape(st, rf, wk, cl) /\ SetOK(st, rf, cl) /\ RefOK(rf, wk, cl) /\ CallOK(rf, wk, cl) /\ WorkerOK(rf, wk, cl)
  BY DEF ModOK
<1>t. /\ Len(wk) \in Nat /\ (\A k \in 1..Len(wk) : wk[k].mod \in Modules)
      /\ Len(cl) \in Nat /\ (\A k \in 1..Len(cl) : cl[k].mod \in Modules)
      /\ Len(wk1) \in Nat /\ (\A k \in 1..Len(wk1) : wk1[k].mod \in Modules)
  BY <1>0, WorkerMods, CallMods DEF Shape
<1>a. /\ rf[m].made = "loading" /\ Len(cl) = 0 /\ st = "building" /\ ~rf[m].dead
      /\ \A k \in 1..Len(wk) : wk[k].mod = m => k = w
  <2>1. rf[m].made = "loading"
    BY <1>0 DEF WorkerOK, Wanted, NoLoader
  <2>2. st \notin {"built", "disposed", "failed"}
    BY <1>0, <2>1 DEF SetOK
  <2>3. st = "building" /\ Len(cl) = 0
    BY <1>0, <1>t, <2>2 DEF SetOK, Shape
  <2>4. ~rf[m].dead
    BY <1>0, <2>2 DEF SetOK
  <2>5. \A k \in 1..Len(wk) : wk[k].mod = m => k = w
    BY <1>0, <2>1 DEF WorkerOK, Alone
  <2> QED BY <2>1, <2>3, <2>4, <2>5
<1>1. Shape(st, rf1, wk1, cl)
  BY <1>0 DEF Shape
<1>2. SetOK(st, rf1, cl)
  BY <1>0, <1>a, <1>t DEF SetOK
<1>3. RefOK(rf1, wk1, cl)
  BY <1>0, <1>a, <1>t DEF RefOK
<1>4. ASSUME NEW k \in 1..Len(cl)
      PROVE  cl[k].answer \in {0, -1, k} /\ Runs(rf1, k, cl[k]) /\ Awaits(wk1, cl[k]) /\ InTurn(cl, k)
  <2>0. k \in 1..Len(cl) => cl[k].answer \in {0, -1, k} /\ Runs(rf, k, cl[k]) /\ Awaits(wk, cl[k]) /\ InTurn(cl, k)
    BY <1>0 DEF CallOK
  <2>1. cl[k].answer \in {0, -1, k}
    BY <1>0, <1>a, <1>t, <2>0
  <2>2. Runs(rf1, k, cl[k])
    BY <1>0, <1>a, <1>t, <2>0 DEF Runs
  <2>3. Awaits(wk1, cl[k])
    BY <1>0, <1>a, <1>t, <2>0 DEF Awaits
  <2>4. InTurn(cl, k)
    BY <1>0, <1>a, <1>t, <2>0 DEF InTurn, CallOK
  <2> QED BY <2>1, <2>2, <2>3, <2>4
<1>5. ASSUME NEW k \in 1..Len(wk1)
      PROVE  /\ Held(rf1, k, wk1[k]) /\ Wanted(rf1, cl, k, wk1[k]) /\ Alone(rf1, wk1, k)
             /\ Loads(rf1, k, wk1[k]) /\ Says(rf1, cl, k, wk1[k])
  <2>0. k \in 1..Len(wk) => /\ Held(rf, k, wk[k]) /\ Wanted(rf, cl, k, wk[k]) /\ Alone(rf, wk, k)
                            /\ Loads(rf, k, wk[k]) /\ Says(rf, cl, k, wk[k])
    BY <1>0 DEF WorkerOK
  <2>1. Held(rf1, k, wk1[k])
    BY <1>0, <1>a, <1>t, <2>0 DEF Held
  <2>2. Wanted(rf1, cl, k, wk1[k])
    BY <1>0, <1>a, <1>t, <2>0 DEF Wanted
  <2>3. Alone(rf1, wk1, k)
    BY <1>0, <1>a, <1>t, <2>0 DEF Alone
  <2>4. Loads(rf1, k, wk1[k])
    BY <1>0, <1>a, <1>t, <2>0 DEF Loads
  <2>5. Says(rf1, cl, k, wk1[k])
    BY <1>0, <1>a, <1>t, <2>0 DEF Says
  <2> QED BY <2>1, <2>2, <2>3, <2>4, <2>5
<1>6. CallOK(rf1, wk1, cl) /\ WorkerOK(rf1, wk1, cl)
  BY <1>4, <1>5 DEF CallOK, WorkerOK
<1> QED BY <1>1, <1>2, <1>3, <1>6 DEF ModOK

(* ... or ends well. *)
LEMMA FirstLoads ==
  ASSUME NEW st, NEW rf, NEW wk, NEW cl, ModOK(st, rf, wk, cl),
         NEW m \in Modules, NEW rf1, NEW w \in 1..Len(wk), wk[w].mod = m, wk[w].load \in {"spawning", "loading"}, NEW wk1,
         NoLoader(cl, w),
         RefIs(rf, rf1, m, "loaded", rf[m].worker, rf[m].pending), WorkerIs(wk, wk1, w, "loaded", wk[w].alive, wk[w].posted)
  PROVE  ModOK(st, rf1, wk1, cl)
<1> SUFFICES ASSUME rf1 \in [Modules -> RefT], \A k \in Modules : k # m => rf1[k] = rf[k],
                    wk1 \in Seq(WorkerT), But(wk, wk1, w), wk1[w].mod = m,
                    wk1[w].load = "loaded", wk1[w].alive = wk[w].alive, wk1[w].posted = wk[w].posted,
                    rf1[m].made = "loaded", rf1[m].dead = rf[m].dead, rf1[m].worker = rf[m].worker, rf1[m].pending = rf[m].pending
             PROVE  ModOK(st, rf1, wk1, cl)
  BY Zenon DEF RefIs, WorkerIs, CallIs
<1> USE DEF But
<1>0. Shape(st, rf, wk, cl) /\ SetOK(st, rf, cl) /\ RefOK(rf, wk, cl) /\ CallOK(rf, wk, cl) /\ WorkerOK(rf, wk, cl)
  BY DEF ModOK
<1>t. /\ Len(wk) \in Nat /\ (\A k \in 1..Len(wk) : wk[k].mod \in Modules)
      /\ Len(cl) \in Nat /\ (\A k \in 1..Len(cl) : cl[k].mod \in Modules)
      /\ Len(wk1) \in Nat /\ (\A k \in 1..Len(wk1) : wk1[k].mod \in Modules)
  BY <1>0, WorkerMods, CallMods DEF Shape
<1>a. /\ rf[m].made = "loading" /\ Len(cl) = 0 /\ st = "building" /\ ~rf[m].dead
      /\ \A k \in 1..Len(wk) : wk[k].mod = m => k = w
  <2>1. rf[m].made = "loading"
    BY <1>0 DEF WorkerOK, Wanted, NoLoader
  <2>2. st \notin {"built", "disposed", "failed"}
    BY <1>0, <2>1 DEF SetOK
  <2>3. st = "building" /\ Len(cl) = 0
    BY <1>0, <1>t, <2>2 DEF SetOK, Shape
  <2>4. ~rf[m].dead
    BY <1>0, <2>2 DEF SetOK
  <2>5. \A k \in 1..Len(wk) : wk[k].mod = m => k = w
    BY <1>0, <2>1 DEF WorkerOK, Alone
  <2> QED BY <2>1, <2>3, <2>4, <2>5
<1>1. Shape(st, rf1, wk1, cl)
  BY <1>0 DEF Shape
<1>2. SetOK(st, rf1, cl)
  BY <1>0, <1>a, <1>t DEF SetOK
<1>3. RefOK(rf1, wk1, cl)
  BY <1>0, <1>a, <1>t, SMTT(30) DEF RefOK
<1>4. ASSUME NEW k \in 1..Len(cl)
      PROVE  cl[k].answer \in {0, -1, k} /\ Runs(rf1, k, cl[k]) /\ Awaits(wk1, cl[k]) /\ InTurn(cl, k)
  <2>0. k \in 1..Len(cl) => cl[k].answer \in {0, -1, k} /\ Runs(rf, k, cl[k]) /\ Awaits(wk, cl[k]) /\ InTurn(cl, k)
    BY <1>0 DEF CallOK
  <2>1. cl[k].answer \in {0, -1, k}
    BY <1>0, <1>a, <1>t, <2>0
  <2>2. Runs(rf1, k, cl[k])
    BY <1>0, <1>a, <1>t, <2>0 DEF Runs
  <2>3. Awaits(wk1, cl[k])
    BY <1>0, <1>a, <1>t, <2>0 DEF Awaits
  <2>4. InTurn(cl, k)
    BY <1>0, <1>a, <1>t, <2>0 DEF InTurn, CallOK
  <2> QED BY <2>1, <2>2, <2>3, <2>4
<1>5. ASSUME NEW k \in 1..Len(wk1)
      PROVE  /\ Held(rf1, k, wk1[k]) /\ Wanted(rf1, cl, k, wk1[k]) /\ Alone(rf1, wk1, k)
             /\ Loads(rf1, k, wk1[k]) /\ Says(rf1, cl, k, wk1[k])
  <2>0. k \in 1..Len(wk) => /\ Held(rf, k, wk[k]) /\ Wanted(rf, cl, k, wk[k]) /\ Alone(rf, wk, k)
                            /\ Loads(rf, k, wk[k]) /\ Says(rf, cl, k, wk[k])
    BY <1>0 DEF WorkerOK
  <2>1. Held(rf1, k, wk1[k])
    BY <1>0, <1>a, <1>t, <2>0 DEF Held
  <2>2. Wanted(rf1, cl, k, wk1[k])
    BY <1>0, <1>a, <1>t, <2>0 DEF Wanted
  <2>3. Alone(rf1, wk1, k)
    BY <1>0, <1>a, <1>t, <2>0 DEF Alone
  <2>4. Loads(rf1, k, wk1[k])
    BY <1>0, <1>a, <1>t, <2>0 DEF Loads
  <2>5. Says(rf1, cl, k, wk1[k])
    BY <1>0, <1>a, <1>t, <2>0 DEF Says
  <2> QED BY <2>1, <2>2, <2>3, <2>4, <2>5
<1>6. CallOK(rf1, wk1, cl) /\ WorkerOK(rf1, wk1, cl)
  BY <1>4, <1>5 DEF CallOK, WorkerOK
<1> QED BY <1>1, <1>2, <1>3, <1>6 DEF ModOK

(* A load for a call fails, and the call with it. *)
LEMMA ReloadFails ==
  ASSUME NEW st, NEW rf, NEW wk, NEW cl, ModOK(st, rf, wk, cl),
         NEW m \in Modules, NEW rf1, NEW w \in 1..Len(wk), wk[w].mod = m, wk[w].load \in {"spawning", "loading"}, NEW wk1,
         NEW c \in 1..Len(cl), cl[c].stage = "loading", cl[c].worker = w,
         cl[c].mod = m, NEW cl1,
         RefIs(rf, rf1, m, rf[m].made, 0, rf[m].pending), WorkerIs(wk, wk1, w, "failed", FALSE, wk[w].posted),
         CallIs(cl, cl1, c, "done", w, -1)
  PROVE  ModOK(st, rf1, wk1, cl1)
<1> SUFFICES ASSUME rf1 \in [Modules -> RefT], \A k \in Modules : k # m => rf1[k] = rf[k],
                    wk1 \in Seq(WorkerT), But(wk, wk1, w), wk1[w].mod = m,
                    cl1 \in Seq(CallT), But(cl, cl1, c), cl1[c].mod = m,
                    wk1[w].load = "failed", ~wk1[w].alive, wk1[w].posted = wk[w].posted,
                    rf1[m].made = rf[m].made, rf1[m].dead = rf[m].dead, rf1[m].worker = 0, rf1[m].pending = rf[m].pending,
                    cl1[c].stage = "done", cl1[c].answer = -1
             PROVE  ModOK(st, rf1, wk1, cl1)
  BY Zenon DEF RefIs, WorkerIs, CallIs
<1> USE DEF But
<1>0. Shape(st, rf, wk, cl) /\ SetOK(st, rf, cl) /\ RefOK(rf, wk, cl) /\ CallOK(rf, wk, cl) /\ WorkerOK(rf, wk, cl)
  BY DEF ModOK
<1>t. /\ Len(wk) \in Nat /\ (\A k \in 1..Len(wk) : wk[k].mod \in Modules)
      /\ Len(cl) \in Nat /\ (\A k \in 1..Len(cl) : cl[k].mod \in Modules)
      /\ Len(wk1) \in Nat /\ (\A k \in 1..Len(wk1) : wk1[k].mod \in Modules)
      /\ Len(cl1) \in Nat /\ (\A k \in 1..Len(cl1) : cl1[k].mod \in Modules)
  BY <1>0, WorkerMods, CallMods DEF Shape
<1>a. /\ rf[m].made = "loaded" /\ (\A k \in Modules : rf[k].made = "loaded") /\ cl[c].mod = m
      /\ rf[m].pending = 0 /\ rf[m].worker \in {0, w}
      /\ \A d \in 1..Len(cl) : cl[d].mod = m /\ cl[d].stage \in {"loading", "running"} => d = c
      /\ \A k \in 1..Len(wk) : wk[k].mod = m /\ wk[k].load \in {"spawning", "loading"} => k = w
  <2>1. Len(cl) > 0
    BY <1>t
  <2>2. \A k \in Modules : rf[k].made = "loaded"
    BY <1>0, <2>1 DEF SetOK
  <2>3. cl[c].mod = m
    BY <1>0 DEF CallOK, Awaits
  <2>4. \A d \in 1..Len(cl) : cl[d].mod = m /\ cl[d].stage \in {"loading", "running"} => d = c
    <3>1. cl[c].stage \in {"loading", "running"}
      OBVIOUS
    <3> SUFFICES ASSUME NEW d \in 1..Len(cl), cl[d].mod = m, cl[d].stage \in {"loading", "running"} PROVE d = c
      OBVIOUS
    <3>2. cl[c].mod = cl[d].mod
      BY <2>3
    <3> QED BY <3>1, <3>2, OneCall, SMTT(30)
  <2>5. \A k \in 1..Len(wk) : wk[k].mod = m /\ wk[k].load \in {"spawning", "loading"} => k = w
    BY OneLoad
  <2>6. rf[m].pending = 0
    <3>1. rf[m].pending # 0 => /\ rf[m].pending \in 1..Len(cl)
                               /\ cl[rf[m].pending].mod = m /\ cl[rf[m].pending].stage = "running"
      BY <1>0, Zenon DEF RefOK
    <3> QED BY <2>4, <3>1
  <2>7. rf[m].worker \in {0, w}
    BY <1>0 DEF WorkerOK, Loads
  <2> QED BY <2>2, <2>3, <2>4, <2>5, <2>6, <2>7
<1>1. Shape(st, rf1, wk1, cl1)
  BY <1>0 DEF Shape
<1>2. SetOK(st, rf1, cl1)
  BY <1>0, <1>a, <1>t, ZenonT(40) DEF SetOK
<1>3. RefOK(rf1, wk1, cl1)
  <2> SUFFICES ASSUME NEW k \in Modules
               PROVE  /\ rf1[k].worker # 0 => rf1[k].worker \in 1..Len(wk1) /\ wk1[rf1[k].worker].mod = k
                      /\ rf1[k].pending # 0 => /\ rf1[k].pending \in 1..Len(cl1)
                                              /\ cl1[rf1[k].pending].mod = k /\ cl1[rf1[k].pending].stage = "running"
    BY DEF RefOK
  <2>1. rf[k].worker # 0 => rf[k].worker \in 1..Len(wk) /\ wk[rf[k].worker].mod = k
    BY <1>0, Zenon DEF RefOK
  <2>2. rf[k].pending # 0 => /\ rf[k].pending \in 1..Len(cl)
                             /\ cl[rf[k].pending].mod = k /\ cl[rf[k].pending].stage = "running"
    BY <1>0, Zenon DEF RefOK
  <2>3. CASE k = m
    BY <1>a, <2>3
  <2>4. CASE k # m
    <3>1. rf1[k] = rf[k]
      BY <2>4
    <3>2. rf[k].worker # 0 => wk1[rf[k].worker].mod = wk[rf[k].worker].mod
      BY <2>1
    <3>3. rf[k].pending # 0 => cl1[rf[k].pending] = cl[rf[k].pending]
      BY <2>2
    <3> QED BY <2>1, <2>2, <3>1, <3>2, <3>3
  <2> QED BY <2>3, <2>4
<1>4. ASSUME NEW k \in 1..Len(cl1)
      PROVE  cl1[k].answer \in {0, -1, k} /\ Runs(rf1, k, cl1[k]) /\ Awaits(wk1, cl1[k]) /\ InTurn(cl1, k)
  <2>0. k \in 1..Len(cl) => cl[k].answer \in {0, -1, k} /\ Runs(rf, k, cl[k]) /\ Awaits(wk, cl[k]) /\ InTurn(cl, k)
    BY <1>0 DEF CallOK
  <2>1. cl1[k].answer \in {0, -1, k}
    BY <1>0, <1>a, <1>t, <2>0
  <2>2. Runs(rf1, k, cl1[k])
    BY <1>0, <1>a, <1>t, <2>0 DEF Runs
  <2>3. Awaits(wk1, cl1[k])
    <3> SUFFICES ASSUME cl1[k].stage = "loading"
                 PROVE  /\ cl1[k].worker \in 1..Len(wk1) /\ wk1[cl1[k].worker].mod = cl1[k].mod
                        /\ wk1[cl1[k].worker].load \in {"spawning", "loading"}
      BY DEF Awaits
    <3>1. k # c /\ k \in 1..Len(cl) /\ cl1[k] = cl[k]
      OBVIOUS
    <3>2. /\ cl[k].worker \in 1..Len(wk) /\ wk[cl[k].worker].mod = cl[k].mod
          /\ wk[cl[k].worker].load \in {"spawning", "loading"}
      BY <2>0, <3>1 DEF Awaits
    <3>3. cl[k].worker # w
      BY <1>a, <3>1, <3>2
    <3> QED BY <3>1, <3>2, <3>3, ZenonT(40)
  <2>4. InTurn(cl1, k)
    <3> SUFFICES ASSUME cl1[k].stage \in {"loading", "running"}, NEW d \in 1..(k - 1), cl1[d].mod = cl1[k].mod
                 PROVE  cl1[d].stage = "done"
      BY DEF InTurn
    <3>1. d \in 1..Len(cl) /\ k \in 1..Len(cl) /\ cl1[d].mod = cl[d].mod /\ cl1[k].mod = cl[k].mod
      BY <1>a, <1>t
    <3>2. cl[k].stage \in {"loading", "running"}
      BY <3>1
    <3>3. cl[d].stage = "done"
      BY <2>0, <3>1, <3>2, ZenonT(40) DEF InTurn
    <3> QED BY <3>1, <3>3
  <2> QED BY <2>1, <2>2, <2>3, <2>4
<1>5. ASSUME NEW k \in 1..Len(wk1)
      PROVE  /\ Held(rf1, k, wk1[k]) /\ Wanted(rf1, cl1, k, wk1[k]) /\ Alone(rf1, wk1, k)
             /\ Loads(rf1, k, wk1[k]) /\ Says(rf1, cl1, k, wk1[k])
  <2>0. k \in 1..Len(wk) => /\ Held(rf, k, wk[k]) /\ Wanted(rf, cl, k, wk[k]) /\ Alone(rf, wk, k)
                            /\ Loads(rf, k, wk[k]) /\ Says(rf, cl, k, wk[k])
    BY <1>0 DEF WorkerOK
  <2>1. Held(rf1, k, wk1[k])
    <3>1. CASE k = w
      <4>1. rf1[m].worker = w \/ ~wk1[k].alive
        BY <3>1
      <4> QED BY <3>1, <4>1 DEF Held
    <3>2. CASE k # w
      <4>1. wk1[k] = wk[k] /\ k \in 1..Len(wk) /\ k # 0
        BY <3>2
      <4>2. Held(rf, k, wk[k])
        BY <2>0, <4>1
      <4>3. rf[wk[k].mod].worker = k => rf1[wk[k].mod].worker = k
        BY <1>a, <1>t, <3>2, <4>1
      <4> QED BY <4>1, <4>2, <4>3 DEF Held
    <3> QED BY <3>1, <3>2
  <2>2. Wanted(rf1, cl1, k, wk1[k])
    <3> SUFFICES ASSUME wk1[k].load \in {"spawning", "loading"}
                 PROVE  \E d \in 1..Len(cl1) : cl1[d].stage = "loading" /\ cl1[d].worker = k
      BY DEF Wanted
    <3>1. k # w /\ k \in 1..Len(wk) /\ wk1[k] = wk[k]
      OBVIOUS
    <3>2. rf[wk[k].mod].made = "loaded"
      BY <1>a, <1>t, <3>1
    <3>3. PICK d \in 1..Len(cl) : cl[d].stage = "loading" /\ cl[d].worker = k
      BY <2>0, <3>1, <3>2 DEF Wanted
    <3>4. d # c
      BY <3>1, <3>3
    <3> QED BY <3>3, <3>4
  <2>3. Alone(rf1, wk1, k)
    BY <1>0, <1>a, <1>t, <2>0 DEF Alone
  <2>4. Loads(rf1, k, wk1[k])
    BY <1>0, <1>a, <1>t, <2>0 DEF Loads
  <2>5. Says(rf1, cl1, k, wk1[k])
    <3> SUFFICES ASSUME NEW msg \in wk1[k].posted
                 PROVE  /\ msg.type = "error" => ~wk1[k].alive
                        /\ msg.type = "result" /\ rf1[wk1[k].mod].worker = k =>
                             /\ msg.of \in 1..Len(cl1) /\ cl1[msg.of].stage = "running"
                             /\ cl1[msg.of].worker = k /\ cl1[msg.of].mod = wk1[k].mod
      BY DEF Says
    <3>1. wk1[k].posted = wk[k].posted /\ wk1[k].mod = wk[k].mod /\ (wk1[k].alive => wk[k].alive) /\ k # 0
      OBVIOUS
    <3>2. Says(rf, cl, k, wk[k])
      BY <2>0
    <3>3. rf1[wk[k].mod].worker = k => rf[wk[k].mod].worker = k
      BY <1>t, <3>1, SMTT(30)
    <3>4. msg.type = "result" /\ rf1[wk[k].mod].worker = k =>
            msg.of # c /\ msg.of \in 1..Len(cl) /\ cl[msg.of].stage = "running"
            /\ cl[msg.of].worker = k /\ cl[msg.of].mod = wk[k].mod
      BY <3>1, <3>2, <3>3 DEF Says
    <3> QED BY <3>1, <3>2, <3>4 DEF Says
  <2> QED BY <2>1, <2>2, <2>3, <2>4, <2>5
<1>6. CallOK(rf1, wk1, cl1) /\ WorkerOK(rf1, wk1, cl1)
  BY <1>4, <1>5 DEF CallOK, WorkerOK
<1> QED BY <1>1, <1>2, <1>3, <1>6 DEF ModOK

(* ... or ends well, and the call runs. *)
LEMMA ReloadRuns ==
  ASSUME NEW st, NEW rf, NEW wk, NEW cl, ModOK(st, rf, wk, cl),
         NEW m \in Modules, NEW rf1, NEW w \in 1..Len(wk), wk[w].mod = m, wk[w].load \in {"spawning", "loading"}, NEW wk1,
         NEW c \in 1..Len(cl), cl[c].stage = "loading", cl[c].worker = w,
         cl[c].mod = m, NEW cl1,
         rf[m].worker = w, ~rf[m].dead,
         RefIs(rf, rf1, m, rf[m].made, w, c), WorkerIs(wk, wk1, w, "loaded", wk[w].alive, wk[w].posted),
         CallIs(cl, cl1, c, "running", w, cl[c].answer)
  PROVE  ModOK(st, rf1, wk1, cl1)
<1> SUFFICES ASSUME rf1 \in [Modules -> RefT], \A k \in Modules : k # m => rf1[k] = rf[k],
                    wk1 \in Seq(WorkerT), But(wk, wk1, w), wk1[w].mod = m,
                    cl1 \in Seq(CallT), But(cl, cl1, c), cl1[c].mod = m,
                    wk1[w].load = "loaded", wk1[w].alive = wk[w].alive, wk1[w].posted = wk[w].posted,
                    rf1[m].made = rf[m].made, rf1[m].dead = rf[m].dead, rf1[m].worker = w, rf1[m].pending = c,
                    cl1[c].stage = "running", cl1[c].worker = w, cl1[c].answer = cl[c].answer
             PROVE  ModOK(st, rf1, wk1, cl1)
  BY Zenon DEF RefIs, WorkerIs, CallIs
<1> USE DEF But
<1>0. Shape(st, rf, wk, cl) /\ SetOK(st, rf, cl) /\ RefOK(rf, wk, cl) /\ CallOK(rf, wk, cl) /\ WorkerOK(rf, wk, cl)
  BY DEF ModOK
<1>t. /\ Len(wk) \in Nat /\ (\A k \in 1..Len(wk) : wk[k].mod \in Modules)
      /\ Len(cl) \in Nat /\ (\A k \in 1..Len(cl) : cl[k].mod \in Modules)
      /\ Len(wk1) \in Nat /\ (\A k \in 1..Len(wk1) : wk1[k].mod \in Modules)
      /\ Len(cl1) \in Nat /\ (\A k \in 1..Len(cl1) : cl1[k].mod \in Modules)
  BY <1>0, WorkerMods, CallMods DEF Shape
<1>a. /\ rf[m].made = "loaded" /\ (\A k \in Modules : rf[k].made = "loaded") /\ cl[c].mod = m
      /\ rf[m].pending = 0 /\ rf[m].worker \in {0, w}
      /\ \A d \in 1..Len(cl) : cl[d].mod = m /\ cl[d].stage \in {"loading", "running"} => d = c
      /\ \A k \in 1..Len(wk) : wk[k].mod = m /\ wk[k].load \in {"spawning", "loading"} => k = w
  <2>1. Len(cl) > 0
    BY <1>t
  <2>2. \A k \in Modules : rf[k].made = "loaded"
    BY <1>0, <2>1 DEF SetOK
  <2>3. cl[c].mod = m
    BY <1>0 DEF CallOK, Awaits
  <2>4. \A d \in 1..Len(cl) : cl[d].mod = m /\ cl[d].stage \in {"loading", "running"} => d = c
    <3>1. cl[c].stage \in {"loading", "running"}
      OBVIOUS
    <3> SUFFICES ASSUME NEW d \in 1..Len(cl), cl[d].mod = m, cl[d].stage \in {"loading", "running"} PROVE d = c
      OBVIOUS
    <3>2. cl[c].mod = cl[d].mod
      BY <2>3
    <3> QED BY <3>1, <3>2, OneCall
  <2>5. \A k \in 1..Len(wk) : wk[k].mod = m /\ wk[k].load \in {"spawning", "loading"} => k = w
    BY OneLoad
  <2>6. rf[m].pending = 0
    <3>1. rf[m].pending # 0 => /\ rf[m].pending \in 1..Len(cl)
                               /\ cl[rf[m].pending].mod = m /\ cl[rf[m].pending].stage = "running"
      BY <1>0, Zenon DEF RefOK
    <3> QED BY <2>4, <3>1
  <2>7. rf[m].worker \in {0, w}
    BY <1>0 DEF WorkerOK, Loads
  <2> QED BY <2>2, <2>3, <2>4, <2>5, <2>6, <2>7
<1>1. Shape(st, rf1, wk1, cl1)
  BY <1>0 DEF Shape
<1>2. SetOK(st, rf1, cl1)
  BY <1>0, <1>a, <1>t, ZenonT(40) DEF SetOK
<1>3. RefOK(rf1, wk1, cl1)
  <2> SUFFICES ASSUME NEW k \in Modules
               PROVE  /\ rf1[k].worker # 0 => rf1[k].worker \in 1..Len(wk1) /\ wk1[rf1[k].worker].mod = k
                      /\ rf1[k].pending # 0 => /\ rf1[k].pending \in 1..Len(cl1)
                                              /\ cl1[rf1[k].pending].mod = k /\ cl1[rf1[k].pending].stage = "running"
    BY DEF RefOK
  <2>1. rf[k].worker # 0 => rf[k].worker \in 1..Len(wk) /\ wk[rf[k].worker].mod = k
    BY <1>0, Zenon DEF RefOK
  <2>2. rf[k].pending # 0 => /\ rf[k].pending \in 1..Len(cl)
                             /\ cl[rf[k].pending].mod = k /\ cl[rf[k].pending].stage = "running"
    BY <1>0, Zenon DEF RefOK
  <2>3. CASE k = m
    BY <1>a, <2>3
  <2>4. CASE k # m
    <3>1. rf1[k] = rf[k]
      BY <2>4
    <3>2. rf[k].worker # 0 => wk1[rf[k].worker].mod = wk[rf[k].worker].mod
      BY <2>1
    <3>3. rf[k].pending # 0 => cl1[rf[k].pending] = cl[rf[k].pending]
      BY <2>2
    <3> QED BY <2>1, <2>2, <3>1, <3>2, <3>3
  <2> QED BY <2>3, <2>4
<1>4. ASSUME NEW k \in 1..Len(cl1)
      PROVE  cl1[k].answer \in {0, -1, k} /\ Runs(rf1, k, cl1[k]) /\ Awaits(wk1, cl1[k]) /\ InTurn(cl1, k)
  <2>0. k \in 1..Len(cl) => cl[k].answer \in {0, -1, k} /\ Runs(rf, k, cl[k]) /\ Awaits(wk, cl[k]) /\ InTurn(cl, k)
    BY <1>0 DEF CallOK
  <2>1. cl1[k].answer \in {0, -1, k}
    BY <1>0, <1>a, <1>t, <2>0
  <2>2. Runs(rf1, k, cl1[k])
    BY <1>0, <1>a, <1>t, <2>0 DEF Runs
  <2>3. Awaits(wk1, cl1[k])
    <3> SUFFICES ASSUME cl1[k].stage = "loading"
                 PROVE  /\ cl1[k].worker \in 1..Len(wk1) /\ wk1[cl1[k].worker].mod = cl1[k].mod
                        /\ wk1[cl1[k].worker].load \in {"spawning", "loading"}
      BY DEF Awaits
    <3>1. k # c /\ k \in 1..Len(cl) /\ cl1[k] = cl[k]
      OBVIOUS
    <3>2. /\ cl[k].worker \in 1..Len(wk) /\ wk[cl[k].worker].mod = cl[k].mod
          /\ wk[cl[k].worker].load \in {"spawning", "loading"}
      BY <2>0, <3>1 DEF Awaits
    <3>3. cl[k].worker # w
      BY <1>a, <3>1, <3>2
    <3> QED BY <3>1, <3>2, <3>3
  <2>4. InTurn(cl1, k)
    <3> SUFFICES ASSUME cl1[k].stage \in {"loading", "running"}, NEW d \in 1..(k - 1), cl1[d].mod = cl1[k].mod
                 PROVE  cl1[d].stage = "done"
      BY DEF InTurn
    <3>1. d \in 1..Len(cl) /\ k \in 1..Len(cl) /\ cl1[d].mod = cl[d].mod /\ cl1[k].mod = cl[k].mod
      BY <1>a, <1>t
    <3>2. cl[k].stage \in {"loading", "running"}
      BY <3>1
    <3>3. cl[d].stage = "done"
      BY <2>0, <3>1, <3>2 DEF InTurn
    <3> QED BY <3>1, <3>3
  <2> QED BY <2>1, <2>2, <2>3, <2>4
<1>5. ASSUME NEW k \in 1..Len(wk1)
      PROVE  /\ Held(rf1, k, wk1[k]) /\ Wanted(rf1, cl1, k, wk1[k]) /\ Alone(rf1, wk1, k)
             /\ Loads(rf1, k, wk1[k]) /\ Says(rf1, cl1, k, wk1[k])
  <2>0. k \in 1..Len(wk) => /\ Held(rf, k, wk[k]) /\ Wanted(rf, cl, k, wk[k]) /\ Alone(rf, wk, k)
                            /\ Loads(rf, k, wk[k]) /\ Says(rf, cl, k, wk[k])
    BY <1>0 DEF WorkerOK
  <2>1. Held(rf1, k, wk1[k])
    <3>1. CASE k = w
      <4>1. rf1[m].worker = w \/ ~wk1[k].alive
        BY <3>1
      <4> QED BY <3>1, <4>1 DEF Held
    <3>2. CASE k # w
      <4>1. wk1[k] = wk[k] /\ k \in 1..Len(wk) /\ k # 0
        BY <3>2
      <4>2. Held(rf, k, wk[k])
        BY <2>0, <4>1
      <4>3. rf[wk[k].mod].worker = k => rf1[wk[k].mod].worker = k
        BY <1>a, <1>t, <3>2, <4>1
      <4> QED BY <4>1, <4>2, <4>3 DEF Held
    <3> QED BY <3>1, <3>2
  <2>2. Wanted(rf1, cl1, k, wk1[k])
    <3> SUFFICES ASSUME wk1[k].load \in {"spawning", "loading"}
                 PROVE  \E d \in 1..Len(cl1) : cl1[d].stage = "loading" /\ cl1[d].worker = k
      BY DEF Wanted
    <3>1. k # w /\ k \in 1..Len(wk) /\ wk1[k] = wk[k]
      OBVIOUS
    <3>2. rf[wk[k].mod].made = "loaded"
      BY <1>a, <1>t, <3>1
    <3>3. PICK d \in 1..Len(cl) : cl[d].stage = "loading" /\ cl[d].worker = k
      BY <2>0, <3>1, <3>2 DEF Wanted
    <3>4. d # c
      BY <3>1, <3>3
    <3> QED BY <3>3, <3>4
  <2>3. Alone(rf1, wk1, k)
    BY <1>0, <1>a, <1>t, <2>0 DEF Alone
  <2>4. Loads(rf1, k, wk1[k])
    BY <1>0, <1>a, <1>t, <2>0 DEF Loads
  <2>5. Says(rf1, cl1, k, wk1[k])
    <3> SUFFICES ASSUME NEW msg \in wk1[k].posted
                 PROVE  /\ msg.type = "error" => ~wk1[k].alive
                        /\ msg.type = "result" /\ rf1[wk1[k].mod].worker = k =>
                             /\ msg.of \in 1..Len(cl1) /\ cl1[msg.of].stage = "running"
                             /\ cl1[msg.of].worker = k /\ cl1[msg.of].mod = wk1[k].mod
      BY DEF Says
    <3>1. wk1[k].posted = wk[k].posted /\ wk1[k].mod = wk[k].mod /\ (wk1[k].alive => wk[k].alive) /\ k # 0
      OBVIOUS
    <3>2. Says(rf, cl, k, wk[k])
      BY <2>0
    <3>3. rf1[wk[k].mod].worker = k => rf[wk[k].mod].worker = k
      BY <1>t, <3>1, SMTT(30)
    <3>4. msg.type = "result" /\ rf1[wk[k].mod].worker = k =>
            msg.of # c /\ msg.of \in 1..Len(cl) /\ cl[msg.of].stage = "running"
            /\ cl[msg.of].worker = k /\ cl[msg.of].mod = wk[k].mod
      BY <3>1, <3>2, <3>3 DEF Says
    <3> QED BY <3>1, <3>2, <3>4 DEF Says
  <2> QED BY <2>1, <2>2, <2>3, <2>4, <2>5
<1>6. CallOK(rf1, wk1, cl1) /\ WorkerOK(rf1, wk1, cl1)
  BY <1>4, <1>5 DEF CallOK, WorkerOK
<1> QED BY <1>1, <1>2, <1>3, <1>6 DEF ModOK

(* A worker that has started is attached to its module. *)
LEMMA Attaches ==
  ASSUME NEW st, NEW rf, NEW wk, NEW cl, ModOK(st, rf, wk, cl),
         NEW m \in Modules, NEW rf1, NEW w \in 1..Len(wk), wk[w].mod = m, wk[w].load \in {"spawning", "loading"}, NEW wk1,
         wk[w].load = "spawning", ~rf[m].dead,
         RefIs(rf, rf1, m, rf[m].made, w, rf[m].pending), WorkerIs(wk, wk1, w, "loading", TRUE, wk[w].posted)
  PROVE  ModOK(st, rf1, wk1, cl)
<1> SUFFICES ASSUME rf1 \in [Modules -> RefT], \A k \in Modules : k # m => rf1[k] = rf[k],
                    wk1 \in Seq(WorkerT), But(wk, wk1, w), wk1[w].mod = m,
                    wk1[w].load = "loading", wk1[w].posted = wk[w].posted,
                    rf1[m].made = rf[m].made, rf1[m].dead = rf[m].dead, rf1[m].worker = w, rf1[m].pending = rf[m].pending
             PROVE  ModOK(st, rf1, wk1, cl)
  BY Zenon DEF RefIs, WorkerIs, CallIs
<1> USE DEF But
<1>0. Shape(st, rf, wk, cl) /\ SetOK(st, rf, cl) /\ RefOK(rf, wk, cl) /\ CallOK(rf, wk, cl) /\ WorkerOK(rf, wk, cl)
  BY DEF ModOK
<1>t. /\ Len(wk) \in Nat /\ (\A k \in 1..Len(wk) : wk[k].mod \in Modules)
      /\ Len(cl) \in Nat /\ (\A k \in 1..Len(cl) : cl[k].mod \in Modules)
      /\ Len(wk1) \in Nat /\ (\A k \in 1..Len(wk1) : wk1[k].mod \in Modules)
  BY <1>0, WorkerMods, CallMods DEF Shape
<1>a. /\ rf[m].worker = 0 /\ wk[w].posted = {} /\ rf[m].made # "failed"
      /\ \A k \in 1..Len(wk) : wk[k].mod = m /\ wk[k].load \in {"spawning", "loading"} => k = w
  <2>1. rf[m].worker = 0 /\ wk[w].posted = {}
    BY <1>0 DEF WorkerOK, Loads
  <2>2. \A k \in 1..Len(wk) : wk[k].mod = m /\ wk[k].load \in {"spawning", "loading"} => k = w
    BY OneLoad
  <2>3. rf[m].made # "failed"
    <3>1. rf[m].made = "loading" \/ Len(cl) > 0
      BY <1>0, <1>t DEF WorkerOK, Wanted
    <3>2. Len(cl) > 0 => rf[m].made = "loaded"
      BY <1>0 DEF SetOK
    <3> QED BY <3>1, <3>2
  <2> QED BY <2>1, <2>2, <2>3
<1>1. Shape(st, rf1, wk1, cl)
  BY <1>0 DEF Shape
<1>2. SetOK(st, rf1, cl)
  BY <1>0, <1>a, <1>t DEF SetOK
<1>3. RefOK(rf1, wk1, cl)
  BY <1>0, <1>a, <1>t, SMTT(40) DEF RefOK
<1>4. ASSUME NEW k \in 1..Len(cl)
      PROVE  cl[k].answer \in {0, -1, k} /\ Runs(rf1, k, cl[k]) /\ Awaits(wk1, cl[k]) /\ InTurn(cl, k)
  <2>0. k \in 1..Len(cl) => cl[k].answer \in {0, -1, k} /\ Runs(rf, k, cl[k]) /\ Awaits(wk, cl[k]) /\ InTurn(cl, k)
    BY <1>0 DEF CallOK
  <2>1. cl[k].answer \in {0, -1, k}
    BY <1>0, <1>a, <1>t, <2>0
  <2>2. Runs(rf1, k, cl[k])
    BY <1>0, <1>a, <1>t, <2>0 DEF Runs
  <2>3. Awaits(wk1, cl[k])
    BY <1>0, <1>a, <1>t, <2>0 DEF Awaits
  <2>4. InTurn(cl, k)
    BY <1>0, <1>a, <1>t, <2>0 DEF InTurn, CallOK
  <2> QED BY <2>1, <2>2, <2>3, <2>4
<1>5. ASSUME NEW k \in 1..Len(wk1)
      PROVE  /\ Held(rf1, k, wk1[k]) /\ Wanted(rf1, cl, k, wk1[k]) /\ Alone(rf1, wk1, k)
             /\ Loads(rf1, k, wk1[k]) /\ Says(rf1, cl, k, wk1[k])
  <2>0. k \in 1..Len(wk) => /\ Held(rf, k, wk[k]) /\ Wanted(rf, cl, k, wk[k]) /\ Alone(rf, wk, k)
                            /\ Loads(rf, k, wk[k]) /\ Says(rf, cl, k, wk[k])
    BY <1>0 DEF WorkerOK
  <2>1. Held(rf1, k, wk1[k])
    BY <1>0, <1>a, <1>t, <2>0 DEF Held
  <2>2. Wanted(rf1, cl, k, wk1[k])
    BY <1>0, <1>a, <1>t, <2>0 DEF Wanted
  <2>3. Alone(rf1, wk1, k)
    BY <1>0, <1>a, <1>t, <2>0, SMTT(30) DEF Alone
  <2>4. Loads(rf1, k, wk1[k])
    BY <1>0, <1>a, <1>t, <2>0 DEF Loads
  <2>5. Says(rf1, cl, k, wk1[k])
    BY <1>0, <1>a, <1>t, <2>0 DEF Says
  <2> QED BY <2>1, <2>2, <2>3, <2>4, <2>5
<1>6. CallOK(rf1, wk1, cl) /\ WorkerOK(rf1, wk1, cl)
  BY <1>4, <1>5 DEF CallOK, WorkerOK
<1> QED BY <1>1, <1>2, <1>3, <1>6 DEF ModOK

(* A call is made of a set that is built. *)
LEMMA CallComes ==
  ASSUME NEW st, NEW rf, NEW wk, NEW cl, ModOK(st, rf, wk, cl),
         st = "built", NEW cl1 \in Seq(CallT), NEW c, c = Len(cl) + 1, Len(cl1) = c,
         \A k \in 1..Len(cl) : cl1[k] = cl[k],
         cl1[c].stage = "queued", cl1[c].answer = 0
  PROVE  ModOK(st, rf, wk, cl1)
<1> USE DEF But
<1>0. Shape(st, rf, wk, cl) /\ SetOK(st, rf, cl) /\ RefOK(rf, wk, cl) /\ CallOK(rf, wk, cl) /\ WorkerOK(rf, wk, cl)
  BY DEF ModOK
<1>t. /\ Len(wk) \in Nat /\ (\A k \in 1..Len(wk) : wk[k].mod \in Modules)
      /\ Len(cl) \in Nat /\ (\A k \in 1..Len(cl) : cl[k].mod \in Modules)
      /\ Len(cl1) \in Nat /\ (\A k \in 1..Len(cl1) : cl1[k].mod \in Modules)
  BY <1>0, WorkerMods, CallMods DEF Shape
<1>1. Shape(st, rf, wk, cl1)
  BY <1>0 DEF Shape
<1>2. SetOK(st, rf, cl1)
  BY <1>0, <1>t DEF SetOK
<1>3. RefOK(rf, wk, cl1)
  BY <1>0, <1>t DEF RefOK
<1>4. ASSUME NEW k \in 1..Len(cl1)
      PROVE  cl1[k].answer \in {0, -1, k} /\ Runs(rf, k, cl1[k]) /\ Awaits(wk, cl1[k]) /\ InTurn(cl1, k)
  <2>0. k \in 1..Len(cl) => cl[k].answer \in {0, -1, k} /\ Runs(rf, k, cl[k]) /\ Awaits(wk, cl[k]) /\ InTurn(cl, k)
    BY <1>0 DEF CallOK
  <2>1. cl1[k].answer \in {0, -1, k}
    BY <1>0, <1>t, <2>0
  <2>2. Runs(rf, k, cl1[k])
    BY <1>0, <1>t, <2>0 DEF Runs
  <2>3. Awaits(wk, cl1[k])
    BY <1>0, <1>t, <2>0 DEF Awaits
  <2>4. InTurn(cl1, k)
    <3>1. CASE k = c
      BY <3>1 DEF InTurn
    <3>2. CASE k # c
      <4>1. k \in 1..Len(cl) /\ \A d \in 1..(k - 1) : d \in 1..Len(cl)
        BY <1>t, <3>2
      <4> QED BY <2>0, <4>1 DEF InTurn
    <3> QED BY <3>1, <3>2
  <2> QED BY <2>1, <2>2, <2>3, <2>4
<1>5. ASSUME NEW k \in 1..Len(wk)
      PROVE  /\ Held(rf, k, wk[k]) /\ Wanted(rf, cl1, k, wk[k]) /\ Alone(rf, wk, k)
             /\ Loads(rf, k, wk[k]) /\ Says(rf, cl1, k, wk[k])
  <2>0. k \in 1..Len(wk) => /\ Held(rf, k, wk[k]) /\ Wanted(rf, cl, k, wk[k]) /\ Alone(rf, wk, k)
                            /\ Loads(rf, k, wk[k]) /\ Says(rf, cl, k, wk[k])
    BY <1>0 DEF WorkerOK
  <2>1. Held(rf, k, wk[k])
    BY <1>0, <1>t, <2>0 DEF Held
  <2>2. Wanted(rf, cl1, k, wk[k])
    BY <1>0, <1>t, <2>0 DEF Wanted
  <2>3. Alone(rf, wk, k)
    BY <1>0, <1>t, <2>0 DEF Alone
  <2>4. Loads(rf, k, wk[k])
    BY <1>0, <1>t, <2>0 DEF Loads
  <2>5. Says(rf, cl1, k, wk[k])
    BY <1>0, <1>t, <2>0 DEF Says
  <2> QED BY <2>1, <2>2, <2>3, <2>4, <2>5
<1>6. CallOK(rf, wk, cl1) /\ WorkerOK(rf, wk, cl1)
  BY <1>4, <1>5 DEF CallOK, WorkerOK
<1> QED BY <1>1, <1>2, <1>3, <1>6 DEF ModOK

(* Every first load has ended well: the set is built. *)
LEMMA Builds ==
  ASSUME NEW st, NEW rf, NEW wk, NEW cl, ModOK(st, rf, wk, cl),
         st = "building", \A m \in Modules : rf[m].made = "loaded", NEW st1, st1 = "built"
  PROVE  ModOK(st1, rf, wk, cl)
<1> USE DEF But
<1>0. Shape(st, rf, wk, cl) /\ SetOK(st, rf, cl) /\ RefOK(rf, wk, cl) /\ CallOK(rf, wk, cl) /\ WorkerOK(rf, wk, cl)
  BY DEF ModOK
<1>t. /\ Len(wk) \in Nat /\ (\A k \in 1..Len(wk) : wk[k].mod \in Modules)
      /\ Len(cl) \in Nat /\ (\A k \in 1..Len(cl) : cl[k].mod \in Modules)
  BY <1>0, WorkerMods, CallMods DEF Shape
<1>1. Shape(st1, rf, wk, cl)
  BY <1>0 DEF Shape
<1>2. SetOK(st1, rf, cl)
  BY <1>0, <1>t DEF SetOK
<1>3. RefOK(rf, wk, cl)
  BY <1>0, <1>t DEF RefOK
<1>4. ASSUME NEW k \in 1..Len(cl)
      PROVE  cl[k].answer \in {0, -1, k} /\ Runs(rf, k, cl[k]) /\ Awaits(wk, cl[k]) /\ InTurn(cl, k)
  <2>0. k \in 1..Len(cl) => cl[k].answer \in {0, -1, k} /\ Runs(rf, k, cl[k]) /\ Awaits(wk, cl[k]) /\ InTurn(cl, k)
    BY <1>0 DEF CallOK
  <2>1. cl[k].answer \in {0, -1, k}
    BY <1>0, <1>t, <2>0
  <2>2. Runs(rf, k, cl[k])
    BY <1>0, <1>t, <2>0 DEF Runs
  <2>3. Awaits(wk, cl[k])
    BY <1>0, <1>t, <2>0 DEF Awaits
  <2>4. InTurn(cl, k)
    BY <1>0, <1>t, <2>0 DEF InTurn, CallOK
  <2> QED BY <2>1, <2>2, <2>3, <2>4
<1>5. ASSUME NEW k \in 1..Len(wk)
      PROVE  /\ Held(rf, k, wk[k]) /\ Wanted(rf, cl, k, wk[k]) /\ Alone(rf, wk, k)
             /\ Loads(rf, k, wk[k]) /\ Says(rf, cl, k, wk[k])
  <2>0. k \in 1..Len(wk) => /\ Held(rf, k, wk[k]) /\ Wanted(rf, cl, k, wk[k]) /\ Alone(rf, wk, k)
                            /\ Loads(rf, k, wk[k]) /\ Says(rf, cl, k, wk[k])
    BY <1>0 DEF WorkerOK
  <2>1. Held(rf, k, wk[k])
    BY <1>0, <1>t, <2>0 DEF Held
  <2>2. Wanted(rf, cl, k, wk[k])
    BY <1>0, <1>t, <2>0 DEF Wanted
  <2>3. Alone(rf, wk, k)
    BY <1>0, <1>t, <2>0 DEF Alone
  <2>4. Loads(rf, k, wk[k])
    BY <1>0, <1>t, <2>0 DEF Loads
  <2>5. Says(rf, cl, k, wk[k])
    BY <1>0, <1>t, <2>0 DEF Says
  <2> QED BY <2>1, <2>2, <2>3, <2>4, <2>5
<1>6. CallOK(rf, wk, cl) /\ WorkerOK(rf, wk, cl)
  BY <1>4, <1>5 DEF CallOK, WorkerOK
<1> QED BY <1>1, <1>2, <1>3, <1>6 DEF ModOK

(* The modules that were loaded are released. *)
LEMMA Releases ==
  ASSUME NEW st, NEW rf, NEW wk, NEW cl, ModOK(st, rf, wk, cl),
         NEW R, R = {m \in Modules : rf[m].made = "loaded"},
         \/ st = "building" /\ \A m \in Modules : rf[m].made # "loading"
         \/ st = "built",
         NEW st1 \in {"failed", "disposed"}, (st1 = "disposed") <=> (st = "built"),
         NEW rf1, NEW wk1, NEW cl1, TornDown(rf, wk, cl, rf1, wk1, cl1, R)
  PROVE  ModOK(st1, rf1, wk1, cl1)
<1>u. rf1 \in [Modules -> RefT] /\ wk1 \in Seq(WorkerT) /\ Len(wk1) = Len(wk) /\ cl1 \in Seq(CallT) /\ Len(cl1) = Len(cl)
  BY Zenon DEF TornDown
<1>v. \A m \in Modules \ R : rf1[m] = rf[m]
  BY Zenon DEF TornDown
<1>w. \A m \in R : rf1[m].made = rf[m].made /\ rf1[m].dead /\ rf1[m].pending = 0 /\ rf1[m].worker = 0
  BY Zenon DEF TornDown
<1>x. \A k \in 1..Len(wk) : /\ wk1[k].mod = wk[k].mod /\ wk1[k].load = wk[k].load /\ wk1[k].posted = wk[k].posted
                            /\ wk1[k].alive => wk[k].alive /\ \A m \in R : rf[m].worker # k
  BY Zenon DEF TornDown
<1>y. \A c \in 1..Len(cl) :
         /\ cl1[c].mod = cl[c].mod /\ cl1[c].worker = cl[c].worker
         /\ \/ (\E m \in R : rf[m].pending = c) /\ cl1[c].stage = "done" /\ cl1[c].answer = -1
            \/ (\A m \in R : rf[m].pending # c) /\ cl1[c] = cl[c]
  BY Zenon DEF TornDown
<1> USE <1>u, <1>v, <1>w, <1>x, <1>y
<1> USE DEF But
<1>0. Shape(st, rf, wk, cl) /\ SetOK(st, rf, cl) /\ RefOK(rf, wk, cl) /\ CallOK(rf, wk, cl) /\ WorkerOK(rf, wk, cl)
  BY DEF ModOK
<1>t. /\ Len(wk) \in Nat /\ (\A k \in 1..Len(wk) : wk[k].mod \in Modules)
      /\ Len(cl) \in Nat /\ (\A k \in 1..Len(cl) : cl[k].mod \in Modules)
      /\ Len(wk1) \in Nat /\ (\A k \in 1..Len(wk1) : wk1[k].mod \in Modules)
      /\ Len(cl1) \in Nat /\ (\A k \in 1..Len(cl1) : cl1[k].mod \in Modules)
  BY <1>0, WorkerMods, CallMods DEF Shape
<1>a. /\ \A m \in Modules : rf1[m].made = rf[m].made /\ rf1[m].made # "loading"
      /\ \A m \in Modules :
           (rf1[m].worker = 0 /\ rf1[m].pending = 0 /\ rf1[m].dead) \/ (m \notin R /\ rf1[m] = rf[m])
      /\ Len(cl) > 0 => st = "built" /\ R = Modules
      /\ st = "built" => R = Modules
      /\ \A c \in 1..Len(cl) : cl1[c].stage # "running" /\ (cl[c].stage = "loading" => cl1[c] = cl[c])
  <2>1. \A m \in Modules : rf1[m].made = rf[m].made
    OBVIOUS
  <2>2. st = "built" => R = Modules
    BY <1>0 DEF SetOK
  <2>3. \A m \in Modules : rf[m].made # "loading"
    BY <2>2
  <2>4. Len(cl) > 0 => st = "built"
    BY <1>0 DEF SetOK
  <2>5. ASSUME NEW c \in 1..Len(cl)
        PROVE  cl1[c].stage # "running" /\ (cl[c].stage = "loading" => cl1[c] = cl[c])
    <3>1. Len(cl) > 0
      BY <1>t
    <3>2. R = Modules /\ cl[c].mod \in Modules
      BY <1>t, <2>2, <2>4, <3>1
    <3>3. cl[c].stage = "running" => rf[cl[c].mod].pending = c
      BY <1>0 DEF CallOK, Runs
    <3>4. cl[c].stage = "loading" => \A m \in R : rf[m].pending # c
      <4>1. \A m \in Modules : rf[m].pending = c => c # 0 /\ cl[c].stage = "running"
        BY <1>0 DEF RefOK
      <4> QED BY <3>2, <4>1
    <3> QED BY <3>2, <3>3, <3>4
  <2>6. \A m \in Modules :
           (rf1[m].worker = 0 /\ rf1[m].pending = 0 /\ rf1[m].dead) \/ (m \notin R /\ rf1[m] = rf[m])
    <3> SUFFICES ASSUME NEW m \in Modules
                 PROVE  (rf1[m].worker = 0 /\ rf1[m].pending = 0 /\ rf1[m].dead) \/ (m \notin R /\ rf1[m] = rf[m])
      BY Zenon
    <3>1. CASE m \in R
      BY <3>1, Zenon
    <3>2. CASE m \notin R
      <4>1. rf1[m] = rf[m]
        BY <3>2
      <4> QED BY <3>2, <4>1, Zenon
    <3> QED BY <3>1, <3>2, Zenon
  <2>7. \A m \in Modules : rf1[m].made = rf[m].made /\ rf1[m].made # "loading"
    BY <2>1, <2>3
  <2> QED BY <2>2, <2>4, <2>5, <2>6, <2>7, Zenon
<1>1. Shape(st1, rf1, wk1, cl1)
  BY <1>0 DEF Shape
<1>2. SetOK(st1, rf1, cl1)
  BY <1>0, <1>a, <1>t DEF SetOK
<1>3. RefOK(rf1, wk1, cl1)
  BY <1>0, <1>a, <1>t DEF RefOK
<1>4. ASSUME NEW k \in 1..Len(cl1)
      PROVE  cl1[k].answer \in {0, -1, k} /\ Runs(rf1, k, cl1[k]) /\ Awaits(wk1, cl1[k]) /\ InTurn(cl1, k)
  <2>0. k \in 1..Len(cl) => cl[k].answer \in {0, -1, k} /\ Runs(rf, k, cl[k]) /\ Awaits(wk, cl[k]) /\ InTurn(cl, k)
    BY <1>0 DEF CallOK
  <2>1. cl1[k].answer \in {0, -1, k}
    BY <1>0, <1>a, <1>t, <2>0
  <2>2. Runs(rf1, k, cl1[k])
    BY <1>0, <1>a, <1>t, <2>0 DEF Runs
  <2>3. Awaits(wk1, cl1[k])
    BY <1>0, <1>a, <1>t, <2>0 DEF Awaits
  <2>4. InTurn(cl1, k)
    BY <1>0, <1>a, <1>t, <2>0 DEF InTurn, CallOK
  <2> QED BY <2>1, <2>2, <2>3, <2>4
<1>5. ASSUME NEW k \in 1..Len(wk1)
      PROVE  /\ Held(rf1, k, wk1[k]) /\ Wanted(rf1, cl1, k, wk1[k]) /\ Alone(rf1, wk1, k)
             /\ Loads(rf1, k, wk1[k]) /\ Says(rf1, cl1, k, wk1[k])
  <2>0. k \in 1..Len(wk) => /\ Held(rf, k, wk[k]) /\ Wanted(rf, cl, k, wk[k]) /\ Alone(rf, wk, k)
                            /\ Loads(rf, k, wk[k]) /\ Says(rf, cl, k, wk[k])
    BY <1>0 DEF WorkerOK
  <2>1. Held(rf1, k, wk1[k])
    BY <1>0, <1>a, <1>t, <2>0 DEF Held
  <2>2. Wanted(rf1, cl1, k, wk1[k])
    BY <1>0, <1>a, <1>t, <2>0 DEF Wanted
  <2>3. Alone(rf1, wk1, k)
    BY <1>0, <1>a, <1>t, <2>0 DEF Alone
  <2>4. Loads(rf1, k, wk1[k])
    BY <1>0, <1>a, <1>t, <2>0 DEF Loads
  <2>5. Says(rf1, cl1, k, wk1[k])
    <3> SUFFICES ASSUME NEW msg \in wk1[k].posted
                 PROVE  /\ msg.type = "error" => ~wk1[k].alive
                        /\ ~(msg.type = "result" /\ rf1[wk1[k].mod].worker = k)
      BY DEF Says
    <3>1. wk1[k].posted = wk[k].posted /\ wk1[k].mod = wk[k].mod /\ (wk1[k].alive => wk[k].alive)
          /\ k # 0 /\ k \in 1..Len(wk)
      OBVIOUS
    <3>2. Says(rf, cl, k, wk[k])
      BY <2>0, <3>1
    <3>3. rf1[wk[k].mod].worker = k => wk[k].mod \notin R /\ rf[wk[k].mod].worker = k
      BY <1>a, <1>t, <3>1
    <3>4. Len(cl) > 0 => wk[k].mod \in R
      BY <1>a, <1>t, <3>1
    <3>5. msg.type = "result" /\ rf[wk[k].mod].worker = k => msg.of \in 1..Len(cl)
      BY <3>1, <3>2, Zenon DEF Says
    <3>6. msg.of \in 1..Len(cl) => Len(cl) > 0
      BY <1>t
    <3>7. msg.type = "error" => ~wk1[k].alive
      BY <3>1, <3>2, Zenon DEF Says
    <3> QED BY <3>1, <3>3, <3>4, <3>5, <3>6, <3>7, Zenon
  <2> QED BY <2>1, <2>2, <2>3, <2>4, <2>5
<1>6. CallOK(rf1, wk1, cl1) /\ WorkerOK(rf1, wk1, cl1)
  BY <1>4, <1>5 DEF CallOK, WorkerOK
<1> QED BY <1>1, <1>2, <1>3, <1>6 DEF ModOK

-----------------------------------------------------------------------------
(* The table, in the midst of a turn, is one the invariant allows. *)
Good(st, u) == u \in TableT /\ ModOK(st, u.ref, u.worker, u.call)

LEMMA TableGood == ASSUME ModInv
                   PROVE  Has(Table, ref, worker, call) /\ Good(set, Table)
BY DEF ModInv, Good, Has, ModOK, Shape, Table, TableT

LEMMA TableNext == ASSUME NEW u, Good(set', u), TableIs(u)
                   PROVE  ModInv'
BY DEF ModInv, Good, TableIs

LEMMA LoadSet ==
  ASSUME NEW t \in TableT, NEW w \in 1..Len(t.worker), NEW x \in {"loading", "loaded", "failed"}, NEW u, u = [t EXCEPT !.worker[w].load = x]
  PROVE  /\ u \in TableT /\ u.ref = t.ref /\ u.call = t.call
         /\ WorkerIs(t.worker, u.worker, w, x, t.worker[w].alive, t.worker[w].posted)
<1> DEFINE v == [t.worker[w] EXCEPT !.load = x]
           s == [t.worker EXCEPT ![w] = v]
<1>0. t.worker \in Seq(WorkerT)
  BY DEF TableT
<1>1. t.worker[w] \in WorkerT
  BY <1>0
<1>2. v \in WorkerT /\ v.mod = t.worker[w].mod /\ v.load = x /\ v.alive = t.worker[w].alive /\ v.posted = t.worker[w].posted
  BY <1>1 DEF WorkerT
<1>3. u = [t EXCEPT !.worker = s]
  BY <1>0, <1>1 DEF TableT, WorkerT
<1> HIDE DEF v
<1>4. s \in Seq(WorkerT) /\ s[w] = v /\ But(t.worker, s, w)
  BY <1>0, <1>2 DEF But
<1> HIDE DEF s
<1>5. Has(u, t.ref, s, t.call)
  BY <1>3, <1>4, TableWorker
<1> QED BY <1>2, <1>4, <1>5 DEF Has, WorkerIs

LEMMA AliveSet ==
  ASSUME NEW t \in TableT, NEW w \in 1..Len(t.worker), NEW u, u = [t EXCEPT !.worker[w].alive = TRUE, !.worker[w].load = "loading"]
  PROVE  /\ u \in TableT /\ u.ref = t.ref /\ u.call = t.call
         /\ WorkerIs(t.worker, u.worker, w, "loading", TRUE, t.worker[w].posted)
<1> DEFINE v == [t.worker[w] EXCEPT !.load = "loading", !.alive = TRUE]
           s == [t.worker EXCEPT ![w] = v]
<1>0. t.worker \in Seq(WorkerT)
  BY DEF TableT
<1>1. t.worker[w] \in WorkerT
  BY <1>0
<1>2. v \in WorkerT /\ v.mod = t.worker[w].mod /\ v.load = "loading" /\ v.alive = TRUE /\ v.posted = t.worker[w].posted
  BY <1>1 DEF WorkerT
<1>3. u = [t EXCEPT !.worker = s]
  BY <1>0, <1>1, ZenonT(40) DEF TableT, WorkerT
<1> HIDE DEF v
<1>4. s \in Seq(WorkerT) /\ s[w] = v /\ But(t.worker, s, w)
  BY <1>0, <1>2 DEF But
<1> HIDE DEF s
<1>5. Has(u, t.ref, s, t.call)
  BY <1>3, <1>4, TableWorker
<1> QED BY <1>2, <1>4, <1>5 DEF Has, WorkerIs

(* Reading takes a message off a worker. *)
Taken(u, t, w, msg) == u = [t EXCEPT !.worker[w].posted = @ \ {msg}]

LEMMA PostedSet ==
  ASSUME NEW t \in TableT, NEW w \in 1..Len(t.worker), NEW msg, NEW u, Taken(u, t, w, msg)
  PROVE  /\ u \in TableT /\ u.ref = t.ref /\ u.call = t.call
         /\ WorkerIs(t.worker, u.worker, w, t.worker[w].load, t.worker[w].alive, (t.worker[w].posted \ {msg}))
<1> DEFINE v == [t.worker[w] EXCEPT !.posted = (t.worker[w].posted \ {msg})]
           s == [t.worker EXCEPT ![w] = v]
<1>0. t.worker \in Seq(WorkerT)
  BY DEF TableT
<1>1. t.worker[w] \in WorkerT
  BY <1>0
<1>2. v \in WorkerT /\ v.mod = t.worker[w].mod /\ v.load = t.worker[w].load /\ v.alive = t.worker[w].alive /\ v.posted = (t.worker[w].posted \ {msg})
  BY <1>1 DEF WorkerT
<1>3. u = [t EXCEPT !.worker = s]
  BY <1>0, <1>1 DEF TableT, WorkerT, Taken
<1> HIDE DEF v
<1>4. s \in Seq(WorkerT) /\ s[w] = v /\ But(t.worker, s, w)
  BY <1>0, <1>2 DEF But
<1> HIDE DEF s
<1>5. Has(u, t.ref, s, t.call)
  BY <1>3, <1>4, TableWorker
<1> QED BY <1>2, <1>4, <1>5 DEF Has, WorkerIs

LEMMA MadeSet ==
  ASSUME NEW t \in TableT, NEW m \in Modules, NEW x \in {"failed", "loaded"}, NEW u, u = [t EXCEPT !.ref[m].made = x]
  PROVE  /\ u \in TableT /\ u.worker = t.worker /\ u.call = t.call
         /\ RefIs(t.ref, u.ref, m, x, t.ref[m].worker, t.ref[m].pending)
<1> DEFINE v == [t.ref[m] EXCEPT !.made = x]
           s == [t.ref EXCEPT ![m] = v]
<1>0. t.ref \in [Modules -> RefT]
  BY DEF TableT
<1>1. t.ref[m] \in RefT
  BY <1>0
<1>2. v \in RefT /\ v.dead = t.ref[m].dead /\ v.made = x /\ v.worker = t.ref[m].worker /\ v.pending = t.ref[m].pending
  BY <1>1 DEF RefT
<1>3. u = [t EXCEPT !.ref = s]
  BY <1>0, <1>1 DEF TableT, RefT
<1> HIDE DEF v
<1>4. s \in [Modules -> RefT] /\ s[m] = v /\ \A k \in Modules : k # m => s[k] = t.ref[k]
  BY <1>0, <1>2
<1> HIDE DEF s
<1>5. Has(u, s, t.worker, t.call)
  BY <1>3, <1>4, TableRef
<1> QED BY <1>2, <1>4, <1>5 DEF Has, RefIs

LEMMA AttachSet ==
  ASSUME NEW t \in TableT, NEW m \in Modules, NEW x \in Nat, NEW u, u = [t EXCEPT !.ref[m].worker = x]
  PROVE  /\ u \in TableT /\ u.worker = t.worker /\ u.call = t.call
         /\ RefIs(t.ref, u.ref, m, t.ref[m].made, x, t.ref[m].pending)
<1> DEFINE v == [t.ref[m] EXCEPT !.worker = x]
           s == [t.ref EXCEPT ![m] = v]
<1>0. t.ref \in [Modules -> RefT]
  BY DEF TableT
<1>1. t.ref[m] \in RefT
  BY <1>0
<1>2. v \in RefT /\ v.dead = t.ref[m].dead /\ v.made = t.ref[m].made /\ v.worker = x /\ v.pending = t.ref[m].pending
  BY <1>1 DEF RefT
<1>3. u = [t EXCEPT !.ref = s]
  BY <1>0, <1>1 DEF TableT, RefT
<1> HIDE DEF v
<1>4. s \in [Modules -> RefT] /\ s[m] = v /\ \A k \in Modules : k # m => s[k] = t.ref[k]
  BY <1>0, <1>2
<1> HIDE DEF s
<1>5. Has(u, s, t.worker, t.call)
  BY <1>3, <1>4, TableRef
<1> QED BY <1>2, <1>4, <1>5 DEF Has, RefIs

LEMMA Freed ==
  ASSUME NEW t \in TableT, NEW m \in Modules, NEW u, u = [t EXCEPT !.ref[m].pending = 0]
  PROVE  /\ u \in TableT /\ u.worker = t.worker /\ u.call = t.call
         /\ RefIs(t.ref, u.ref, m, t.ref[m].made, t.ref[m].worker, 0)
<1> DEFINE v == [t.ref[m] EXCEPT !.pending = 0]
           s == [t.ref EXCEPT ![m] = v]
<1>0. t.ref \in [Modules -> RefT]
  BY DEF TableT
<1>1. t.ref[m] \in RefT
  BY <1>0
<1>2. v \in RefT /\ v.dead = t.ref[m].dead /\ v.made = t.ref[m].made /\ v.worker = t.ref[m].worker /\ v.pending = 0
  BY <1>1 DEF RefT
<1>3. u = [t EXCEPT !.ref = s]
  BY <1>0, <1>1 DEF TableT, RefT
<1> HIDE DEF v
<1>4. s \in [Modules -> RefT] /\ s[m] = v /\ \A k \in Modules : k # m => s[k] = t.ref[k]
  BY <1>0, <1>2
<1> HIDE DEF s
<1>5. Has(u, s, t.worker, t.call)
  BY <1>3, <1>4, TableRef
<1> QED BY <1>2, <1>4, <1>5 DEF Has, RefIs

LEMMA DoneIs ==
  ASSUME NEW t \in TableT, NEW c \in 1..Len(t.call), NEW r \in Int, NEW u, u = Done(t, c, r)
  PROVE  /\ u \in TableT /\ u.ref = t.ref /\ u.worker = t.worker
         /\ CallIs(t.call, u.call, c, "done", t.call[c].worker, r)
<1> DEFINE v == [t.call[c] EXCEPT !.stage = "done", !.answer = r]
           s == [t.call EXCEPT ![c] = v]
<1>0. t.call \in Seq(CallT)
  BY DEF TableT
<1>1. t.call[c] \in CallT
  BY <1>0
<1>2. v \in CallT /\ v.mod = t.call[c].mod /\ v.stage = "done" /\ v.worker = t.call[c].worker /\ v.answer = r
  BY <1>1 DEF CallT
<1>3. u = [t EXCEPT !.call = s]
  BY <1>0, <1>1 DEF TableT, CallT, Done
<1> HIDE DEF v
<1>4. s \in Seq(CallT) /\ s[c] = v /\ But(t.call, s, c)
  BY <1>0, <1>2 DEF But
<1> HIDE DEF s
<1>5. Has(u, t.ref, t.worker, s)
  BY <1>3, <1>4, TableCall
<1> QED BY <1>2, <1>4, <1>5 DEF Has, CallIs

LEMMA KillIs ==
  ASSUME NEW t \in TableT, NEW w \in 1..Len(t.worker), w # 0, NEW u, u = Kill(t, w)
  PROVE  /\ u \in TableT /\ u.ref = t.ref /\ u.call = t.call
         /\ WorkerIs(t.worker, u.worker, w, t.worker[w].load, FALSE, t.worker[w].posted)
<1> DEFINE v == [t.worker[w] EXCEPT !.alive = FALSE]
           s == [t.worker EXCEPT ![w] = v]
<1>0. t.worker \in Seq(WorkerT)
  BY DEF TableT
<1>1. t.worker[w] \in WorkerT
  BY <1>0
<1>2. v \in WorkerT /\ v.mod = t.worker[w].mod /\ v.load = t.worker[w].load /\ v.alive = FALSE /\ v.posted = t.worker[w].posted
  BY <1>1 DEF WorkerT
<1>3. u = [t EXCEPT !.worker = s]
  BY <1>0, <1>1 DEF TableT, WorkerT, Kill
<1> HIDE DEF v
<1>4. s \in Seq(WorkerT) /\ s[w] = v /\ But(t.worker, s, w)
  BY <1>0, <1>2 DEF But
<1> HIDE DEF s
<1>5. Has(u, t.ref, s, t.call)
  BY <1>3, <1>4, TableWorker
<1> QED BY <1>2, <1>4, <1>5 DEF Has, WorkerIs

LEMMA PostIs ==
  ASSUME NEW t \in TableT, NEW c \in 1..Len(t.call), NEW w \in Nat, NEW m, m = t.call[c].mod, NEW u, u = Post(t, c, w)
  PROVE  /\ u \in TableT /\ u.worker = t.worker
         /\ RefIs(t.ref, u.ref, m, t.ref[m].made, t.ref[m].worker, c)
         /\ CallIs(t.call, u.call, c, "running", w, t.call[c].answer)
<1> DEFINE x == [t.call[c] EXCEPT !.stage = "running", !.worker = w]
           cl == [t.call EXCEPT ![c] = x]
           y == [t.ref[m] EXCEPT !.pending = c]
           rf == [t.ref EXCEPT ![m] = y]
<1>0. t.call \in Seq(CallT) /\ t.ref \in [Modules -> RefT]
  BY DEF TableT
<1>1. t.call[c] \in CallT /\ c \in Nat
  BY <1>0
<1>2. m \in Modules
  BY <1>1 DEF CallT
<1>3. t.ref[m] \in RefT
  BY <1>0, <1>2
<1>4. x \in CallT /\ x.mod = t.call[c].mod /\ x.stage = "running" /\ x.worker = w /\ x.answer = t.call[c].answer
  BY <1>1 DEF CallT
<1>5. /\ y \in RefT /\ y.dead = t.ref[m].dead /\ y.made = t.ref[m].made /\ y.worker = t.ref[m].worker
      /\ y.pending = c
  BY <1>1, <1>3 DEF RefT
<1>6. u = [[t EXCEPT !.call = cl] EXCEPT !.ref = rf]
  BY <1>0, <1>1, <1>2, <1>3 DEF TableT, Post, CallT, RefT
<1> HIDE DEF x, y
<1>7. cl \in Seq(CallT) /\ cl[c] = x /\ But(t.call, cl, c)
  BY <1>0, <1>4 DEF But
<1>8. rf \in [Modules -> RefT] /\ rf[m] = y /\ \A k \in Modules : k # m => rf[k] = t.ref[k]
  BY <1>0, <1>2, <1>5
<1> HIDE DEF cl, rf
<1>9. Has(u, rf, t.worker, cl)
  BY <1>6, <1>7, <1>8 DEF Has, TableT
<1> QED BY <1>4, <1>5, <1>7, <1>8, <1>9 DEF Has, RefIs, CallIs

LEMMA AnswerIs ==
  ASSUME NEW t \in TableT, NEW m \in Modules, NEW r \in Int, NEW c, c = t.ref[m].pending, c \in 1..Len(t.call),
         NEW u, u = answer(t, m, r)
  PROVE  /\ u \in TableT /\ u.worker = t.worker
         /\ RefIs(t.ref, u.ref, m, t.ref[m].made, t.ref[m].worker, 0)
         /\ CallIs(t.call, u.call, c, "done", t.call[c].worker, r)
<1> DEFINE f == [t EXCEPT !.ref[m].pending = 0]
<1>1. c # 0
  OBVIOUS
<1>2. u = Done(f, c, r)
  BY <1>1, Zenon DEF answer
<1>3. /\ f \in TableT /\ f.worker = t.worker /\ f.call = t.call
      /\ RefIs(t.ref, f.ref, m, t.ref[m].made, t.ref[m].worker, 0)
  BY Freed, Zenon
<1> HIDE DEF f
<1>4. c \in 1..Len(f.call)
  BY <1>3
<1>5. /\ u \in TableT /\ u.ref = f.ref /\ u.worker = f.worker
      /\ CallIs(f.call, u.call, c, "done", f.call[c].worker, r)
  BY <1>2, <1>3, <1>4, DoneIs, ZenonT(60)
<1> QED BY <1>3, <1>5, Zenon

(* ---- loads ---- *)

(* A load that fails, of a worker that may have started in the same turn. *)
LEMMA LoadFailsGood ==
  ASSUME NEW st, NEW rf, NEW wk, ModOK(st, rf, wk, call), NEW w \in 1..Len(wk), wk[w].load \in {"spawning", "loading"},
         NEW t, NEW wk1, Has(t, rf, wk1, call), But(wk, wk1, w), wk1[w].mod = wk[w].mod, wk1[w].posted = wk[w].posted
  PROVE  Good(st, LoadFails(t, w))
<1> DEFINE m == wk[w].mod
           k == Kill(t, w)
           f == [k EXCEPT !.worker[w].load = "failed"]
<1>0. /\ t \in TableT /\ t.ref = rf /\ t.worker = wk1 /\ t.call = call /\ w \in 1..Len(t.worker) /\ w # 0
      /\ rf \in [Modules -> RefT] /\ wk \in Seq(WorkerT) /\ wk1 \in Seq(WorkerT) /\ call \in Seq(CallT)
  BY DEF Has, ModOK, Shape, But, TableT
<1>1. m \in Modules
  BY <1>0, WorkerMods
<1>2. /\ k \in TableT /\ k.ref = t.ref /\ k.call = t.call
      /\ WorkerIs(t.worker, k.worker, w, t.worker[w].load, FALSE, t.worker[w].posted)
  BY <1>0, KillIs, Zenon
<1>3. /\ f \in TableT /\ f.ref = rf /\ f.call = call 
      /\ WorkerIs(wk, f.worker, w, "failed", FALSE, wk[w].posted)
  <2> HIDE DEF k
  <2>1. w \in 1..Len(k.worker)
    BY <1>0, <1>2 DEF WorkerIs, But
  <2>2. "failed" \in {"loading", "loaded", "failed"}
    OBVIOUS
  <2>3. /\ f \in TableT /\ f.ref = k.ref /\ f.call = k.call
        /\ WorkerIs(k.worker, f.worker, w, "failed", k.worker[w].alive, k.worker[w].posted)
    BY <1>2, <2>1, <2>2, LoadSet, Zenon
  <2> HIDE DEF f
  <2>4. But(wk, f.worker, w)
    BY <1>0, <1>2, <2>3 DEF But, WorkerIs
  <2>5. f.worker \in Seq(WorkerT) /\ f.worker[w].mod = m /\ f.worker[w].posted = wk[w].posted /\ f.worker[w].load = "failed"
    BY <1>0, <1>2, <2>3 DEF WorkerIs
  <2>6. f.worker[w].alive = FALSE
    BY <1>2, <2>3, Zenon DEF WorkerIs
  <2>7. WorkerIs(wk, f.worker, w, "failed", FALSE, wk[w].posted)
    BY <2>4, <2>5, <2>6, Zenon DEF WorkerIs
  <2> QED BY <1>0, <1>2, <2>3, <2>4, <2>5, <2>7, Zenon
<1>4. t.worker[w].mod = m
  BY <1>0
<1>5. CASE Loader(w) = {}
  <2> DEFINE u == [f EXCEPT !.ref[m].made = "failed"]
  <2>1. LoadFails(t, w) = u
    BY <1>4, <1>5, Zenon DEF LoadFails
  <2>2. NoLoader(call, w)
    BY <1>5 DEF NoLoader, Loader, Calls
  <2>3. "failed" \in {"failed", "loaded"}
    OBVIOUS
  <2> HIDE DEF f, m
  <2>4. /\ u \in TableT /\ u.worker = f.worker /\ u.call = f.call
        /\ RefIs(f.ref, u.ref, m, "failed", f.ref[m].worker, f.ref[m].pending)
    BY <1>1, <1>3, <2>3, MadeSet, Zenon
  <2> HIDE DEF u
  <2>5. RefIs(rf, u.ref, m, "failed", rf[m].worker, rf[m].pending)
    BY <1>3, <2>4, Zenon
  <2>6. ModOK(st, u.ref, f.worker, call)
    <3>1. wk[w].mod = m
      BY DEF m
    <3> QED BY <1>1, <1>3, <2>2, <2>5, <3>1, FirstFails, Zenon
  <2> QED BY <1>3, <2>1, <2>4, <2>6, Zenon DEF Good
<1>6. CASE Loader(w) # {}
  <2> DEFINE c == CHOOSE c \in Loader(w) : TRUE
             r == [f EXCEPT !.ref[m].worker = 0]
             u == Done(r, c, -1)
  <2>1. LoadFails(t, w) = u
    BY <1>4, <1>6, Zenon DEF LoadFails, MODULE_FAILED
  <2>2. c \in 1..Len(call) /\ call[c].stage = "loading" /\ call[c].worker = w
    BY <1>6 DEF Loader, Calls
  <2>3. 0 \in Nat /\ -1 \in Int /\ -1 \in {0, -1, c}
    OBVIOUS
  <2> HIDE DEF f, m, c
  <2>4. /\ r \in TableT /\ r.worker = f.worker /\ r.call = f.call
        /\ RefIs(f.ref, r.ref, m, f.ref[m].made, 0, f.ref[m].pending)
    BY <1>1, <1>3, <2>3, AttachSet, Zenon
  <2> HIDE DEF r
  <2>5. c \in 1..Len(r.call)
    BY <1>3, <2>2, <2>4
  <2>6. /\ u \in TableT /\ u.ref = r.ref /\ u.worker = r.worker
        /\ CallIs(r.call, u.call, c, "done", r.call[c].worker, -1)
    BY <2>3, <2>4, <2>5, DoneIs, Zenon
  <2> HIDE DEF u
  <2>7. call[c].mod = m
    BY <2>2 DEF m, ModOK, CallOK, Awaits
  <2>8. RefIs(rf, u.ref, m, rf[m].made, 0, rf[m].pending) /\ CallIs(call, u.call, c, "done", w, -1)
    BY <1>3, <2>2, <2>4, <2>6, Zenon
  <2>9. ModOK(st, u.ref, f.worker, u.call)
    BY <1>1, <1>3, <2>2, <2>7, <2>8, ReloadFails, Zenon DEF m
  <2> QED BY <2>1, <2>4, <2>6, <2>9, Zenon DEF Good
<1> QED BY <1>5, <1>6

LEMMA LoadEndsGood ==
  ASSUME NEW st, NEW t, Good(st, t), t.call = call, NEW w \in 1..Len(t.worker), t.worker[w].load = "loading",
         ~t.ref[t.worker[w].mod].dead
  PROVE  Good(st, LoadEnds(t, w))
<1> DEFINE m == t.worker[w].mod
           f == [t EXCEPT !.worker[w].load = "loaded"]
           rf == t.ref
           wk == t.worker
<1>0. /\ t \in TableT /\ t.ref \in [Modules -> RefT] /\ t.worker \in Seq(WorkerT) /\ call \in Seq(CallT)
      /\ ModOK(st, t.ref, t.worker, call)
  BY DEF Good, TableT
<1>1. m \in Modules
  BY <1>0, WorkerMods
<1>2. rf[m].worker = w
  BY <1>0 DEF ModOK, WorkerOK, Loads
<1>3. /\ f \in TableT /\ f.ref = rf /\ f.call = call /\ WorkerIs(wk, f.worker, w, "loaded", wk[w].alive, wk[w].posted)
  <2>1. "loaded" \in {"loading", "loaded", "failed"}
    OBVIOUS
  <2>2. /\ f \in TableT /\ f.ref = t.ref /\ f.call = t.call
        /\ WorkerIs(t.worker, f.worker, w, "loaded", t.worker[w].alive, t.worker[w].posted)
    BY <1>0, <2>1, LoadSet, Zenon
  <2> HIDE DEF f
  <2> QED BY <2>2, Zenon
<1>4. wk[w].load \in {"spawning", "loading"}
  OBVIOUS
<1>5. CASE Loader(w) = {}
  <2> DEFINE u == [f EXCEPT !.ref[m].made = "loaded"]
  <2>1. LoadEnds(t, w) = u
    BY <1>5, Zenon DEF LoadEnds
  <2>2. NoLoader(call, w)
    BY <1>5 DEF NoLoader, Loader, Calls
  <2>3. "loaded" \in {"failed", "loaded"}
    OBVIOUS
  <2> HIDE DEF f, m
  <2>4. /\ u \in TableT /\ u.worker = f.worker /\ u.call = f.call
        /\ RefIs(f.ref, u.ref, m, "loaded", f.ref[m].worker, f.ref[m].pending)
    BY <1>1, <1>3, <2>3, MadeSet, Zenon
  <2> HIDE DEF u
  <2>5. ModOK(st, u.ref, f.worker, call)
    BY <1>0, <1>1, <1>3, <1>4, <2>2, <2>4, FirstLoads, Zenon DEF m
  <2> QED BY <1>3, <2>1, <2>4, <2>5, Zenon DEF Good
<1>6. CASE Loader(w) # {}
  <2> DEFINE c == CHOOSE c \in Loader(w) : TRUE
             u == Post(f, c, w)
  <2>1. LoadEnds(t, w) = u
    BY <1>6, Zenon DEF LoadEnds
  <2>2. c \in 1..Len(call) /\ call[c].stage = "loading" /\ call[c].worker = w
    BY <1>6 DEF Loader, Calls
  <2> HIDE DEF f, m, c
  <2>3. call[c].mod = m
    BY <1>0, <2>2 DEF m, ModOK, CallOK, Awaits
  <2>4. w \in Nat /\ c \in 1..Len(f.call) /\ m = f.call[c].mod
    BY <1>0, <1>3, <2>2, <2>3
  <2>5. /\ u \in TableT /\ u.worker = f.worker
        /\ RefIs(f.ref, u.ref, m, f.ref[m].made, f.ref[m].worker, c)
        /\ CallIs(f.call, u.call, c, "running", w, f.call[c].answer)
    BY <1>3, <2>4, PostIs, Zenon
  <2> HIDE DEF u
  <2>6. /\ RefIs(rf, u.ref, m, rf[m].made, w, c) /\ CallIs(call, u.call, c, "running", w, call[c].answer)
        /\ wk[w].mod = m /\ rf[m].worker = w /\ ~rf[m].dead
    BY <1>2, <1>3, <2>5, Zenon DEF m
  <2>7. ModOK(st, u.ref, f.worker, u.call)
    BY <1>0, <1>1, <1>3, <1>4, <2>2, <2>3, <2>6, ReloadRuns, Zenon
  <2> QED BY <2>1, <2>5, <2>7, Zenon DEF Good
<1> QED BY <1>5, <1>6

(* ---- what each action does to the invariant ---- *)

(* A message off a worker, the table is still good. *)
LEMMA TakenGood ==
  ASSUME ModInv, NEW w \in 1..Len(worker), NEW msg \in worker[w].posted, NEW t,
         Taken(t, Table, w, msg)
  PROVE  /\ Good(set, t) /\ t.ref = ref /\ t.call = call
         /\ WorkerIs(worker, t.worker, w, worker[w].load, worker[w].alive, worker[w].posted \ {msg})
<1> DEFINE p == worker[w].posted \ {msg}
           b == Table
<1>1. b \in TableT /\ b.ref = ref /\ b.worker = worker /\ b.call = call
  BY TableGood DEF Has
<1> HIDE DEF b
<1>2. /\ t \in TableT /\ t.ref = b.ref /\ t.call = b.call
      /\ WorkerIs(b.worker, t.worker, w, b.worker[w].load, b.worker[w].alive, (b.worker[w].posted \ {msg}))
  <2>1. w \in 1..Len(b.worker) /\ Taken(t, b, w, msg)
    BY <1>1, Zenon DEF b
  <2> QED BY <1>1, <2>1, PostedSet
<1>3. WorkerIs(worker, t.worker, w, worker[w].load, worker[w].alive, p)
  BY <1>1, <1>2, Zenon
<1>4. ModOK(set, ref, worker, call) /\ Says(ref, call, w, worker[w]) /\ Loads(ref, w, worker[w])
  BY DEF ModInv, ModOK, WorkerOK
<1>5. /\ t.worker \in Seq(WorkerT) /\ But(worker, t.worker, w) /\ t.worker[w].mod = worker[w].mod
      /\ t.worker[w].load = worker[w].load /\ t.worker[w].posted = p /\ (t.worker[w].alive => worker[w].alive)
  BY <1>3, Zenon DEF WorkerIs
<1>6. worker[w].load = "spawning" => t.worker[w].posted = {}
  BY <1>4, <1>5, Zenon DEF Loads
<1>7. Says(ref, call, w, t.worker[w])
  BY <1>4, <1>5, Zenon DEF Says
<1>8. ModOK(set, ref, t.worker, call)
  BY <1>4, <1>5, <1>6, <1>7, WorkerSays, Zenon
<1> QED BY <1>1, <1>2, <1>3, <1>8, Zenon DEF Good

LEMMA TurnNext ==
  ASSUME ModInv, NEW c \in 1..Len(call), Turn(c)
  PROVE  ModInv'
<1> DEFINE m == call[c].mod
           b == Table
<1>0. /\ First(m) \subseteq 1..Len(call) /\ set' = set /\ call[c].stage = "queued"
      /\ \A d \in 1..(c - 1) : call[d].mod = m => call[d].stage = "done"
  BY DEF Turn, First, Calls
<1>1. b \in TableT /\ b.ref = ref /\ b.worker = worker /\ b.call = call /\ ModOK(set, ref, worker, call)
  BY TableGood DEF Has, ModInv
<1>2. m \in Modules /\ c \in 1..Len(b.call) /\ ref \in [Modules -> RefT] /\ worker \in Seq(WorkerT) /\ call \in Seq(CallT)
  BY <1>1, CallMods DEF TableT
<1>3. CASE ref[m].dead
  <2> DEFINE u == Done(b, c, -1)
  <2>1. TableIs(u)
    BY <1>3, Zenon DEF Turn, MODULE_FAILED
  <2> HIDE DEF b
  <2>2. u \in TableT /\ u.ref = b.ref /\ u.worker = b.worker /\ CallIs(b.call, u.call, c, "done", b.call[c].worker, -1)
    BY <1>1, <1>2, DoneIs
  <2> HIDE DEF u
  <2>3. CallIs(call, u.call, c, "done", call[c].worker, -1)
    BY <1>1, <2>2, Zenon
  <2>4. ModOK(set, ref, worker, u.call)
    BY <1>0, <1>1, <2>3, CallRefused DEF CallIs
  <2>5. Good(set', u)
    BY <1>0, <1>1, <2>2, <2>4, Zenon DEF Good
  <2> QED BY <2>1, <2>5, TableNext
<1>4. CASE ~ref[m].dead /\ ref[m].worker # 0
  <2> DEFINE u == Post(b, c, ref[m].worker)
  <2>1. TableIs(u)
    BY <1>4, Zenon DEF Turn
  <2>2. ref[m].worker \in Nat
    BY <1>2 DEF RefT
  <2> HIDE DEF b
  <2>3. /\ u \in TableT /\ u.worker = b.worker
        /\ RefIs(b.ref, u.ref, m, b.ref[m].made, b.ref[m].worker, c)
        /\ CallIs(b.call, u.call, c, "running", ref[m].worker, b.call[c].answer)
    BY <1>1, <1>2, <2>2, PostIs, SMTT(40)
  <2> HIDE DEF u
  <2>4. RefIs(ref, u.ref, m, ref[m].made, ref[m].worker, c) /\ CallIs(call, u.call, c, "running", ref[m].worker, call[c].answer)
    BY <1>1, <2>3, Zenon
  <2>5. ModOK(set, u.ref, worker, u.call)
    BY <1>0, <1>1, <1>4, <2>4, CallRuns, Zenon
  <2>6. Good(set', u)
    BY <1>0, <1>1, <2>3, <2>5, Zenon DEF Good
  <2> QED BY <2>1, <2>6, TableNext
<1>5. CASE ~ref[m].dead /\ ref[m].worker = 0
  <2> DEFINE n == Len(worker) + 1
             v == Spawn(m)
             x == [call[c] EXCEPT !.stage = "loading", !.worker = n]
             wk1 == Append(worker, v)
             cl1 == [call EXCEPT ![c] = x]
  <2>1. TableIs([b EXCEPT !.worker = Append(@, Spawn(m)),
                             !.call[c] = [@ EXCEPT !.stage = "loading", !.worker = Len(worker) + 1]])
    BY <1>5, Zenon DEF Turn
  <2>2. ref' = ref /\ worker' = wk1 /\ call' = cl1
    BY <2>1, <1>2 DEF TableIs, Table
  <2>3. v \in WorkerT /\ v.mod = m /\ v.load = "spawning" /\ ~v.alive /\ v.posted = {}
    BY <1>2 DEF Spawn, WorkerT
  <2>4. call[c] \in CallT /\ Len(worker) \in Nat /\ n \in Nat /\ n = Len(worker) + 1
    BY <1>2
  <2> HIDE DEF n
  <2>5. x \in CallT /\ x.mod = m /\ x.stage = "loading" /\ x.worker = n /\ x.answer = call[c].answer
    BY <2>4 DEF CallT
  <2> HIDE DEF v, x
  <2>6. /\ wk1 \in Seq(WorkerT) /\ Len(wk1) = n /\ wk1[n] = v
        /\ \A k \in 1..Len(worker) : wk1[k] = worker[k]
    BY <1>2, <2>3, <2>4
  <2>7. cl1 \in Seq(CallT) /\ But(call, cl1, c) /\ cl1[c] = x
    BY <1>2, <2>5 DEF But
  <2> HIDE DEF wk1, cl1
  <2>8. Spawns(worker, wk1, n, m)
    BY <2>3, <2>4, <2>6, Zenon DEF Spawns
  <2>9. CallIs(call, cl1, c, "loading", n, call[c].answer)
    BY <2>5, <2>7, Zenon DEF CallIs
  <2>10. ModOK(set, ref, wk1, cl1)
    BY <1>0, <1>1, <1>5, <2>8, <2>9, LoadBegins, Zenon
  <2> QED BY <1>0, <2>2, <2>10 DEF ModInv
<1> QED BY <1>3, <1>4, <1>5, Zenon

LEMMA CallNext ==
  ASSUME ModInv, NEW m \in Modules, CallModule(m)
  PROVE  ModInv'
<1> DEFINE x == [mod |-> m, stage |-> "queued", worker |-> 0, answer |-> 0]
           cl1 == Append(call, x)
<1>1. set = "built" /\ set' = set /\ ref' = ref /\ worker' = worker /\ call' = cl1
  BY DEF CallModule, NoAnswer
<1>2. ModOK(set, ref, worker, call) /\ call \in Seq(CallT)
  BY DEF ModInv, ModOK, Shape
<1>3. x \in CallT /\ x.stage = "queued" /\ x.answer = 0
  BY DEF CallT
<1> HIDE DEF x
<1>4. cl1 \in Seq(CallT) /\ Len(cl1) = Len(call) + 1 /\ cl1[Len(call) + 1] = x /\ \A k \in 1..Len(call) : cl1[k] = call[k]
  BY <1>2, <1>3
<1> HIDE DEF cl1
<1>5. ModOK(set, ref, worker, cl1)
  BY <1>1, <1>2, <1>3, <1>4, CallComes
<1> QED BY <1>1, <1>5 DEF ModInv

(* ---- answers ---- *)

LEMMA RefThen ==
  ASSUME NEW rf, NEW rf1, NEW rf2, NEW m, NEW a1, NEW w1, NEW p1, NEW a2, NEW w2, NEW p2,
         RefIs(rf, rf1, m, a1, w1, p1), RefIs(rf1, rf2, m, a2, w2, p2)
  PROVE  RefIs(rf, rf2, m, a2, w2, p2)
BY Zenon DEF RefIs

LEMMA Answered ==
  ASSUME NEW t \in TableT, NEW m \in Modules, NEW p, p = t.ref[m].pending, p = 0 \/ p \in 1..Len(t.call),
         NEW r \in {-1, p}, NEW u, u = answer(t, m, r)
  PROVE  /\ u \in TableT /\ u.worker = t.worker
         /\ RefIs(t.ref, u.ref, m, t.ref[m].made, t.ref[m].worker, 0) /\ Ended(t.call, u.call, p)
<1>1. CASE p = 0
  <2>1. u = t
    BY <1>1 DEF answer
  <2>2. t.ref \in [Modules -> RefT] /\ t.call \in Seq(CallT)
    BY DEF TableT
  <2>3. RefIs(t.ref, t.ref, m, t.ref[m].made, t.ref[m].worker, 0)
    BY <1>1, <2>2, Zenon DEF RefIs
  <2>4. Ended(t.call, t.call, p)
    BY <1>1, <2>2, Zenon DEF Ended, But
  <2> QED BY <2>1, <2>3, <2>4, Zenon
<1>2. CASE p \in 1..Len(t.call)
  <2>1. t.call \in Seq(CallT)
    BY DEF TableT
  <2>2. r \in Int /\ r \in {0, -1, p}
    BY <1>2, <2>1
  <2>3. /\ u \in TableT /\ u.worker = t.worker
        /\ RefIs(t.ref, u.ref, m, t.ref[m].made, t.ref[m].worker, 0)
        /\ CallIs(t.call, u.call, p, "done", t.call[p].worker, r)
    BY <1>2, <2>2, AnswerIs
  <2>4. Ended(t.call, u.call, p)
    BY <2>2, <2>3, Zenon DEF Ended, CallIs
  <2> QED BY <2>3, <2>4
<1> QED BY <1>1, <1>2

LEMMA PendingCall ==
  ASSUME NEW st, NEW rf, NEW wk, NEW cl, ModOK(st, rf, wk, cl), NEW m \in Modules
  PROVE  rf[m].pending = 0 \/ (rf[m].pending \in 1..Len(cl) /\ cl[rf[m].pending].mod = m /\ cl[rf[m].pending].stage = "running")
BY Zenon DEF ModOK, RefOK

LEMMA ExpiresNext ==
  ASSUME ModInv, NEW c \in 1..Len(call), Expires(c)
  PROVE  ModInv'
<1> DEFINE m == call[c].mod
           w == call[c].worker
           b == Table
           a == answer(b, m, -1)
           q == [a EXCEPT !.ref[m].worker = 0]
           u == Kill(q, w)
<1>1. call[c].stage = "running" /\ set' = set /\ TableIs(u)
  BY Zenon DEF Expires, MODULE_FAILED
<1>2. b \in TableT /\ b.ref = ref /\ b.worker = worker /\ b.call = call /\ ModOK(set, ref, worker, call)
  BY TableGood DEF Has, ModInv
<1>3. m \in Modules /\ ref \in [Modules -> RefT] /\ worker \in Seq(WorkerT) /\ call \in Seq(CallT)
  BY <1>2, CallMods DEF TableT
<1>4. ref[m].pending = c /\ w # 0 /\ ref[m].worker = w
  BY <1>1, <1>2 DEF ModOK, CallOK, Runs
<1>5. w \in 1..Len(worker) /\ worker[w].mod = m
  BY <1>2, <1>3, <1>4, Zenon DEF ModOK, RefOK
<1>6. worker[w].load # "loading"
  <2> SUFFICES ASSUME worker[w].load = "loading" PROVE FALSE
    OBVIOUS
  <2>1. Wanted(ref, call, w, worker[w]) /\ SetOK(set, ref, call) /\ Len(call) > 0
    BY <1>2, <1>3, <1>5 DEF ModOK, WorkerOK
  <2>2. ref[m].made = "loaded"
    BY <1>3, <2>1 DEF SetOK
  <2>3. PICK d \in 1..Len(call) : call[d].stage = "loading" /\ call[d].worker = w
    BY <1>5, <2>1, <2>2 DEF Wanted
  <2>4. call[d].mod = m
    BY <1>2, <1>5, <2>3 DEF ModOK, CallOK, Awaits
  <2>5. d = c
    BY <1>1, <1>2, <2>3, <2>4, OneCall
  <2> QED BY <1>1, <2>3, <2>5
<1> HIDE DEF b, m, w
<1>7. a \in TableT /\ a.worker = worker /\ RefIs(ref, a.ref, m, ref[m].made, ref[m].worker, 0) /\ Ended(call, a.call, c)
  <2>1. c = b.ref[m].pending /\ c \in 1..Len(b.call)
    BY <1>2, <1>4
  <2>2. /\ a \in TableT /\ a.worker = b.worker
        /\ RefIs(b.ref, a.ref, m, b.ref[m].made, b.ref[m].worker, 0) /\ Ended(b.call, a.call, c)
    <3>1. -1 \in {-1, c}
      OBVIOUS
    <3> QED BY <1>2, <1>3, <2>1, <3>1, Answered, Zenon
  <2> QED BY <1>2, <2>2, Zenon
<1> HIDE DEF a
<1>8. q \in TableT /\ q.worker = worker /\ q.call = a.call /\ RefIs(ref, q.ref, m, ref[m].made, 0, 0)
  <2>1. /\ q \in TableT /\ q.worker = a.worker /\ q.call = a.call
        /\ RefIs(a.ref, q.ref, m, a.ref[m].made, 0, a.ref[m].pending)
    BY <1>3, <1>7, AttachSet
  <2>2. a.ref[m].made = ref[m].made /\ a.ref[m].pending = 0
    BY <1>7, Zenon DEF RefIs
  <2>3. RefIs(a.ref, q.ref, m, ref[m].made, 0, 0)
    BY <2>1, <2>2, Zenon
  <2> QED BY <1>7, <2>1, <2>3, RefThen
<1> HIDE DEF q
<1>9. /\ u \in TableT /\ u.ref = q.ref /\ u.call = q.call
      /\ WorkerIs(worker, u.worker, w, worker[w].load, FALSE, worker[w].posted)
  <2>1. w \in 1..Len(q.worker)
    BY <1>5, <1>8
  <2>2. /\ u \in TableT /\ u.ref = q.ref /\ u.call = q.call
        /\ WorkerIs(q.worker, u.worker, w, q.worker[w].load, FALSE, q.worker[w].posted)
    BY <1>4, <1>8, <2>1, KillIs, Zenon
  <2> QED BY <1>8, <2>2, Zenon
<1> HIDE DEF u
<1>10. ModOK(set, ref, u.worker, call)
  <2>1. /\ u.worker \in Seq(WorkerT) /\ But(worker, u.worker, w) /\ u.worker[w].mod = worker[w].mod
        /\ u.worker[w].load = worker[w].load /\ u.worker[w].posted = worker[w].posted /\ ~u.worker[w].alive
    BY <1>9, Zenon DEF WorkerIs
  <2>2. Says(ref, call, w, worker[w]) /\ Loads(ref, w, worker[w])
    BY <1>2, <1>5 DEF ModOK, WorkerOK
  <2>3. worker[w].load = "spawning" => u.worker[w].posted = {}
    BY <2>1, <2>2, Zenon DEF Loads
  <2>4. Says(ref, call, w, u.worker[w])
    BY <2>1, <2>2, Zenon DEF Says
  <2> QED BY <1>2, <1>5, <2>1, <2>3, <2>4, WorkerSays, Zenon
<1>11. Leaves(ref, u.worker, m, 0)
  BY <1>4, <1>6, <1>9, Zenon DEF Leaves, WorkerIs
<1>12. ModOK(set, u.ref, u.worker, u.call)
  BY <1>3, <1>4, <1>7, <1>8, <1>9, <1>10, <1>11, CallEnds, Zenon
<1>13. Good(set', u)
  BY <1>1, <1>9, <1>12 DEF Good
<1> QED BY <1>1, <1>13, TableNext

(* A result is of the call in flight, and the only one posted. *)
LEMMA ResultNext ==
  ASSUME ModInv, NEW w \in 1..Len(worker), NEW msg \in worker[w].posted, msg.type = "result", set' = set,
         NEW t, Taken(t, Table, w, msg), TableIs(OnResult(t, w, msg.of))
  PROVE  ModInv'
<1> DEFINE m == t.worker[w].mod
           p == ref[m].pending
<1>1. /\ Good(set, t) /\ t.ref = ref /\ t.call = call
      /\ WorkerIs(worker, t.worker, w, worker[w].load, worker[w].alive, worker[w].posted \ {msg})
  BY TakenGood, Zenon
<1>2. CASE ~Current(t, w)
  <2>1. OnResult(t, w, msg.of) = t
    BY <1>2, Zenon DEF OnResult
  <2> QED BY <1>1, <2>1, TableNext, Zenon
<1>3. CASE Current(t, w)
  <2> DEFINE u == answer(t, m, msg.of)
  <2>1. TableIs(u)
    BY <1>3, Zenon DEF OnResult
  <2>2. /\ t \in TableT /\ t.worker \in Seq(WorkerT) /\ ModOK(set, ref, t.worker, call)
        /\ But(worker, t.worker, w) /\ m = worker[w].mod /\ t.worker[w].posted = worker[w].posted \ {msg}
    BY <1>1, Zenon DEF Good, WorkerIs
  <2>3. w \in 1..Len(t.worker) /\ ref[m].worker = w
    BY <1>1, <1>3, <2>2 DEF Current, But
  <2>4. m \in Modules
    BY <2>2, <2>3, WorkerMods
  <2>5. ModOK(set, ref, worker, call) /\ worker \in Seq(WorkerT) /\ Says(ref, call, w, worker[w])
    BY DEF ModInv, ModOK, WorkerOK, Shape
  <2>6. \A x \in worker[w].posted : x.type = "result" =>
          x.of \in 1..Len(call) /\ call[x.of].stage = "running" /\ call[x.of].mod = m
    BY <2>2, <2>3, <2>5, Zenon DEF Says
  <2>7. \A x \in worker[w].posted : x.type = "result" => x.of = msg.of
    BY <2>5, <2>6, OneCall
  <2>8. msg.of = p /\ p \in 1..Len(call) /\ p # 0
    BY <2>5, <2>6 DEF ModOK, CallOK, Runs
  <2>9. \A x \in t.worker[w].posted : x.type # "result"
    <3> SUFFICES ASSUME NEW x \in worker[w].posted, x.type = "result" PROVE x = msg
      BY <2>2
    <3>1. worker[w] \in WorkerT
      BY <2>5
    <3>2. x \in MsgT /\ msg \in MsgT
      BY <3>1 DEF WorkerT
    <3> QED BY <2>7, <3>2 DEF MsgT
  <2> HIDE DEF m
  <2>10. /\ u \in TableT /\ u.worker = t.worker /\ RefIs(ref, u.ref, m, ref[m].made, ref[m].worker, 0) /\ Ended(call, u.call, p)
    <3>1. p = t.ref[m].pending /\ p \in 1..Len(t.call) /\ u = answer(t, m, p)
      BY <1>1, <2>8
    <3>2. p \in {-1, p}
      BY SMTT(30)
    <3> HIDE DEF p, u
    <3>3. /\ u \in TableT /\ u.worker = t.worker
          /\ RefIs(t.ref, u.ref, m, t.ref[m].made, t.ref[m].worker, 0) /\ Ended(t.call, u.call, p)
      BY <2>2, <2>4, <3>1, <3>2, Answered
    <3> QED BY <1>1, <3>3, Zenon
  <2> HIDE DEF u
  <2>11. Leaves(ref, t.worker, m, ref[m].worker)
    BY <2>3, <2>9, Zenon DEF Leaves
  <2>12. ModOK(set, u.ref, t.worker, u.call)
    BY <2>2, <2>4, <2>10, <2>11, CallEnds, Zenon
  <2>13. Good(set', u)
    BY <2>10, <2>12 DEF Good
  <2> QED BY <2>1, <2>13, TableNext
<1> QED BY <1>2, <1>3

(* A crash is found out: of a load, or of the module's worker. *)
LEMMA ErrorNext ==
  ASSUME ModInv, NEW w \in 1..Len(worker), NEW msg \in worker[w].posted, msg.type = "error", set' = set,
         NEW t, Taken(t, Table, w, msg), TableIs(OnError(t, w))
  PROVE  ModInv'
<1> DEFINE m == t.worker[w].mod
           p == ref[m].pending
<1>1. /\ Good(set, t) /\ t.ref = ref /\ t.call = call
      /\ WorkerIs(worker, t.worker, w, worker[w].load, worker[w].alive, worker[w].posted \ {msg})
  BY TakenGood, Zenon
<1>2. /\ t \in TableT /\ t.worker \in Seq(WorkerT) /\ ModOK(set, ref, t.worker, call)
      /\ But(worker, t.worker, w) /\ t.worker[w].load = worker[w].load /\ t.worker[w].alive = worker[w].alive
  BY <1>1, Zenon DEF Good, WorkerIs
<1>3. w \in 1..Len(t.worker)
  BY <1>2 DEF But
<1>4. m \in Modules
  BY <1>2, <1>3, WorkerMods
<1>5. CASE t.worker[w].load = "loading"
  <2>1. TableIs(LoadFails(t, w))
    BY <1>5, Zenon DEF OnError
  <2>2. Good(set, LoadFails(t, w))
    <3>1. t.worker[w].load \in {"spawning", "loading"} /\ Has(t, ref, t.worker, call) /\ But(t.worker, t.worker, w)
      BY <1>1, <1>2, <1>5 DEF Has, But
    <3> QED BY <1>2, <1>3, <3>1, LoadFailsGood
  <2> QED BY <2>1, <2>2, TableNext
<1>6. CASE t.worker[w].load = "loaded" /\ Current(t, w)
  <2> DEFINE q == [t EXCEPT !.ref[m].worker = 0]
             u == answer(q, m, -1)
  <2>1. TableIs(u)
    <3>1. t.worker[w].load # "loading"
      BY <1>6
    <3> QED BY <1>6, <3>1, Zenon DEF OnError, MODULE_FAILED
  <2>2. ref[m].worker = w
    BY <1>1, <1>6 DEF Current
  <2>3. ~t.worker[w].alive
    <3>1. Says(ref, call, w, worker[w])
      BY DEF ModInv, ModOK, WorkerOK
    <3>2. ~worker[w].alive
      BY <3>1, Zenon DEF Says
    <3> QED BY <1>2, <3>2, Zenon
  <2>4. p = 0 \/ p \in 1..Len(call)
    BY <1>2, <1>4, PendingCall
  <2>5. Leaves(ref, t.worker, m, 0)
    BY <1>6, <2>2, <2>3 DEF Leaves
  <2> HIDE DEF m
  <2>6. q \in TableT /\ q.worker = t.worker /\ q.call = call /\ RefIs(ref, q.ref, m, ref[m].made, 0, p)
    <3>1. /\ q \in TableT /\ q.worker = t.worker /\ q.call = t.call
          /\ RefIs(t.ref, q.ref, m, t.ref[m].made, 0, t.ref[m].pending)
      <4>1. 0 \in Nat
        OBVIOUS
      <4> QED BY <1>2, <1>4, <4>1, AttachSet, Zenon
    <3> QED BY <1>1, <3>1, Zenon
  <2> HIDE DEF q
  <2>7. /\ p = q.ref[m].pending /\ ref[m].made = q.ref[m].made /\ 0 = q.ref[m].worker
        /\ q.call = call /\ (p = 0 \/ p \in 1..Len(q.call))
    <3>1. p = q.ref[m].pending /\ ref[m].made = q.ref[m].made /\ 0 = q.ref[m].worker
      BY <2>6, Zenon DEF RefIs
    <3> QED BY <2>4, <2>6, <3>1
  <2> HIDE DEF p
  <2>8. /\ u \in TableT /\ u.worker = q.worker
        /\ RefIs(q.ref, u.ref, m, q.ref[m].made, q.ref[m].worker, 0) /\ Ended(q.call, u.call, p)
    <3>1. -1 \in {-1, p}
      OBVIOUS
    <3> QED BY <1>4, <2>6, <2>7, <3>1, Answered, ZenonT(40)
  <2> HIDE DEF u
  <2>9. RefIs(q.ref, u.ref, m, ref[m].made, 0, 0) /\ Ended(call, u.call, p) /\ u.worker = t.worker
    BY <2>6, <2>7, <2>8, Zenon
  <2>10. RefIs(ref, u.ref, m, ref[m].made, 0, 0)
    BY <2>6, <2>9, RefThen
  <2>11. p = ref[m].pending
    BY DEF p
  <2>12. ModOK(set, u.ref, t.worker, u.call)
    BY <1>2, <1>4, <2>5, <2>9, <2>10, <2>11, CallEnds, Zenon
  <2>13. Good(set', u)
    BY <2>8, <2>9, <2>12 DEF Good
  <2> QED BY <2>1, <2>13, TableNext
<1>7. CASE t.worker[w].load # "loading" /\ ~(t.worker[w].load = "loaded" /\ Current(t, w))
  <2>1. OnError(t, w) = t
    BY <1>7, Zenon DEF OnError
  <2> QED BY <1>1, <2>1, TableNext, Zenon
<1> QED BY <1>5, <1>6, <1>7, Zenon

(* A load's answer is read. *)
LEMMA LoadNext ==
  ASSUME ModInv, NEW w \in 1..Len(worker), NEW msg \in worker[w].posted, set' = set,
         NEW t, Taken(t, Table, w, msg),
         \/ TableIs(OnReady(t, w))
         \/ TableIs(IF t.worker[w].load = "loading" THEN LoadFails(t, w) ELSE t)
  PROVE  ModInv'
<1> DEFINE m == t.worker[w].mod
<1>1. /\ Good(set, t) /\ t.ref = ref /\ t.call = call
      /\ WorkerIs(worker, t.worker, w, worker[w].load, worker[w].alive, worker[w].posted \ {msg})
  BY TakenGood, Zenon
<1>2. t \in TableT /\ t.worker \in Seq(WorkerT) /\ ModOK(set, ref, t.worker, call) /\ But(worker, t.worker, w)
  BY <1>1, Zenon DEF Good, WorkerIs
<1>3. w \in 1..Len(t.worker)
  BY <1>2 DEF But
<1>4. CASE TableIs(t)
  BY <1>1, <1>4, TableNext, Zenon
<1>5. CASE t.worker[w].load = "loading" /\ TableIs(LoadFails(t, w))
  <2>1. t.worker[w].load \in {"spawning", "loading"} /\ Has(t, ref, t.worker, call) /\ But(t.worker, t.worker, w)
    BY <1>1, <1>2, <1>5 DEF Has, But
  <2>2. Good(set, LoadFails(t, w))
    BY <1>2, <1>3, <2>1, LoadFailsGood
  <2> QED BY <1>5, <2>2, TableNext
<1>6. CASE t.worker[w].load = "loading" /\ ~ref[m].dead /\ TableIs(LoadEnds(t, w))
  <2>1. ~t.ref[t.worker[w].mod].dead
    BY <1>1, <1>6, Zenon
  <2>2. Good(set, LoadEnds(t, w))
    BY <1>1, <1>3, <1>6, <2>1, LoadEndsGood, Zenon
  <2> QED BY <1>6, <2>2, TableNext
<1> QED BY <1>4, <1>5, <1>6, Zenon DEF OnReady, ModuleReleased

(* A worker is started, or is not; or its load takes too long. *)
LEMMA SpawnedNext ==
  ASSUME ModInv, NEW w \in 1..Len(worker), Spawned(w)
  PROVE  ModInv'
<1> DEFINE m == worker[w].mod
           b == Table
           up == [b EXCEPT !.worker[w].alive = TRUE, !.worker[w].load = "loading"]
<1>1. b \in TableT /\ b.ref = ref /\ b.worker = worker /\ b.call = call /\ ModOK(set, ref, worker, call)
  BY TableGood DEF Has, ModInv
<1>2. worker[w].load = "spawning" /\ set' = set /\ worker \in Seq(WorkerT) /\ w \in Nat
  BY <1>1 DEF Spawned, TableT
<1>3. m \in Modules
  BY <1>2, WorkerMods
<1>4. TableIs(IF ref[m].dead THEN LoadFails(up, w) ELSE [up EXCEPT !.ref[m].worker = w])
  BY Zenon DEF Spawned, ModuleReleased
<1> HIDE DEF b
<1>5. up \in TableT /\ up.ref = ref /\ up.call = call /\ WorkerIs(worker, up.worker, w, "loading", TRUE, worker[w].posted)
  <2>1. w \in 1..Len(b.worker)
    BY <1>1
  <2>2. /\ up \in TableT /\ up.ref = b.ref /\ up.call = b.call
        /\ WorkerIs(b.worker, up.worker, w, "loading", TRUE, b.worker[w].posted)
    BY <1>1, <2>1, AliveSet
  <2> QED BY <1>1, <2>2, Zenon
<1> HIDE DEF up
<1>6. CASE ref[m].dead
  <2>1. /\ worker[w].load \in {"spawning", "loading"} /\ Has(up, ref, up.worker, call) /\ But(worker, up.worker, w)
        /\ up.worker[w].mod = worker[w].mod /\ up.worker[w].posted = worker[w].posted
    BY <1>2, <1>5 DEF Has, WorkerIs
  <2>2. Good(set, LoadFails(up, w))
    BY <1>1, <2>1, LoadFailsGood
  <2> QED BY <1>2, <1>4, <1>6, <2>2, TableNext, Zenon
<1>7. CASE ~ref[m].dead
  <2> DEFINE u == [up EXCEPT !.ref[m].worker = w]
  <2>1. TableIs(u)
    BY <1>4, <1>7, Zenon
  <2>2. /\ u \in TableT /\ u.worker = up.worker /\ u.call = up.call
        /\ RefIs(up.ref, u.ref, m, up.ref[m].made, w, up.ref[m].pending)
    BY <1>2, <1>3, <1>5, AttachSet
  <2> HIDE DEF u
  <2>3. RefIs(ref, u.ref, m, ref[m].made, w, ref[m].pending) /\ worker[w].load \in {"spawning", "loading"}
    BY <1>2, <1>5, <2>2, Zenon
  <2>4. ModOK(set, u.ref, up.worker, call)
    BY <1>1, <1>2, <1>3, <1>5, <1>7, <2>3, Attaches, Zenon
  <2>5. Good(set', u)
    BY <1>2, <1>5, <2>2, <2>4, Zenon DEF Good
  <2> QED BY <2>1, <2>5, TableNext
<1> QED BY <1>6, <1>7

LEMMA NoLoadNext ==
  ASSUME ModInv, NEW w \in 1..Len(worker), SpawnFails(w) \/ LoadExpires(w)
  PROVE  ModInv'
<1> DEFINE b == Table
<1>1. /\ b \in TableT /\ b.ref = ref /\ b.worker = worker /\ b.call = call /\ ModOK(set, ref, worker, call)
      /\ Has(b, ref, worker, call)
  BY TableGood DEF Has, ModInv
<1>2. worker[w].load \in {"spawning", "loading"} /\ set' = set /\ TableIs(LoadFails(b, w)) /\ But(worker, worker, w)
  BY DEF SpawnFails, LoadExpires, But
<1> HIDE DEF b
<1>3. Good(set, LoadFails(b, w))
  BY <1>1, <1>2, LoadFailsGood
<1> QED BY <1>2, <1>3, TableNext

LEMMA ReadsNext ==
  ASSUME ModInv, NEW w \in 1..Len(worker), NEW msg \in worker[w].posted, Reads(w, msg)
  PROVE  ModInv'
<1> DEFINE t == [Table EXCEPT !.worker[w].posted = @ \ {msg}]
<1>1. set' = set /\ Taken(t, Table, w, msg)
  BY DEF Reads, Taken
<1>2. \/ msg.type = "result" /\ TableIs(OnResult(t, w, msg.of))
      \/ TableIs(OnReady(t, w))
      \/ TableIs(IF t.worker[w].load = "loading" THEN LoadFails(t, w) ELSE t)
      \/ msg.type = "error" /\ TableIs(OnError(t, w))
  BY Zenon DEF Reads
<1> HIDE DEF t
<1>3. CASE msg.type = "result" /\ TableIs(OnResult(t, w, msg.of))
  BY <1>1, <1>3, ResultNext
<1>4. CASE TableIs(OnReady(t, w)) \/ TableIs(IF t.worker[w].load = "loading" THEN LoadFails(t, w) ELSE t)
  BY <1>1, <1>4, LoadNext
<1>5. CASE msg.type = "error" /\ TableIs(OnError(t, w))
  BY <1>1, <1>5, ErrorNext
<1> QED BY <1>2, <1>3, <1>4, <1>5

LEMMA PostsNext ==
  ASSUME ModInv, NEW w \in 1..Len(worker), NEW msg \in Messages, Posts(w, msg)
  PROVE  ModInv'
<1> DEFINE p == worker[w].posted \union {msg}
           v == [worker[w] EXCEPT !.posted = p]
           wk1 == [worker EXCEPT ![w] = v]
<1>1. worker[w].alive /\ set' = set /\ ref' = ref /\ call' = call
  BY DEF Posts
<1>2. ModOK(set, ref, worker, call) /\ worker \in Seq(WorkerT) /\ call \in Seq(CallT)
  BY DEF ModInv, ModOK, Shape
<1>3. /\ Held(ref, w, worker[w]) /\ Loads(ref, w, worker[w]) /\ Says(ref, call, w, worker[w]) /\ RefOK(ref, worker, call)
      /\ \A c \in 1..Len(call) : Runs(ref, c, call[c])
  BY <1>2 DEF ModOK, WorkerOK, CallOK
<1>4. worker[w] \in WorkerT
  BY <1>2
<1>5. worker' = wk1
  BY <1>4 DEF Posts, WorkerT
<1>6. msg \in MsgT /\ msg.type # "error"
  <2>1. Len(call) \in Nat
    BY <1>2
  <2>2. msg \in MsgT
    BY <2>1 DEF Messages, Calls, MsgT
  <2> QED BY <2>2 DEF Posts
<1>7. v \in WorkerT /\ v.mod = worker[w].mod /\ v.load = worker[w].load /\ v.posted = p /\ v.alive = worker[w].alive
  BY <1>4, <1>6 DEF WorkerT
<1> HIDE DEF v
<1>8. wk1 \in Seq(WorkerT) /\ But(worker, wk1, w) /\ wk1[w] = v
  BY <1>2, <1>7 DEF But
<1> HIDE DEF wk1
<1>9. worker[w].load # "spawning"
  BY <1>1, <1>3 DEF Held, Loads
<1>10. msg.type = "result" => /\ msg.of \in 1..Len(call) /\ call[msg.of].stage = "running"
                              /\ call[msg.of].worker = w /\ call[msg.of].mod = worker[w].mod
  <2> SUFFICES ASSUME msg.type = "result" PROVE /\ msg.of \in 1..Len(call) /\ call[msg.of].stage = "running"
                              /\ call[msg.of].worker = w /\ call[msg.of].mod = worker[w].mod
    OBVIOUS
  <2>1. msg.of \in 1..Len(call) /\ call[msg.of].stage = "running" /\ call[msg.of].worker = w
    BY DEF Posts, Messages, Calls
  <2>2. call[msg.of].mod \in Modules /\ ref[call[msg.of].mod].worker = w /\ w # 0
    BY <1>2, <1>3, <2>1, CallMods DEF Runs
  <2>3. worker[w].mod = call[msg.of].mod
    BY <1>3, <2>2 DEF RefOK
  <2> QED BY <2>1, <2>3
<1>11. Says(ref, call, w, wk1[w])
  <2> SUFFICES ASSUME NEW x \in p
               PROVE  /\ x.type = "error" => ~v.alive
                      /\ x.type = "result" /\ ref[v.mod].worker = w =>
                           /\ x.of \in 1..Len(call) /\ call[x.of].stage = "running"
                           /\ call[x.of].worker = w /\ call[x.of].mod = v.mod
    BY <1>7, <1>8, Zenon DEF Says
  <2>1. CASE x \in worker[w].posted
    BY <1>3, <1>7, <2>1, Zenon DEF Says
  <2>2. CASE x = msg
    BY <1>6, <1>7, <1>10, <2>2
  <2> QED BY <2>1, <2>2
<1>12. wk1[w].mod = worker[w].mod /\ wk1[w].load = worker[w].load /\ (wk1[w].alive => worker[w].alive)
  BY <1>7, <1>8, Zenon
<1>13. ModOK(set, ref, wk1, call)
  BY <1>2, <1>8, <1>9, <1>11, <1>12, WorkerSays, Zenon
<1> QED BY <1>1, <1>5, <1>13, Zenon DEF ModInv

LEMMA CrashNext ==
  ASSUME ModInv, NEW w \in 1..Len(worker), Crashes(w)
  PROVE  ModInv'
<1> DEFINE e == [type |-> "error", of |-> 0]
           p == worker[w].posted \union {e}
           v == [worker[w] EXCEPT !.alive = FALSE, !.posted = p]
           wk1 == [worker EXCEPT ![w] = v]
<1>1. worker[w].load # "spawning" /\ set' = set /\ ref' = ref /\ call' = call
  BY DEF Crashes
<1>2. ModOK(set, ref, worker, call) /\ worker \in Seq(WorkerT) /\ Says(ref, call, w, worker[w])
  BY DEF ModInv, ModOK, Shape, WorkerOK
<1>3. worker[w] \in WorkerT /\ e \in MsgT
  BY <1>2 DEF MsgT
<1>4. worker' = wk1
  BY <1>3 DEF Crashes, WorkerT
<1>5. v \in WorkerT /\ v.mod = worker[w].mod /\ v.load = worker[w].load /\ v.posted = p /\ ~v.alive
  <2> HIDE DEF e
  <2> QED BY <1>3 DEF WorkerT
<1>6. \A x \in p : x \in worker[w].posted \/ x.type # "result"
  OBVIOUS
<1> HIDE DEF v, e, p
<1>7. wk1 \in Seq(WorkerT) /\ But(worker, wk1, w) /\ wk1[w] = v
  BY <1>2, <1>5 DEF But
<1> HIDE DEF wk1
<1>8. Says(ref, call, w, wk1[w])
  BY <1>2, <1>5, <1>6, <1>7, Zenon DEF Says
<1>9. wk1[w].mod = worker[w].mod /\ wk1[w].load = worker[w].load /\ (wk1[w].alive => worker[w].alive)
  BY <1>5, <1>7, Zenon
<1>10. ModOK(set, ref, wk1, call)
  BY <1>1, <1>2, <1>7, <1>8, <1>9, WorkerSays, Zenon
<1> QED BY <1>1, <1>4, <1>10, Zenon DEF ModInv

(* ---- the set ---- *)

LEMMA TeardownIs ==
  ASSUME NEW t \in TableT, NEW R \in SUBSET Modules, NEW u, u = Teardown(t, R)
  PROVE  u \in TableT /\ TornDown(t.ref, t.worker, t.call, u.ref, u.worker, u.call, R)
<1> DEFINE gone(m) == [t.ref[m] EXCEPT !.dead = TRUE, !.pending = 0, !.worker = 0]
           off(w) == [t.worker[w] EXCEPT !.alive = FALSE]
           r == -1
           over(c) == [t.call[c] EXCEPT !.stage = "done", !.answer = r]
           rf == [m \in Modules |-> IF m \in R THEN gone(m) ELSE t.ref[m]]
           wk == [w \in 1..Len(t.worker) |-> IF w \in {t.ref[m].worker : m \in R} THEN off(w) ELSE t.worker[w]]
           cl == [c \in 1..Len(t.call) |-> IF c \in {t.ref[m].pending : m \in R} THEN over(c) ELSE t.call[c]]
<1>0. t.ref \in [Modules -> RefT] /\ t.worker \in Seq(WorkerT) /\ t.call \in Seq(CallT)
  BY DEF TableT
<1>1. u = [ref |-> rf, worker |-> wk, call |-> cl]
  BY Zenon DEF Teardown, MODULE_FAILED
<1>2. ASSUME NEW m \in R
      PROVE  gone(m) \in RefT /\ gone(m).made = t.ref[m].made /\ gone(m).dead /\ gone(m).pending = 0 /\ gone(m).worker = 0
  BY <1>0 DEF RefT
<1>3. ASSUME NEW w \in 1..Len(t.worker)
      PROVE  /\ off(w) \in WorkerT /\ off(w).mod = t.worker[w].mod /\ off(w).load = t.worker[w].load
             /\ off(w).posted = t.worker[w].posted /\ ~off(w).alive /\ t.worker[w] \in WorkerT
  <2>1. t.worker[w] \in WorkerT
    BY <1>0
  <2> QED BY <2>1 DEF WorkerT
<1>4. ASSUME NEW c \in 1..Len(t.call)
      PROVE  /\ over(c) \in CallT /\ over(c).mod = t.call[c].mod /\ over(c).worker = t.call[c].worker
             /\ over(c).stage = "done" /\ over(c).answer = -1 /\ t.call[c] \in CallT
  <2>1. t.call[c] \in CallT
    BY <1>0
  <2>2. r = -1 /\ r \in Int
    OBVIOUS
  <2> HIDE DEF r
  <2> QED BY <2>1, <2>2 DEF CallT
<1> HIDE DEF gone, off, over
<1>5. rf \in [Modules -> RefT] /\ \A m \in Modules \ R : rf[m] = t.ref[m]
  BY <1>0, <1>2
<1>6. \A m \in R : rf[m].made = t.ref[m].made /\ rf[m].dead /\ rf[m].pending = 0 /\ rf[m].worker = 0
  <2> SUFFICES ASSUME NEW m \in R
               PROVE  rf[m].made = t.ref[m].made /\ rf[m].dead /\ rf[m].pending = 0 /\ rf[m].worker = 0
    BY Zenon
  <2>1. rf[m] = gone(m)
    OBVIOUS
  <2> HIDE DEF rf
  <2> QED BY <1>2, <2>1, Zenon
<1>7. wk \in Seq(WorkerT) /\ Len(wk) = Len(t.worker)
  <2>1. Len(t.worker) \in Nat
    BY <1>0
  <2>2. wk \in [1..Len(t.worker) -> WorkerT]
    BY <1>3
  <2> HIDE DEF wk
  <2> QED BY <2>1, <2>2
<1>8. \A k \in 1..Len(t.worker) : /\ wk[k].mod = t.worker[k].mod /\ wk[k].load = t.worker[k].load /\ wk[k].posted = t.worker[k].posted
                                  /\ wk[k].alive => t.worker[k].alive /\ \A m \in R : t.ref[m].worker # k
  <2> SUFFICES ASSUME NEW k \in 1..Len(t.worker)
               PROVE  /\ wk[k].mod = t.worker[k].mod /\ wk[k].load = t.worker[k].load /\ wk[k].posted = t.worker[k].posted
                      /\ wk[k].alive => t.worker[k].alive /\ \A m \in R : t.ref[m].worker # k
    BY Zenon
  <2>1. CASE \E m \in R : t.ref[m].worker = k
    <3>1. wk[k] = off(k)
      BY <2>1
    <3> HIDE DEF wk
    <3> QED BY <1>3, <3>1, Zenon
  <2>2. CASE \A m \in R : t.ref[m].worker # k
    <3>1. wk[k] = t.worker[k]
      BY <2>2
    <3> HIDE DEF wk
    <3> QED BY <2>2, <3>1, Zenon
  <2> QED BY <2>1, <2>2, Zenon
<1>9. cl \in Seq(CallT) /\ Len(cl) = Len(t.call)
  <2>1. Len(t.call) \in Nat
    BY <1>0
  <2>2. cl \in [1..Len(t.call) -> CallT]
    BY <1>4
  <2> HIDE DEF cl
  <2> QED BY <2>1, <2>2
<1>10. \A c \in 1..Len(t.call) :
         /\ cl[c].mod = t.call[c].mod /\ cl[c].worker = t.call[c].worker
         /\ \/ (\E m \in R : t.ref[m].pending = c) /\ cl[c].stage = "done" /\ cl[c].answer = -1
            \/ (\A m \in R : t.ref[m].pending # c) /\ cl[c] = t.call[c]
  <2> SUFFICES ASSUME NEW c \in 1..Len(t.call)
               PROVE  /\ cl[c].mod = t.call[c].mod /\ cl[c].worker = t.call[c].worker
                      /\ \/ (\E m \in R : t.ref[m].pending = c) /\ cl[c].stage = "done" /\ cl[c].answer = -1
                         \/ (\A m \in R : t.ref[m].pending # c) /\ cl[c] = t.call[c]
    BY Zenon
  <2>1. CASE \E m \in R : t.ref[m].pending = c
    <3>1. cl[c] = over(c)
      BY <2>1
    <3> HIDE DEF cl
    <3> QED BY <1>4, <2>1, <3>1, Zenon
  <2>2. CASE \A m \in R : t.ref[m].pending # c
    <3>1. cl[c] = t.call[c]
      BY <2>2
    <3> HIDE DEF cl
    <3> QED BY <2>2, <3>1, Zenon
  <2> QED BY <2>1, <2>2, Zenon
<1> HIDE DEF rf, wk, cl
<1>11. u \in TableT /\ u.ref = rf /\ u.worker = wk /\ u.call = cl
  BY <1>1, <1>5, <1>7, <1>9 DEF TableT
<1> QED BY <1>5, <1>6, <1>7, <1>8, <1>9, <1>10, <1>11, Zenon DEF TornDown

LEMMA BuildNext ==
  ASSUME ModInv, BuildEnds \/ Dispose
  PROVE  ModInv'
<1> DEFINE b == Table
           R == {m \in Modules : ref[m].made = "loaded"}
           u == Teardown(b, R)
<1>1. b \in TableT /\ b.ref = ref /\ b.worker = worker /\ b.call = call /\ ModOK(set, ref, worker, call)
  BY TableGood DEF Has, ModInv
<1>2. CASE set = "building" /\ set' = "built" /\ ref' = ref /\ worker' = worker /\ call' = call
           /\ \A m \in Modules : ref[m].made # "loading" /\ ref[m].made # "failed"
  <2>1. \A m \in Modules : ref[m].made = "loaded"
    <3>1. \A m \in Modules : ref[m] \in RefT
      BY <1>1 DEF TableT
    <3> QED BY <1>2, <3>1 DEF RefT
  <2>2. ModOK("built", ref, worker, call)
    BY <1>1, <1>2, <2>1, Builds
  <2> QED BY <1>2, <2>2 DEF ModInv
<1>3. CASE /\ TableIs(u) /\ set' \in {"failed", "disposed"} /\ ((set' = "disposed") <=> (set = "built"))
           /\ \/ set = "building" /\ \A m \in Modules : ref[m].made # "loading"
              \/ set = "built"
  <2>1. R \in SUBSET Modules
    OBVIOUS
  <2> HIDE DEF b
  <2>2. u \in TableT /\ TornDown(b.ref, b.worker, b.call, u.ref, u.worker, u.call, R)
    <3> HIDE DEF R
    <3> QED BY <1>1, <2>1, TeardownIs
  <2> HIDE DEF u
  <2>3. TornDown(ref, worker, call, u.ref, u.worker, u.call, R)
    BY <1>1, <2>2, Zenon
  <2>4. R = {m \in Modules : ref[m].made = "loaded"}
    OBVIOUS
  <2>5. ModOK(set', u.ref, u.worker, u.call)
    <3> HIDE DEF R
    <3> QED BY <1>1, <1>3, <2>3, <2>4, Releases
  <2>6. Good(set', u)
    BY <2>2, <2>5 DEF Good
  <2> QED BY <1>3, <2>6, TableNext
<1>4. u = Built(b)
  BY DEF Built
<1> HIDE DEF u, b
<1> QED BY <1>2, <1>3, <1>4 DEF BuildEnds, Dispose, b

(* ---- the first workers: one for each module ---- *)

LEMMA SpawnIs == ASSUME NEW m \in Modules, NEW v, v = Spawn(m)
                 PROVE  v \in WorkerT /\ v.mod = m /\ v.load = "spawning" /\ ~v.alive /\ v.posted = {}
BY DEF Spawn, WorkerT

LEMMA ModStart ==
  ASSUME ModuleTableInit
  PROVE  ModInv
<1> DEFINE S == {Spawn(m) : m \in Modules}
           n == Cardinality(Modules)
<1>1. set = "building" /\ ref = [m \in Modules |-> spawn] /\ worker = SetToSeq(S) /\ call = << >>
  BY DEF ModuleTableInit
<1>2. IsFiniteSet(Modules)
  BY ModuleTableAssumption, Zenon
<1>3. n \in Nat /\ ExistsBijection(1..n, Modules)
  BY <1>2, FS_CardinalityType
<1>4. PICK f \in Bijection(1..n, Modules) : TRUE
  BY <1>3 DEF ExistsBijection
<1> HIDE DEF n
<1>5. /\ f \in [1..n -> Modules] /\ (\A i, j \in 1..n : f[i] = f[j] => i = j)
      /\ \A m \in Modules : \E i \in 1..n : f[i] = m
  BY <1>4 DEF Bijection, Injection, Surjection, IsInjective
<1> DEFINE g == [i \in 1..n |-> Spawn(f[i])]
<1>6. \A i \in 1..n : g[i] = Spawn(f[i]) /\ g[i].mod = f[i] /\ g[i] \in S
  BY <1>5, SpawnIs
<1>7. g \in [1..n -> S]
  BY <1>6
<1>8. (\A i, j \in 1..n : g[i] = g[j] => i = j) /\ \A v \in S : \E i \in 1..n : g[i] = v
  BY <1>5, <1>6, SMTT(30)
<1> HIDE DEF g, S
<1>9. g \in Bijection(1..n, S)
  BY <1>7, <1>8 DEF Bijection, Injection, Surjection, IsInjective
<1>10. Cardinality(S) = n
  BY <1>3, <1>9, FS_CountingElements DEF ExistsBijection
<1>12. IsInjective(g)
  BY <1>7, <1>8 DEF IsInjective
<1>13. worker \in [1..n -> S] /\ IsInjective(worker)
  <2>1. worker = CHOOSE h \in [1..n -> S] : IsInjective(h)
    BY <1>1, <1>10, Zenon DEF SetToSeq
  <2> QED BY <1>7, <1>12, <2>1, Zenon
<1>14. \A k \in 1..n : /\ worker[k] \in WorkerT /\ worker[k].mod \in Modules /\ worker[k] = Spawn(worker[k].mod)
                       /\ worker[k].load = "spawning" /\ ~worker[k].alive /\ worker[k].posted = {}
  <2> SUFFICES ASSUME NEW k \in 1..n
               PROVE  /\ worker[k] \in WorkerT /\ worker[k].mod \in Modules /\ worker[k] = Spawn(worker[k].mod)
                      /\ worker[k].load = "spawning" /\ ~worker[k].alive /\ worker[k].posted = {}
    BY Zenon
  <2>1. worker[k] \in S
    BY <1>13
  <2>2. PICK m \in Modules : worker[k] = Spawn(m)
    BY <2>1 DEF S
  <2>3. /\ worker[k] \in WorkerT /\ worker[k].mod = m
        /\ worker[k].load = "spawning" /\ ~worker[k].alive /\ worker[k].posted = {}
    BY <2>2, SpawnIs, Zenon
  <2> QED BY <2>2, <2>3, Zenon
<1>15. worker \in Seq(WorkerT) /\ Len(worker) = n
  <2>1. worker \in [1..n -> WorkerT]
    BY <1>13, <1>14
  <2> QED BY <1>3, <2>1
<1>16. \A k, j \in 1..n : worker[k].mod = worker[j].mod => k = j
  <2> SUFFICES ASSUME NEW k \in 1..n, NEW j \in 1..n, worker[k].mod = worker[j].mod PROVE k = j
    BY Zenon
  <2>1. worker[k] = worker[j]
    BY <1>14, Zenon
  <2>2. DOMAIN worker = 1..n
    BY <1>13
  <2> QED BY <1>13, <2>1, <2>2, Zenon DEF IsInjective
<1>17. ref \in [Modules -> RefT] /\ \A m \in Modules : /\ ref[m].made = "loading" /\ ref[m].worker = 0
                                                       /\ ref[m].pending = 0 /\ ~ref[m].dead
  BY <1>1 DEF spawn, RefT
<1>18. call \in Seq(CallT) /\ Len(call) = 0
  BY <1>1
<1>19. Shape(set, ref, worker, call) /\ SetOK(set, ref, call) /\ RefOK(ref, worker, call) /\ CallOK(ref, worker, call)
  BY <1>1, <1>15, <1>17, <1>18 DEF Shape, SetOK, RefOK, CallOK
<1>20. ASSUME NEW k \in 1..Len(worker)
       PROVE  /\ Held(ref, k, worker[k]) /\ Wanted(ref, call, k, worker[k]) /\ Alone(ref, worker, k)
              /\ Loads(ref, k, worker[k]) /\ Says(ref, call, k, worker[k])
  <2>1. /\ worker[k].mod \in Modules /\ worker[k].load = "spawning" /\ ~worker[k].alive /\ worker[k].posted = {}
        /\ \A j \in 1..Len(worker) : worker[j].mod = worker[k].mod => j = k
    BY <1>14, <1>15, <1>16
  <2>2. ref[worker[k].mod].made = "loading" /\ ref[worker[k].mod].worker = 0
    BY <1>17, <2>1
  <2> QED BY <2>1, <2>2 DEF Held, Wanted, Alone, Loads, Says
<1>21. WorkerOK(ref, worker, call)
  BY <1>20 DEF WorkerOK
<1> QED BY <1>19, <1>21 DEF ModInv, ModOK

LEMMA ModStep ==
  ASSUME ModInv, [ModuleTableNext]_(moduleTableVars)
  PROVE  ModInv'
<1>1. CASE UNCHANGED moduleTableVars
  BY <1>1, Zenon DEF ModInv, moduleTableVars
<1>2. CASE ModuleTableNext
  <2>1. CASE \E m \in Modules : CallModule(m)
    BY <2>1, CallNext
  <2>2. CASE \E c \in 1..Len(call) : Turn(c) \/ Expires(c)
    BY <2>2, TurnNext, ExpiresNext
  <2>3. CASE \E w \in 1..Len(worker) : Spawned(w) \/ SpawnFails(w) \/ LoadExpires(w) \/ Crashes(w)
    BY <2>3, SpawnedNext, NoLoadNext, CrashNext
  <2>4. CASE \E w \in 1..Len(worker), msg \in Messages : Posts(w, msg)
    BY <2>4, PostsNext
  <2>5. CASE \E w \in 1..Len(worker) : \E msg \in worker[w].posted : Reads(w, msg)
    BY <2>5, ReadsNext
  <2>6. CASE BuildEnds \/ Dispose
    BY <2>6, BuildNext
  <2> QED BY <1>2, <2>1, <2>2, <2>3, <2>4, <2>5, <2>6, Zenon DEF ModuleTableNext, Calls, Workers
<1> QED BY <1>1, <1>2

-----------------------------------------------------------------------------
(* What answers a call, if not a failure, is what it made its own worker   *)
(* compute (module-table.ts, load): whatever a killed or crashed worker    *)
(* still delivers, and however calls, deadlines and reloads interleave.    *)
THEOREM AnsweredByItsOwnHolds == ModuleTableSpec => []AnsweredByItsOwn
<1>1. ModuleTableInit => ModInv
  BY ModStart
<1>2. ModInv /\ [ModuleTableNext]_(moduleTableVars) => ModInv'
  BY ModStep
<1>3. ModInv => AnsweredByItsOwn
  BY DEF ModInv, ModOK, CallOK, Runs, AnsweredByItsOwn, Calls, NoAnswer, MODULE_FAILED
<1> QED BY <1>1, <1>2, <1>3, PTL DEF ModuleTableSpec

(* A worker that runs is its module's, and once the set has failed or was  *)
(* disposed none runs (module-table.ts, build and teardown), even when a   *)
(* spawn or a load was under way at that moment.                           *)
THEOREM NoWorkerLeftHolds == ModuleTableSpec => []NoWorkerLeft
<1>1. ModuleTableInit => ModInv
  BY ModStart
<1>2. ModInv /\ [ModuleTableNext]_(moduleTableVars) => ModInv'
  BY ModStep
<1>3. ModInv => NoWorkerLeft
  <2> SUFFICES ASSUME ModInv, NEW w \in 1..Len(worker), worker[w].alive
               PROVE  ref[worker[w].mod].worker = w /\ set \notin {"failed", "disposed"}
    BY DEF NoWorkerLeft, Workers
  <2>1. worker \in Seq(WorkerT) /\ SetOK(set, ref, call) /\ ref \in [Modules -> RefT]
    BY DEF ModInv, ModOK, Shape
  <2>2. Held(ref, w, worker[w]) /\ Alone(ref, worker, w)
    BY DEF ModInv, ModOK, WorkerOK
  <2>3. worker[w].mod \in Modules
    BY <2>1, WorkerMods
  <2>4. ref[worker[w].mod].worker = w /\ ref[worker[w].mod].made # "failed" /\ w # 0
    BY <2>2 DEF Held, Alone
  <2>5. ref[worker[w].mod].made \in {"loading", "failed", "loaded"}
    BY <2>1, <2>3 DEF RefT
  <2>6. ~ref[worker[w].mod].dead
    BY <2>1, <2>3, <2>4 DEF SetOK
  <2> QED BY <2>1, <2>3, <2>4, <2>5, <2>6 DEF SetOK
<1> QED BY <1>1, <1>2, <1>3, PTL DEF ModuleTableSpec
=============================================================================
