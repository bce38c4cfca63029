-------------------------- MODULE DiskCacheProofs ---------------------------
(***************************************************************************)
(* Theorems about DiskCache, for any number of keys and values: first what *)
(* holds however many processes share the directory, then what a process   *)
(* that has it to itself can rely on.                                      *)
(***************************************************************************)
EXTENDS DiskCache, Facts

-----------------------------------------------------------------------------
(* The inductive invariant, for any number of processes.                   *)

\* Who works on one key has one; who read or wrote an entry has it in hand, under that key.
Keyed  == {"load", "age", "evict", "open", "data", "rename", "unlink"}
Loaded == {"age", "open", "data", "rename"}
Right(j) == /\ j.pc \in Keyed => j.key \in Keys
            /\ j.pc \in Loaded => j.ent \in Entries
            /\ j.pc = "drop" => j.name \in Names
InHand == \A p \in Procs : Right(job[p])

\* An entry lies under the name of its key, and keeps the time at which it was stored.
Sound(c)    == c \in Entries => c.created = c.stored
FilesSound  == \A n \in Names : Sound(file[n]) /\ (file[n] \in Entries => file[n].key = n[1])
SoundJob(j) == /\ Sound(j.ent)
               /\ j.pc \in Loaded => j.ent.key = j.key
               /\ j.pc \in {"load", "age"} => j.res # "hit"
JobsSound   == \A p \in Procs : SoundJob(job[p])

\* A file is open only while its bytes are being written, under a name of that key.
WriterHasKey == \A p \in Procs : fd[p] # Nameless => job[p].pc = "data" /\ fd[p][1] = job[p].key

\* As long as nobody died, every partly written file has a writer.
WritersRemain == crashes = 0 => \A n \in Names : file[n] = Empty => \E p \in Procs : fd[p] = n

SharedInv == FilesSound /\ JobsSound /\ WriterHasKey /\ WritersRemain

-----------------------------------------------------------------------------
(* What the model's operators return.                                      *)

LEMMA BecomeFacts ==
    ASSUME TypeOK, NEW p \in Procs, NEW j \in Jobs, Become(p, j)
    PROVE  /\ job' \in [Procs -> Jobs] /\ job'[p] = j
           /\ \A q \in Procs : q # p => job'[q] = job[q]
  BY DEF TypeOK, Become

LEMMA NamesOfKey ==
    /\ \A k \in Keys : Entry(k) \in Names /\ Tmp(k) \in Names /\ Entry(k)[1] = k /\ Tmp(k)[1] = k
    /\ \A k, l \in Keys : Entry(k) # Tmp(l)
    /\ Nameless \notin Names
  BY DEF Entry, Tmp, Names, Nameless

\* A file holds nothing, a part of an entry, or an entry.
LEMMA Contents ==
    ASSUME TypeOK, NEW n \in Names
    PROVE  file[n] \in Entries \/ file[n] = Absent \/ file[n] = Empty
  BY DEF TypeOK

LEMMA SizeTyped ==
    ASSUME NEW c \in Entries \cup {Empty}
    PROVE  Size(c) \in Nat
  BY DiskConstants DEF Size, Entries

\* A file that vanishes, or one that was not there, leaves the directory well typed.
LEMMA RemoveTyped ==
    ASSUME TypeOK, NEW n, RemoveFile(n) \/ RemoveIfThere(n)
    PROVE  /\ file' \in [Names -> Entries \cup {Absent, Empty}]
           /\ fd' \in [Procs -> Names \cup {Nameless}]
  BY DEF TypeOK, RemoveFile, RemoveIfThere, FilesSame

Outcomes == {"none", "hit", "miss", "stored", "pruned", "cleared", "deleted", "error", "died"}

\* The job of a process that has just been called, or is at rest.
LEMMA FreshJob ==
    ASSUME NEW r \in Outcomes
    PROVE  /\ IdleJob(r) \in Jobs /\ IdleJob(r).pc = "idle" /\ IdleJob(r).ent = Empty
           /\ IdleJob(r).res = r /\ IdleJob(r).held = {}
<1>1. 0 \in Times
  BY DiskConstants DEF Times
<1> QED BY <1>1 DEF IdleJob, Jobs, Outcomes

LEMMA CallInJobs ==
    ASSUME NEW j \in Jobs, NEW op \in {"get", "set", "prune", "clear", "delete"},
           NEW l \in {"load", "open", "list", "scan", "size", "clear", "unlink"}
    PROVE  [j EXCEPT !.pc = l, !.op = op] \in Jobs
<1>1. [j EXCEPT !.pc = l] \in Jobs
  BY DEF Jobs
<1>2. \A i \in Jobs : [i EXCEPT !.op = op] \in Jobs
  BY DEF Jobs
<1>3. [j EXCEPT !.pc = l, !.op = op] = [[j EXCEPT !.pc = l] EXCEPT !.op = op]
  OBVIOUS
<1> QED BY <1>1, <1>2, <1>3

LEMMA CallTyped ==
    ASSUME NEW op \in {"get", "set", "prune", "clear", "delete"},
           NEW l \in {"load", "open", "list", "scan", "size", "clear", "unlink"}
    PROVE  /\ Call(op, l) \in Jobs /\ Call(op, l).pc = l /\ Call(op, l).op = op
           /\ Call(op, l).ent = Empty /\ Call(op, l).res = "none" /\ Call(op, l).held = {}
<1>1. PICK j \in Jobs : /\ j = IdleJob("none")
                        /\ j.ent = Empty /\ j.res = "none" /\ j.held = {}
  BY FreshJob DEF Outcomes
<1>2. Call(op, l) = [j EXCEPT !.pc = l, !.op = op]
  BY <1>1, Zenon DEF Call
<1> DEFINE e == [j EXCEPT !.pc = l, !.op = op]
<1>3. e \in Jobs
  BY CallInJobs, Zenon
<1>4. e.pc = l /\ e.op = op
  BY DEF Jobs
<1>5. e.ent = j.ent /\ e.res = j.res /\ e.held = j.held
  BY DEF Jobs
<1> HIDE DEF e
<1>6. Call(op, l) = e
  BY <1>2 DEF e
<1> QED BY <1>1, <1>3, <1>4, <1>5, <1>6

\* The steps that change one or two fields of a job.
LEMMA JobEdits ==
    ASSUME NEW j \in Jobs, Right(j)
    PROVE  /\ \A n \in Names, m \in Names \cup {Nameless} : j.pc \in Walks =>
                [j EXCEPT !.todo = @ \ {n}, !.name = m] \in Jobs
                /\ Right([j EXCEPT !.todo = @ \ {n}, !.name = m])
           /\ \A n \in Nat : j.pc = "size" =>
                [j EXCEPT !.sum = n, !.name = Nameless] \in Jobs
                /\ Right([j EXCEPT !.sum = n, !.name = Nameless])
           /\ \A h \in [name : Names, ent : Entries] : j.pc = "scan" =>
                [j EXCEPT !.name = Nameless, !.held = @ \cup {h}] \in Jobs
                /\ Right([j EXCEPT !.name = Nameless, !.held = @ \cup {h}])
           /\ [j EXCEPT !.pc = "scan", !.name = Nameless] \in Jobs
           /\ Right([j EXCEPT !.pc = "scan", !.name = Nameless])
<1>1. ASSUME NEW n \in Names, NEW m \in Names \cup {Nameless}, j.pc \in Walks
      PROVE  [j EXCEPT !.todo = @ \ {n}, !.name = m] \in Jobs
             /\ Right([j EXCEPT !.todo = @ \ {n}, !.name = m])
  <2> DEFINE e == [j EXCEPT !.todo = @ \ {n}, !.name = m]
  <2>1. e \in Jobs
    BY DEF Jobs
  <2>2. e.pc = j.pc /\ j.pc \notin Keyed /\ j.pc \notin Loaded /\ j.pc # "drop"
    BY <1>1 DEF Jobs, Walks, Keyed, Loaded
  <2> HIDE DEF e
  <2>3. Right(e)
    BY <2>2 DEF Right
  <2> QED BY <2>1, <2>3 DEF e
<1>2. ASSUME NEW n \in Nat, j.pc = "size"
      PROVE  [j EXCEPT !.sum = n, !.name = Nameless] \in Jobs
             /\ Right([j EXCEPT !.sum = n, !.name = Nameless])
  <2> DEFINE e == [j EXCEPT !.sum = n, !.name = Nameless]
  <2>1. e \in Jobs
    BY DEF Jobs
  <2>2. e.pc = "size"
    BY <1>2 DEF Jobs
  <2> HIDE DEF e
  <2>3. Right(e)
    BY <2>2 DEF Right, Keyed, Loaded
  <2> QED BY <2>1, <2>3 DEF e
<1>3. ASSUME NEW h \in [name : Names, ent : Entries], j.pc = "scan"
      PROVE  [j EXCEPT !.name = Nameless, !.held = @ \cup {h}] \in Jobs
             /\ Right([j EXCEPT !.name = Nameless, !.held = @ \cup {h}])
  <2> DEFINE e == [j EXCEPT !.name = Nameless, !.held = @ \cup {h}]
  <2>1. e \in Jobs
    BY DEF Jobs
  <2>2. e.pc = "scan"
    BY <1>3 DEF Jobs
  <2> HIDE DEF e
  <2>3. Right(e)
    BY <2>2 DEF Right, Keyed, Loaded
  <2> QED BY <2>1, <2>3 DEF e
<1>4. [j EXCEPT !.pc = "scan", !.name = Nameless] \in Jobs
      /\ Right([j EXCEPT !.pc = "scan", !.name = Nameless])
  <2> DEFINE e == [j EXCEPT !.pc = "scan", !.name = Nameless]
  <2>1. e \in Jobs
    BY DEF Jobs
  <2>2. e.pc = "scan"
    BY DEF Jobs
  <2> HIDE DEF e
  <2>3. Right(e)
    BY <2>2 DEF Right, Keyed, Loaded
  <2> QED BY <2>1, <2>3 DEF e
<1> QED BY <1>1, <1>2, <1>3, <1>4

LEMMA StartWalkTyped ==
    ASSUME TypeOK, NEW op \in {"get", "set", "prune", "clear", "delete"}, NEW l \in Walks
    PROVE  /\ StartWalk(op, l) \in Jobs /\ StartWalk(op, l).pc = l
           /\ StartWalk(op, l).ent = Empty /\ StartWalk(op, l).res = "none" /\ StartWalk(op, l).held = {}
<1>1. /\ Call(op, l) \in Jobs /\ Call(op, l).pc = l
      /\ Call(op, l).ent = Empty /\ Call(op, l).res = "none" /\ Call(op, l).held = {}
  BY CallTyped DEF Walks
<1>2. Listing \cap Owned \in SUBSET Names /\ now \in Times
  BY DEF Listing, TypeOK
<1> QED BY <1>1, <1>2 DEF StartWalk, Jobs

-----------------------------------------------------------------------------
\* What a step of a process does to its own job, and to the types of the rest.
LEMMA StepTyped ==
    ASSUME TypeOK, InHand, NEW p \in Procs, Step(p)
    PROVE  /\ \E j \in Jobs : Become(p, j) /\ Right(j)
           /\ file' \in [Names -> Entries \cup {Absent, Empty}]
           /\ fd' \in [Procs -> Names \cup {Nameless}]
           /\ now' = now /\ crashes' \in 0..MaxCrash /\ used' \in [Keys -> Times]
<1>a. /\ job[p] \in Jobs /\ Right(job[p])
      /\ file \in [Names -> Entries \cup {Absent, Empty}]
      /\ fd \in [Procs -> Names \cup {Nameless}]
      /\ now \in Times /\ crashes \in 0..MaxCrash /\ used \in [Keys -> Times]
  BY DEF TypeOK, InHand
<1>b. \A r \in Outcomes : IdleJob(r) \in Jobs /\ Right(IdleJob(r))
  BY FreshJob DEF Right, Keyed, Loaded
<1>c. ASSUME FilesSame
      PROVE  /\ file' \in [Names -> Entries \cup {Absent, Empty}]
             /\ fd' \in [Procs -> Names \cup {Nameless}]
  BY <1>a, <1>c DEF FilesSame
<1>d. ASSUME OthersSame
      PROVE  now' = now /\ crashes' \in 0..MaxCrash /\ used' \in [Keys -> Times]
  BY <1>a, <1>d DEF OthersSame
<1>1. CASE \E k \in Keys : Get(p, k)
  <2>1. PICK k \in Keys : Get(p, k)
    BY <1>1
  <2>2. Call("get", "load") \in Jobs /\ Call("get", "load").pc = "load"
    BY CallTyped
  <2>3. [Call("get", "load") EXCEPT !.key = k] \in Jobs /\ Right([Call("get", "load") EXCEPT !.key = k])
    BY <2>2 DEF Jobs, Right, Keyed, Loaded
  <2> QED BY <2>1, <2>3, <1>c, <1>d DEF Get
<1>2. CASE \E k \in Keys : Delete(p, k)
  <2>1. PICK k \in Keys : Delete(p, k)
    BY <1>2
  <2>2. Call("delete", "unlink") \in Jobs /\ Call("delete", "unlink").pc = "unlink"
    BY CallTyped
  <2>3. [Call("delete", "unlink") EXCEPT !.key = k] \in Jobs /\ Right([Call("delete", "unlink") EXCEPT !.key = k])
    BY <2>2 DEF Jobs, Right, Keyed, Loaded
  <2> QED BY <2>1, <2>3, <1>c, <1>d DEF Delete
<1>3. CASE \E k \in Keys, v \in Values : Set(p, k, v)
  <2>1. PICK k \in Keys, v \in Values : Set(p, k, v)
    BY <1>3
  <2> DEFINE e == [key |-> k, value |-> v, created |-> now, accessed |-> now, stored |-> now]
  <2>2. e \in Entries
    BY <1>a DEF Entries
  <2> HIDE DEF e
  <2>3. [Call("set", "open") EXCEPT !.key = k, !.ent = e] \in Jobs
        /\ Right([Call("set", "open") EXCEPT !.key = k, !.ent = e])
    <3>1. Call("set", "open") \in Jobs /\ Call("set", "open").pc = "open"
      BY CallTyped
    <3> QED BY <2>2, <3>1 DEF Jobs, Right, Keyed, Loaded
  <2>4. Become(p, [Call("set", "open") EXCEPT !.key = k, !.ent = e])
    BY <2>1 DEF Set, e
  <2> QED BY <2>1, <2>3, <2>4, <1>c, <1>d DEF Set
<1>4. CASE Load(p)
  <2>1. job[p].key \in Keys /\ file[Entry(job[p].key)] \in Entries \cup {Absent, Empty}
    BY <1>4, <1>a, NamesOfKey DEF Load, At, Right, Keyed
  <2>2. [job[p] EXCEPT !.pc = "evict"] \in Jobs /\ Right([job[p] EXCEPT !.pc = "evict"])
    BY <1>a, <2>1 DEF Jobs, Right, Keyed, Loaded
  <2>3. ASSUME NEW c \in Entries
        PROVE  [job[p] EXCEPT !.pc = "age", !.ent = c] \in Jobs
               /\ Right([job[p] EXCEPT !.pc = "age", !.ent = c])
    BY <1>a, <2>1 DEF Jobs, Right, Keyed, Loaded
  <2> QED BY <1>4, <2>1, <2>2, <2>3, <1>c, <1>d DEF Load, Goto
<1>5. CASE Age(p)
  <2>1. job[p].key \in Keys /\ job[p].ent \in Entries
    BY <1>5, <1>a DEF Age, At, Right, Keyed, Loaded
  <2>2. [job[p] EXCEPT !.pc = "evict"] \in Jobs /\ Right([job[p] EXCEPT !.pc = "evict"])
    BY <1>a, <2>1 DEF Jobs, Right, Keyed, Loaded
  <2>3. Touched(job[p].ent, now) \in Entries
    BY <1>a, <2>1 DEF Touched, Entries
  <2>4. [job[p] EXCEPT !.pc = "open", !.ent = Touched(job[p].ent, now)] \in Jobs
        /\ Right([job[p] EXCEPT !.pc = "open", !.ent = Touched(job[p].ent, now)])
    BY <1>a, <2>1, <2>3 DEF Jobs, Right, Keyed, Loaded
  <2>5. used' \in [Keys -> Times]
    BY <1>a, <1>5 DEF Age
  <2>6. now' = now /\ crashes' = crashes /\ FilesSame
    BY <1>5 DEF Age
  <2> QED BY <1>a, <1>b, <1>c, <1>5, <2>2, <2>4, <2>5, <2>6 DEF Age, Goto, Return, Outcomes
<1>6. CASE Evict(p)
  BY <1>6, <1>b, <1>d, RemoveTyped DEF Evict, Return, Outcomes
<1>7. CASE Open(p)
  <2>1. job[p].key \in Keys /\ Tmp(job[p].key) \in Names
    BY <1>7, <1>a, NamesOfKey DEF Open, At, Right, Keyed
  <2>2. [job[p] EXCEPT !.pc = "data"] \in Jobs /\ Right([job[p] EXCEPT !.pc = "data"])
    BY <1>7, <1>a DEF Jobs, Open, At, Right, Keyed, Loaded
  <2>3. /\ file' \in [Names -> Entries \cup {Absent, Empty}]
        /\ fd' \in [Procs -> Names \cup {Nameless}]
    BY <1>7, <1>a, <2>1 DEF Open, OpenTmp
  <2> QED BY <1>7, <2>2, <2>3, <1>d DEF Open, Goto
<1>8. CASE Data(p)
  <2>1. [job[p] EXCEPT !.pc = "rename"] \in Jobs /\ Right([job[p] EXCEPT !.pc = "rename"])
    BY <1>8, <1>a DEF Jobs, Data, At, Right, Keyed, Loaded
  <2>2. job[p].ent \in Entries
    BY <1>8, <1>a DEF Data, At, Right, Loaded
  <2>3. /\ file' \in [Names -> Entries \cup {Absent, Empty}]
        /\ fd' \in [Procs -> Names \cup {Nameless}]
    BY <1>8, <1>a, <2>2 DEF Data, WriteBytes
  <2> QED BY <1>8, <2>1, <2>3, <1>d DEF Data, Goto
<1>9. CASE Rename(p)
  <2>1. /\ job[p].key \in Keys /\ job[p].ent \in Entries
        /\ Entry(job[p].key) \in Names /\ Tmp(job[p].key) \in Names
    BY <1>9, <1>a, NamesOfKey DEF Rename, At, Right, Keyed, Loaded
  <2>2. AfterRename(p) \in Jobs /\ Right(AfterRename(p))
    BY <1>b, CallTyped DEF AfterRename, Right, Keyed, Loaded, Outcomes
  <2>3. /\ file' \in [Names -> Entries \cup {Absent, Empty}]
        /\ fd' \in [Procs -> Names \cup {Nameless}]
    BY <1>9, <1>a, <2>1 DEF Rename, RenameTmp
  <2>4. used' \in [Keys -> Times]
    BY <1>9, <1>a, <2>1 DEF Rename, Used, Entries
  <2> QED BY <1>9, <1>a, <2>2, <2>3, <2>4 DEF Rename
<1>10. CASE RenameFails(p)
  BY <1>10, <1>b, <1>c, <1>d DEF RenameFails, Return, Outcomes
<1>11. CASE SizeWalk(p) \/ Prune(p) \/ Clear(p)
  <2>1. ASSUME NEW op \in {"set", "prune", "clear"}, NEW l \in Walks
        PROVE  StartWalk(op, l) \in Jobs /\ Right(StartWalk(op, l))
    BY StartWalkTyped DEF Right, Keyed, Loaded, Walks
  <2> QED BY <1>11, <2>1, <1>c, <1>d DEF SizeWalk, Prune, Clear, Walks
<1>12. CASE \E n \in Names : Visit(p, n)
  <2>1. PICK n \in Names : Visit(p, n)
    BY <1>12
  <2>2. ASSUME NEW m \in Names \cup {Nameless}
        PROVE  [job[p] EXCEPT !.todo = @ \ {n}, !.name = m] \in Jobs
               /\ Right([job[p] EXCEPT !.todo = @ \ {n}, !.name = m])
    BY <1>a, <2>1, JobEdits DEF Visit
  <2> QED BY <2>1, <2>2, <1>c, <1>d DEF Visit
<1>13. CASE Vanished(p)
  BY <1>13, <1>b, <1>c, <1>d DEF Vanished, Return, Outcomes
<1>14. CASE Measure(p)
  <2>1. job[p].pc = "size" /\ job[p].sum \in Nat
    BY <1>14, <1>a DEF Measure, Visiting, At, Jobs
  <2>2. job[p].name \in Names
    BY <1>14, <1>a DEF Measure, Visiting, Jobs
  <2>3. Size(file[job[p].name]) \in Nat
    BY <1>14, <1>a, <2>2, SizeTyped DEF Measure
  <2> DEFINE n == Size(file[job[p].name])
  <2>n. n \in Nat
    BY <2>3
  <2> HIDE DEF n
  <2>s. job[p].sum + n \in Nat
    BY <2>1, <2>n
  <2>4. [job[p] EXCEPT !.sum = @ + n, !.name = Nameless] \in Jobs
        /\ Right([job[p] EXCEPT !.sum = @ + n, !.name = Nameless])
    BY <1>a, <2>1, <2>s, JobEdits
  <2> QED BY <1>14, <2>4, <1>c, <1>d DEF Measure, n
<1>15. CASE Measured(p)
  <2>1. StartWalk("set", "scan") \in Jobs /\ Right(StartWalk("set", "scan"))
    BY StartWalkTyped DEF Right, Keyed, Loaded, Walks
  <2> QED BY <1>15, <2>1, <1>b, <1>c, <1>d DEF Measured, Return, Outcomes
<1>16. CASE Scan(p)
  <2>1. job[p].pc = "scan" /\ job[p].name \in Names
    BY <1>16, <1>a DEF Scan, Visiting, At, Jobs
  <2>2. file[job[p].name] \in Entries \/ file[job[p].name] = Empty
    BY <1>16, <2>1, Contents DEF Scan
  <2>3. [job[p] EXCEPT !.pc = "drop"] \in Jobs /\ Right([job[p] EXCEPT !.pc = "drop"])
    BY <1>a, <2>1 DEF Jobs, Right, Keyed, Loaded
  <2> DEFINE h == [name |-> job[p].name, ent |-> file[job[p].name]]
  <2>4. ASSUME file[job[p].name] \in Entries
        PROVE  [job[p] EXCEPT !.name = Nameless, !.held = @ \cup {h}] \in Jobs
               /\ Right([job[p] EXCEPT !.name = Nameless, !.held = @ \cup {h}])
    <3>1. h \in [name : Names, ent : Entries]
      BY <2>1, <2>4
    <3> HIDE DEF h
    <3> QED BY <1>a, <2>1, <3>1, JobEdits
  <2> QED BY <1>16, <2>2, <2>3, <2>4, <1>c, <1>d DEF Scan, Goto
<1>17. CASE Drop(p)
  <2>1. [job[p] EXCEPT !.pc = "scan", !.name = Nameless] \in Jobs
        /\ Right([job[p] EXCEPT !.pc = "scan", !.name = Nameless])
    BY <1>a, JobEdits
  <2> QED BY <1>17, <2>1, <1>d, RemoveTyped DEF Drop
<1>18. CASE \E h \in job[p].held : Discard(p, h)
  <2>1. PICK h \in job[p].held : Discard(p, h)
    BY <1>18
  <2>2. [job[p] EXCEPT !.held = @ \ {h}] \in Jobs /\ Right([job[p] EXCEPT !.held = @ \ {h}])
    BY <1>a DEF Jobs, Right, Keyed, Loaded
  <2> QED BY <2>1, <2>2, <1>d, RemoveTyped DEF Discard
<1>19. CASE Pruned(p)
  BY <1>19, <1>b, <1>c, <1>d DEF Pruned, Return, Outcomes
<1>20. CASE ClearOne(p)
  <2>1. [job[p] EXCEPT !.name = Nameless] \in Jobs /\ Right([job[p] EXCEPT !.name = Nameless])
    BY <1>20, <1>a DEF Jobs, Right, Keyed, Loaded, ClearOne, Visiting, At
  <2> QED BY <1>20, <2>1, <1>d, RemoveTyped DEF ClearOne
<1>21. CASE Cleared(p)
  BY <1>21, <1>b, <1>c, <1>d DEF Cleared, Return, Outcomes
<1>22. CASE Unlink(p)
  BY <1>22, <1>b, <1>d, RemoveTyped DEF Unlink, Return, Outcomes
<1>23. CASE Crash(p)
  <2>1. crashes' \in 0..MaxCrash
    BY <1>23, <1>a, DiskConstants DEF Crash
  <2>2. fd' \in [Procs -> Names \cup {Nameless}] /\ file' = file
    BY <1>23, <1>a DEF Crash, CloseFile
  <2> QED BY <1>23, <1>a, <1>b, <2>1, <2>2 DEF Crash, Return, Outcomes
<1> QED BY <1>1, <1>2, <1>3, <1>4, <1>5, <1>6, <1>7, <1>8, <1>9, <1>10, <1>11, <1>12, <1>13,
           <1>14, <1>15, <1>16, <1>17, <1>18, <1>19, <1>20, <1>21, <1>22, <1>23 DEF Step

\* Every variable keeps its type, and a process has in hand what its next step needs.
THEOREM TypeCorrect == Spec => [](TypeOK /\ InHand)
<1>1. Init => TypeOK /\ InHand
  <2> SUFFICES ASSUME Init PROVE TypeOK /\ InHand
    OBVIOUS
  <2>1. IdleJob("none") \in Jobs /\ Right(IdleJob("none"))
    BY FreshJob DEF Outcomes, Right, Keyed, Loaded
  <2>2. 0 \in Times /\ 0 \in 0..MaxCrash
    BY DiskConstants DEF Times
  <2> QED BY <2>1, <2>2 DEF Init, EmptyDirectory, TypeOK, InHand
<1>2. TypeOK /\ InHand /\ [Next]_vars => (TypeOK /\ InHand)'
  <2> SUFFICES ASSUME TypeOK, InHand, [Next]_vars PROVE (TypeOK /\ InHand)'
    OBVIOUS
  <2>1. CASE UNCHANGED vars
    BY <2>1 DEF vars, TypeOK, InHand
  <2>2. CASE Tick
    <3>1. now' \in Times
      BY <2>2, DiskConstants DEF Tick, TypeOK, Times
    <3> QED BY <2>2, <3>1 DEF Tick, FilesSame, TypeOK, InHand
  <2>3. CASE \E p \in Procs : Step(p)
    <3>1. PICK p \in Procs : Step(p)
      BY <2>3
    <3>2. PICK j \in Jobs : Become(p, j) /\ Right(j)
      BY <3>1, StepTyped
    <3>3. job' \in [Procs -> Jobs] /\ job'[p] = j /\ \A q \in Procs : q # p => job'[q] = job[q]
      BY <3>2, BecomeFacts
    <3>4. InHand'
      BY <3>2, <3>3 DEF InHand
    <3>5. TypeOK'
      BY <3>1, <3>3, StepTyped DEF TypeOK
    <3> QED BY <3>4, <3>5
  <2> QED BY <2>1, <2>2, <2>3 DEF Next
<1> QED BY <1>1, <1>2, PTL DEF Spec

-----------------------------------------------------------------------------
\* The steps, by what they do to the directory.  Only Open and Data begin or end in the
\* middle of a write.
LEMMA FileSteps ==
    ASSUME TypeOK, InHand, NEW p \in Procs, Step(p)
    PROVE  \/ Open(p) \/ Data(p) \/ Rename(p) \/ Crash(p)
           \/ /\ FilesSame \/ \E n : RemoveFile(n)
              /\ crashes' = crashes /\ job[p].pc # "data" /\ job'[p].pc # "data"
              /\ used' = used \/ Age(p)
<1>a. job \in [Procs -> Jobs]
  BY DEF TypeOK
<1>b. ASSUME NEW j, Become(p, j)
      PROVE  job'[p] = j
  BY <1>a, <1>b DEF Become
<1>c. ASSUME NEW n, RemoveIfThere(n)
      PROVE  FilesSame \/ \E m : RemoveFile(m)
  BY <1>c DEF RemoveIfThere
<1>1. CASE \E k \in Keys : Get(p, k) \/ Delete(p, k) \/ \E v \in Values : Set(p, k, v)
  <2>1. /\ \A k : [Call("get", "load") EXCEPT !.key = k].pc = "load"
        /\ \A k : [Call("delete", "unlink") EXCEPT !.key = k].pc = "unlink"
        /\ \A k, e : [Call("set", "open") EXCEPT !.key = k, !.ent = e].pc = "open"
    BY DEF Call, IdleJob
  <2>2. CASE \E k \in Keys : Get(p, k)
    BY <2>1, <2>2, <1>b DEF Get, OthersSame, At
  <2>3. CASE \E k \in Keys : Delete(p, k)
    BY <2>1, <2>3, <1>b DEF Delete, OthersSame, At
  <2>4. CASE \E k \in Keys, v \in Values : Set(p, k, v)
    <3>1. PICK k \in Keys, v \in Values : Set(p, k, v)
      BY <2>4
    <3> DEFINE e == [key |-> k, value |-> v, created |-> now, accessed |-> now, stored |-> now]
    <3> DEFINE j == [Call("set", "open") EXCEPT !.key = k, !.ent = e]
    <3>2. j.pc = "open"
      BY <2>1
    <3>3. Become(p, j)
      BY <3>1 DEF Set
    <3> HIDE DEF j
    <3>4. job'[p].pc = "open"
      BY <3>2, <3>3, <1>b
    <3> QED BY <3>1, <3>4 DEF Set, OthersSame, At
  <2> QED BY <1>1, <2>2, <2>3, <2>4
<1>2. CASE Load(p) \/ Age(p)
  <2>1. CASE Load(p)
    BY <1>a, <2>1, <1>b DEF Load, Goto, OthersSame, At, Jobs
  <2>2. CASE Age(p)
    <3> DEFINE j == [job[p] EXCEPT !.pc = "open", !.ent = Touched(job[p].ent, now)]
    <3>2. Become(p, [job[p] EXCEPT !.pc = "evict"]) \/ Become(p, j) \/ Become(p, IdleJob("hit"))
      BY <2>2 DEF Age, Goto, Return
    <3>3. j.pc = "open" /\ IdleJob("hit").pc = "idle" /\ [job[p] EXCEPT !.pc = "evict"].pc = "evict"
      BY <1>a DEF IdleJob, Jobs
    <3> HIDE DEF j
    <3>1. job'[p].pc \in {"evict", "open", "idle"}
      BY <1>b, <3>2, <3>3
    <3> QED BY <2>2, <3>1 DEF Age, At
  <2> QED BY <1>2, <2>1, <2>2
<1>3. CASE Evict(p) \/ Unlink(p)
  BY <1>3, <1>b, <1>c DEF Evict, Unlink, Return, IdleJob, OthersSame, At
<1>4. CASE RenameFails(p) \/ Vanished(p) \/ Pruned(p) \/ Cleared(p)
  BY <1>4, <1>b DEF RenameFails, Vanished, Pruned, Cleared, Done, Walks, Return, IdleJob, OthersSame, At
<1>5. CASE SizeWalk(p) \/ Prune(p) \/ Clear(p) \/ Measured(p)
  <2>1. \A op, l : StartWalk(op, l).pc = l
    BY DEF StartWalk, Call, IdleJob
  <2> QED BY <1>5, <2>1, <1>b DEF SizeWalk, Prune, Clear, Measured, Done, Return, IdleJob, OthersSame, At
<1>6. CASE \E n \in Names : Visit(p, n)
  BY <1>a, <1>6, <1>b DEF Visit, Walks, OthersSame, Jobs
<1>7. CASE Measure(p) \/ Scan(p)
  BY <1>a, <1>7, <1>b DEF Measure, Scan, Visiting, Goto, At, OthersSame, Jobs
<1>8. CASE Drop(p)
  BY <1>a, <1>8, <1>b, <1>c DEF Drop, At, OthersSame, Jobs
<1>9. CASE \E h \in job[p].held : Discard(p, h)
  BY <1>a, <1>9, <1>b, <1>c DEF Discard, Done, At, OthersSame, Jobs
<1>10. CASE ClearOne(p)
  BY <1>a, <1>10, <1>b, <1>c DEF ClearOne, Visiting, At, OthersSame, Jobs
<1> QED BY <1>1, <1>2, <1>3, <1>4, <1>5, <1>6, <1>7, <1>8, <1>9, <1>10 DEF Step

\* What a process has in hand after a step is sound if the files and what it had before were.
LEMMA StepSound ==
    ASSUME TypeOK, InHand, FilesSound, JobsSound, NEW p \in Procs, Step(p)
    PROVE  SoundJob(job'[p])
<1>a. job \in [Procs -> Jobs] /\ job[p] \in Jobs /\ SoundJob(job[p]) /\ Right(job[p])
  BY DEF TypeOK, JobsSound, InHand
<1>b. ASSUME NEW j, Become(p, j)
      PROVE  job'[p] = j
  BY <1>a, <1>b DEF Become
<1>c. Sound(Empty)
  BY FileContents DEF Sound
<1>d. \A r : SoundJob(IdleJob(r))
  BY <1>c DEF SoundJob, IdleJob, Loaded
<1>1. CASE \E k \in Keys : Get(p, k) \/ Delete(p, k)
  <2>1. \A k : LET j == [Call("get", "load") EXCEPT !.key = k]
               IN  j.pc = "load" /\ j.ent = Empty /\ j.res = "none"
    BY DEF Call, IdleJob
  <2>2. \A k : LET j == [Call("delete", "unlink") EXCEPT !.key = k]
               IN  j.pc = "unlink" /\ j.ent = Empty
    BY DEF Call, IdleJob
  <2>3. CASE \E k \in Keys : Get(p, k)
    BY <1>b, <1>c, <2>1, <2>3 DEF Get, SoundJob, Loaded
  <2>4. CASE \E k \in Keys : Delete(p, k)
    BY <1>b, <1>c, <2>2, <2>4 DEF Delete, SoundJob, Loaded
  <2> QED BY <1>1, <2>3, <2>4
<1>2. CASE \E k \in Keys, v \in Values : Set(p, k, v)
  <2>1. PICK k \in Keys, v \in Values : Set(p, k, v)
    BY <1>2
  <2> DEFINE e == [key |-> k, value |-> v, created |-> now, accessed |-> now, stored |-> now]
  <2>2. e.key = k /\ Sound(e)
    BY DEF Sound
  <2>3. job'[p] = [Call("set", "open") EXCEPT !.key = k, !.ent = e]
    BY <1>b, <2>1 DEF Set
  <2> HIDE DEF e
  <2>4. job'[p].pc = "open" /\ job'[p].key = k /\ job'[p].ent = e
    BY <2>3 DEF Call, IdleJob
  <2> QED BY <2>2, <2>4 DEF SoundJob
<1>3. CASE Load(p)
  <2>1. job[p].key \in Keys /\ Entry(job[p].key) \in Names /\ Entry(job[p].key)[1] = job[p].key
    BY <1>3, <1>a, NamesOfKey DEF Load, At, Right, Keyed
  <2> DEFINE c == file[Entry(job[p].key)]
  <2>2. Sound(c) /\ (c \in Entries => c.key = job[p].key) /\ (c \in Entries \/ c = Absent \/ c = Empty)
    BY <2>1, Contents DEF FilesSound
  <2>3. CASE c \in {Absent, Empty}
    BY <1>3, <1>a, <1>b, <2>3 DEF Load, Goto, SoundJob, Jobs, Loaded
  <2>4. CASE c \notin {Absent, Empty}
    <3>1. job'[p] = [job[p] EXCEPT !.pc = "age", !.ent = c]
      BY <1>3, <1>b, <2>4 DEF Load
    <3>2. job[p].res # "hit"
      BY <1>3, <1>a DEF Load, At, SoundJob
    <3> QED BY <1>a, <2>2, <2>4, <3>1, <3>2 DEF SoundJob, Jobs
  <2> QED BY <2>3, <2>4
<1>4. CASE Age(p)
  <2>1. job[p].ent \in Entries /\ job[p].ent.key = job[p].key /\ job[p].ent.created = job[p].ent.stored
    BY <1>4, <1>a DEF Age, At, Right, SoundJob, Loaded, Sound
  <2>2. /\ Touched(job[p].ent, now).key = job[p].key
        /\ Touched(job[p].ent, now).created = Touched(job[p].ent, now).stored
    BY <2>1 DEF Touched, Entries
  <2>3. CASE job'[p] = [job[p] EXCEPT !.pc = "evict"]
    BY <1>a, <2>3 DEF SoundJob, Jobs, Loaded
  <2>4. CASE job'[p] = [job[p] EXCEPT !.pc = "open", !.ent = Touched(job[p].ent, now)]
    BY <1>a, <2>2, <2>4 DEF SoundJob, Jobs, Sound
  <2> QED BY <1>4, <1>b, <1>d, <2>3, <2>4 DEF Age, Goto, Return
<1>5. CASE Evict(p) \/ Unlink(p) \/ RenameFails(p) \/ Vanished(p) \/ Pruned(p) \/ Cleared(p) \/ Crash(p)
  BY <1>5, <1>b, <1>d DEF Evict, Unlink, RenameFails, Vanished, Pruned, Cleared, Crash, Return
<1>6. CASE Open(p) \/ Data(p)
  BY <1>a, <1>b, <1>6 DEF Open, Data, At, Goto, SoundJob, Jobs, Loaded
<1>7. CASE Rename(p)
  BY <1>7, <1>b, <1>c, <1>d DEF Rename, AfterRename, Call, IdleJob, SoundJob, Loaded
<1>8. CASE SizeWalk(p) \/ Prune(p) \/ Clear(p) \/ Measured(p)
  <2>1. \A op, l : StartWalk(op, l).pc = l /\ StartWalk(op, l).ent = Empty
    BY DEF StartWalk, Call, IdleJob
  <2>2. \A op, l \in {"set", "prune", "clear", "size", "scan"} : SoundJob(StartWalk(op, l))
    BY <2>1, <1>c DEF SoundJob, Loaded
  <2> QED BY <1>8, <2>2, <1>b, <1>d DEF SizeWalk, Prune, Clear, Measured, Return
<1>9. CASE \E n \in Names : Visit(p, n)
  BY <1>a, <1>9, <1>b DEF Visit, Walks, SoundJob, Jobs, Loaded
<1>10. CASE Measure(p) \/ Scan(p)
  BY <1>a, <1>10, <1>b DEF Measure, Scan, Visiting, Goto, At, SoundJob, Jobs, Loaded
<1>11. CASE Drop(p) \/ ClearOne(p)
  BY <1>a, <1>11, <1>b DEF Drop, ClearOne, Visiting, At, SoundJob, Jobs, Loaded
<1>12. CASE \E h \in job[p].held : Discard(p, h)
  BY <1>a, <1>12, <1>b DEF Discard, Done, At, SoundJob, Jobs, Loaded
<1> QED BY <1>1, <1>2, <1>3, <1>4, <1>5, <1>6, <1>7, <1>8, <1>9, <1>10, <1>11, <1>12 DEF Step

-----------------------------------------------------------------------------
LEMMA FilesSoundStep ==
    ASSUME TypeOK, InHand, FilesSound, JobsSound, WriterHasKey, NEW p \in Procs, Step(p)
    PROVE  FilesSound'
<1> SUFFICES ASSUME NEW n \in Names
             PROVE  Sound(file'[n]) /\ (file'[n] \in Entries => file'[n].key = n[1])
  BY DEF FilesSound, Sound
<1>a. /\ file \in [Names -> Entries \cup {Absent, Empty}] /\ fd \in [Procs -> Names \cup {Nameless}]
      /\ Sound(file[n]) /\ (file[n] \in Entries => file[n].key = n[1])
      /\ Right(job[p]) /\ SoundJob(job[p])
  BY DEF TypeOK, FilesSound, InHand, JobsSound
<1>b. Empty \notin Entries /\ Absent \notin Entries /\ Sound(Empty) /\ Sound(Absent)
  BY FileContents DEF Sound
<1>1. CASE FilesSame
  BY <1>1, <1>a DEF FilesSame
<1>2. CASE \E m : RemoveFile(m)
  <2>1. file'[n] = file[n] \/ file'[n] = Absent
    BY <1>2, <1>a DEF RemoveFile
  <2> QED BY <1>a, <1>b, <2>1
<1>3. CASE Open(p)
  <2>1. file'[n] = file[n] \/ file'[n] = Empty
    BY <1>3, <1>a DEF Open, OpenTmp
  <2> QED BY <1>a, <1>b, <2>1
<1>4. CASE Crash(p)
  BY <1>4, <1>a DEF Crash, CloseFile
<1>5. CASE Data(p)
  <2>1. job[p].ent.key = job[p].key /\ Sound(job[p].ent)
    BY <1>5, <1>a DEF Data, At, SoundJob, Loaded
  <2>2. CASE fd[p] = n
    <3>1. n # Nameless
      BY NamesOfKey
    <3>2. n[1] = job[p].key
      BY <2>2, <3>1 DEF WriterHasKey
    <3>3. file'[n] = job[p].ent
      BY <1>5, <1>a, <2>2, <3>1 DEF Data, WriteBytes
    <3> QED BY <2>1, <3>2, <3>3
  <2>3. CASE fd[p] # n
    BY <1>5, <1>a, <2>3 DEF Data, WriteBytes
  <2> QED BY <2>2, <2>3
<1>6. CASE Rename(p)
  <2> DEFINE k == job[p].key
  <2>1. k \in Keys /\ Tmp(k) \in Names /\ Entry(k) \in Names /\ Tmp(k)[1] = k /\ Entry(k)[1] = k
    BY <1>6, <1>a, NamesOfKey DEF Rename, At, Right, Keyed
  <2>2. Sound(file[Tmp(k)]) /\ (file[Tmp(k)] \in Entries => file[Tmp(k)].key = k)
    BY <2>1 DEF FilesSound
  <2>3. \/ file'[n] = Absent \/ file'[n] = file[n]
        \/ n = Entry(k) /\ file'[n] = file[Tmp(k)]
    BY <1>6, <1>a, <2>1 DEF Rename, RenameTmp
  <2> QED BY <1>a, <1>b, <2>1, <2>2, <2>3
<1> QED BY <1>1, <1>2, <1>3, <1>4, <1>5, <1>6, FileSteps

LEMMA WriterHasKeyStep ==
    ASSUME TypeOK, InHand, WriterHasKey, NEW p \in Procs, Step(p)
    PROVE  WriterHasKey'
<1> SUFFICES ASSUME NEW q \in Procs, fd'[q] # Nameless
             PROVE  job'[q].pc = "data" /\ fd'[q][1] = job'[q].key
  BY DEF WriterHasKey
<1>a. /\ fd \in [Procs -> Names \cup {Nameless}] /\ job \in [Procs -> Jobs]
      /\ fd[q] # Nameless => job[q].pc = "data" /\ fd[q][1] = job[q].key
      /\ fd[p] # Nameless => job[p].pc = "data"
      /\ Right(job[p])
  BY DEF TypeOK, WriterHasKey, InHand
<1>b. q # p => job'[q] = job[q]
  BY StepTyped, BecomeFacts
<1>1. CASE FilesSame /\ job[p].pc # "data"
  BY <1>1, <1>a, <1>b DEF FilesSame
<1>2. CASE (\E m : RemoveFile(m)) /\ job[p].pc # "data"
  <2>1. fd'[q] = fd[q]
    BY <1>2, <1>a DEF RemoveFile
  <2> QED BY <1>2, <1>a, <1>b, <2>1
<1>3. CASE Open(p)
  <2>1. CASE q = p
    <3>1. fd'[q] = Tmp(job[p].key) /\ job'[q] = [job[p] EXCEPT !.pc = "data"]
      BY <1>3, <1>a, <2>1 DEF Open, OpenTmp, Goto, Become
    <3>2. job[p].key \in Keys
      BY <1>3, <1>a DEF Open, At, Right, Keyed
    <3> QED BY <1>a, <2>1, <3>1, <3>2, NamesOfKey DEF Jobs
  <2>2. CASE q # p
    BY <1>3, <1>a, <1>b, <2>2 DEF Open, OpenTmp
  <2> QED BY <2>1, <2>2
<1>4. CASE Data(p) \/ Crash(p)
  <2>1. q # p /\ fd'[q] = fd[q]
    BY <1>4, <1>a DEF Data, WriteBytes, Crash, CloseFile
  <2> QED BY <1>a, <1>b, <2>1
<1>5. CASE Rename(p)
  <2> DEFINE k == job[p].key
  <2>1. k \in Keys /\ Tmp(k)[1] = k /\ Entry(k)[1] = k
    BY <1>5, <1>a, NamesOfKey DEF Rename, At, Right, Keyed
  <2>2. \/ fd[q] = Tmp(k) /\ fd'[q] = Entry(k)
        \/ fd'[q] = fd[q]
    BY <1>5 DEF Rename, RenameTmp
  <2>3. fd[q] # Nameless /\ fd'[q][1] = fd[q][1]
    BY <2>1, <2>2, NamesOfKey
  <2>4. q # p
    BY <1>5, <1>a, <2>3 DEF Rename, At
  <2> QED BY <1>a, <1>b, <2>3, <2>4
<1> QED BY <1>1, <1>2, <1>3, <1>4, <1>5, FileSteps

LEMMA WritersRemainStep ==
    ASSUME TypeOK, InHand, WriterHasKey, WritersRemain, NEW p \in Procs, Step(p)
    PROVE  WritersRemain'
<1> SUFFICES ASSUME crashes' = 0, NEW n \in Names, file'[n] = Empty
             PROVE  \E q \in Procs : fd'[q] = n
  BY DEF WritersRemain
<1>a. /\ file \in [Names -> Entries \cup {Absent, Empty}] /\ fd \in [Procs -> Names \cup {Nameless}]
      /\ fd[p] # Nameless => job[p].pc = "data"
      /\ Right(job[p]) /\ n # Nameless
  BY NamesOfKey DEF TypeOK, WriterHasKey, InHand
<1>b. ASSUME crashes = 0, file[n] = Empty
      PROVE  \E q \in Procs : fd[q] = n
  BY <1>b DEF WritersRemain
<1>1. CASE FilesSame /\ crashes' = crashes
  BY <1>1, <1>b DEF FilesSame
<1>2. CASE (\E m : RemoveFile(m)) /\ crashes' = crashes
  <2>1. PICK m : RemoveFile(m)
    BY <1>2
  <2>2. n # m /\ file[n] = Empty
    BY <1>a, <2>1, FileContents DEF RemoveFile
  <2> QED BY <1>2, <1>b, <2>1, <2>2 DEF RemoveFile
<1>3. CASE Open(p)
  <2>1. crashes = 0
    BY <1>3 DEF Open, OthersSame
  <2>2. CASE n = Tmp(job[p].key)
    BY <1>3, <1>a, <2>2 DEF Open, OpenTmp
  <2>3. CASE n # Tmp(job[p].key)
    <3>1. file[n] = Empty
      BY <1>3, <1>a, <2>3 DEF Open, OpenTmp
    <3>2. PICK q \in Procs : fd[q] = n
      BY <2>1, <3>1, <1>b
    <3>3. q # p
      BY <1>3, <1>a, <3>2 DEF Open, At
    <3> QED BY <1>3, <3>2, <3>3, <1>a DEF Open, OpenTmp
  <2> QED BY <2>2, <2>3
<1>4. CASE Data(p)
  <2>1. crashes = 0
    BY <1>4 DEF Data, OthersSame
  <2>2. job[p].ent # Empty
    BY <1>4, <1>a, FileContents DEF Data, At, Right, Loaded
  <2>3. fd[p] # n /\ file[n] = Empty
    BY <1>4, <1>a, <2>2 DEF Data, WriteBytes
  <2>4. PICK q \in Procs : fd[q] = n
    BY <2>1, <2>3, <1>b
  <2> QED BY <1>4, <1>a, <2>3, <2>4 DEF Data, WriteBytes
<1>5. CASE Rename(p)
  <2> DEFINE k == job[p].key
  <2>0. crashes = 0
    BY <1>5 DEF Rename
  <2>1. k \in Keys /\ Tmp(k) \in Names /\ Entry(k) \in Names /\ Tmp(k) # Entry(k)
    BY <1>5, <1>a, NamesOfKey DEF Rename, At, Right, Keyed
  <2>2. n # Tmp(k)
    BY <1>5, <1>a, <2>1, FileContents DEF Rename, RenameTmp
  <2>3. CASE n = Entry(k)
    <3>1. file[Tmp(k)] = Empty
      BY <1>5, <1>a, <2>1, <2>3 DEF Rename, RenameTmp
    <3>2. PICK q \in Procs : fd[q] = Tmp(k)
      BY <2>0, <2>1, <3>1 DEF WritersRemain
    <3>3. fd'[q] = Entry(k)
      BY <1>5, <3>2 DEF Rename, RenameTmp
    <3> QED BY <2>3, <3>3
  <2>4. CASE n # Entry(k)
    <3>1. file[n] = Empty
      BY <1>5, <1>a, <2>1, <2>2, <2>4 DEF Rename, RenameTmp
    <3>2. PICK q \in Procs : fd[q] = n
      BY <2>0, <3>1, <1>b
    <3>3. fd'[q] = n
      BY <1>5, <2>2, <2>4, <3>2 DEF Rename, RenameTmp
    <3> QED BY <3>3
  <2> QED BY <2>3, <2>4
<1>6. CASE Crash(p)
  <2>1. crashes \in Nat /\ crashes' = crashes + 1
    BY <1>6, DiskConstants DEF Crash, TypeOK
  <2> QED BY <2>1
<1> QED BY <1>1, <1>2, <1>3, <1>4, <1>5, <1>6, FileSteps

\* The inductive invariant of any number of processes.
THEOREM SharedCorrect == Spec => []SharedInv
<1>1. Init => SharedInv
  <2> SUFFICES ASSUME Init PROVE SharedInv
    OBVIOUS
  <2>1. \A n \in Names : file[n] = Absent
    BY DEF Init, EmptyDirectory
  <2>2. \A p \in Procs : SoundJob(IdleJob("none"))
    BY FileContents DEF SoundJob, IdleJob, Loaded, Sound
  <2>3. \A p \in Procs : fd[p] = Nameless /\ job[p] = IdleJob("none")
    BY DEF Init, EmptyDirectory
  <2> QED BY <2>1, <2>2, <2>3, FileContents
          DEF SharedInv, FilesSound, JobsSound, WriterHasKey, WritersRemain, Sound
<1>2. TypeOK /\ InHand /\ SharedInv /\ [Next]_vars => SharedInv'
  <2> SUFFICES ASSUME TypeOK, InHand, SharedInv, [Next]_vars PROVE SharedInv'
    OBVIOUS
  <2>a. FilesSound /\ JobsSound /\ WriterHasKey /\ WritersRemain
    BY DEF SharedInv
  <2>1. CASE Tick \/ UNCHANGED vars
    <3>1. UNCHANGED <<file, fd, job, crashes>>
      BY <2>1 DEF Tick, FilesSame, vars
    <3> QED BY <2>a, <3>1 DEF SharedInv, FilesSound, JobsSound, WriterHasKey, WritersRemain
  <2>2. CASE \E p \in Procs : Step(p)
    <3>1. PICK p \in Procs : Step(p)
      BY <2>2
    <3>2. \A q \in Procs : q # p => job'[q] = job[q]
      BY <3>1, StepTyped, BecomeFacts
    <3>3. SoundJob(job'[p])
      BY <2>a, <3>1, StepSound
    <3>4. JobsSound'
      BY <2>a, <3>2, <3>3 DEF JobsSound
    <3> QED BY <2>a, <3>1, <3>4, FilesSoundStep, WriterHasKeyStep, WritersRemainStep DEF SharedInv
  <2> QED BY <2>1, <2>2 DEF Next
<1> QED BY <1>1, <1>2, TypeCorrect, PTL DEF Spec

\* A partly written entry has its writer as long as no process died: what is left, with many
\* processes and no lock, of the promise that entries are written atomically.
THEOREM WritersCorrect == Spec => [](crashes = 0 => PartialHasWriter)
<1>1. SharedInv => (crashes = 0 => PartialHasWriter)
  BY NamesOfKey DEF SharedInv, WritersRemain, PartialHasWriter
<1> QED BY <1>1, SharedCorrect, PTL

\* What a get returns is fresh and was stored under that key, whoever else writes the directory.
THEOREM HitsCorrect == Spec => HitsAreFresh
<1> DEFINE Fresh == \A p \in Procs :
              At(p, "age") /\ (job'[p].pc = "open" \/ job'[p].res = "hit") =>
                  job[p].ent.key = job[p].key /\ now - job[p].ent.stored < TTL
<1>1. TypeOK /\ InHand /\ SharedInv /\ [Next]_vars => [Fresh]_vars
  <2> SUFFICES ASSUME TypeOK, InHand, SharedInv, Next, NEW p \in Procs,
                      At(p, "age"), job'[p].pc = "open" \/ job'[p].res = "hit"
               PROVE  job[p].ent.key = job[p].key /\ now - job[p].ent.stored < TTL
    OBVIOUS
  <2>1. /\ job[p] \in Jobs /\ job[p].ent \in Entries /\ job[p].ent.created = job[p].ent.stored
        /\ job[p].ent.key = job[p].key /\ job[p].res # "hit" /\ now \in Nat
    BY DiskConstants DEF SharedInv, JobsSound, SoundJob, Sound, InHand, Right, Loaded, At, TypeOK, Times
  <2>2. job'[p] # job[p]
    BY <2>1 DEF At
  <2>3. PICK q \in Procs : Step(q)
    BY <2>2 DEF Next, Tick
  <2>4. Step(p)
    BY <2>2, <2>3, StepTyped, BecomeFacts
  <2>5. Age(p) \/ Crash(p)
    BY <2>4 DEF Step, At, Walks, Get, Delete, Set, Load, Evict, Open, Data, Rename, RenameFails,
                SizeWalk, Prune, Clear, Visit, Vanished, Measure, Measured, Scan, Drop, Discard,
                Pruned, ClearOne, Cleared, Unlink, Visiting, Done
  <2>6. ASSUME NEW j, Become(p, j)
        PROVE  job'[p] = j
    BY <2>6 DEF Become, TypeOK
  <2>7. ~Crash(p)
    <3>1. IdleJob("died").pc = "idle" /\ IdleJob("died").res = "died"
      BY DEF IdleJob
    <3> QED BY <2>6, <3>1 DEF Crash, Return
  <2>8. ~Expired(job[p].ent, now)
    <3>1. [job[p] EXCEPT !.pc = "evict"].pc = "evict" /\ [job[p] EXCEPT !.pc = "evict"].res = job[p].res
      BY <2>1 DEF Jobs
    <3> QED BY <2>1, <2>5, <2>6, <2>7, <3>1 DEF Age, Goto
  <2> QED BY <2>1, <2>8, DiskConstants DEF Expired, Entries, Times
<1> QED BY <1>1, TypeCorrect, SharedCorrect, PTL DEF Spec, HitsAreFresh

-----------------------------------------------------------------------------
(* One process that has the directory to itself: what it has in hand is    *)
(* what lies in the directory.                                             *)

Alone == \A p, q \in Procs : p = q

\* Between two of its calls nobody touches the files: the tmp file is the one it writes, then
\* the entry it wrote; what it read is still there.
NothingMoves == \A p \in Procs :
    /\ job[p].pc = "data" => fd[p] = Tmp(job[p].key)
    /\ job[p].pc = "rename" => file[Tmp(job[p].key)] = job[p].ent
    /\ job[p].pc = "age" => file[Entry(job[p].key)] = job[p].ent
    /\ job[p].pc \notin {"scan", "drop"} => job[p].held = {}
    /\ \A h \in job[p].held : file[h.name] = h.ent
    /\ job[p].pc = "drop" => file[job[p].name] = Empty

\* No entry was used after now, and the access time that an entry keeps is less than Bump
\* behind its last use.
PastUse == /\ \A n \in Names : file[n] \in Entries => file[n].accessed <= now
           /\ \A p \in Procs : job[p].ent \in Entries => job[p].ent.accessed <= now
LastUse == \A k \in Keys : file[Entry(k)] \in Entries =>
              /\ file[Entry(k)].accessed <= used[k]
              /\ used[k] < file[Entry(k)].accessed + Bump

AloneInv == EntriesWhole /\ NothingMoves /\ PastUse /\ (Bump > 0 => LastUse)

LEMMA EntriesWholeStep ==
    ASSUME TypeOK, InHand, EntriesWhole, NothingMoves, NEW p \in Procs, Step(p)
    PROVE  EntriesWhole'
<1> SUFFICES ASSUME NEW k \in Keys PROVE file'[Entry(k)] # Empty
  BY DEF EntriesWhole
<1>a. /\ file \in [Names -> Entries \cup {Absent, Empty}] /\ Entry(k) \in Names /\ file[Entry(k)] # Empty
      /\ Right(job[p]) /\ Absent # Empty
  BY NamesOfKey, FileContents DEF TypeOK, EntriesWhole, InHand
<1>1. CASE FilesSame \/ \E n : RemoveFile(n)
  BY <1>1, <1>a DEF FilesSame, RemoveFile
<1>2. CASE Open(p)
  <2>1. Tmp(job[p].key) # Entry(k)
    BY <1>2, <1>a, NamesOfKey DEF Open, At, Right, Keyed
  <2> QED BY <1>2, <1>a, <2>1 DEF Open, OpenTmp
<1>3. CASE Data(p)
  <2>1. job[p].ent # Empty
    BY <1>3, <1>a, FileContents DEF Data, At, Right, Loaded
  <2> QED BY <1>3, <1>a, <2>1 DEF Data, WriteBytes
<1>4. CASE Rename(p)
  <2>1. file[Tmp(job[p].key)] # Empty
    BY <1>4, <1>a, FileContents DEF Rename, At, Right, Loaded, NothingMoves
  <2> QED BY <1>4, <1>a, <2>1 DEF Rename, RenameTmp
<1>5. CASE Crash(p)
  BY <1>5, <1>a DEF Crash, CloseFile
<1> QED BY <1>1, <1>2, <1>3, <1>4, <1>5, FileSteps

\* Where the entry in hand comes from.
LEMMA EntSteps ==
    ASSUME TypeOK, InHand, NEW p \in Procs, Step(p)
    PROVE  \/ job'[p].ent = job[p].ent \/ job'[p].ent = Empty \/ job'[p].ent.accessed = now
           \/ \E n \in Names : job'[p].ent = file[n]
<1>a. job \in [Procs -> Jobs] /\ job[p] \in Jobs /\ Right(job[p])
  BY DEF TypeOK, InHand
<1>b. ASSUME NEW j, Become(p, j)
      PROVE  job'[p] = j
  BY <1>a, <1>b DEF Become
<1>d. \A r : IdleJob(r).ent = Empty
  BY DEF IdleJob
<1>1. CASE \E k \in Keys : Get(p, k) \/ Delete(p, k)
  <2>1. \A k : /\ [Call("get", "load") EXCEPT !.key = k].ent = Empty
               /\ [Call("delete", "unlink") EXCEPT !.key = k].ent = Empty
    BY DEF Call, IdleJob
  <2> QED BY <1>1, <1>b, <2>1 DEF Get, Delete
<1>2. CASE \E k \in Keys, v \in Values : Set(p, k, v)
  <2>1. PICK k \in Keys, v \in Values : Set(p, k, v)
    BY <1>2
  <2> DEFINE e == [key |-> k, value |-> v, created |-> now, accessed |-> now, stored |-> now]
  <2>2. e.accessed = now
    OBVIOUS
  <2>3. job'[p] = [Call("set", "open") EXCEPT !.key = k, !.ent = e]
    BY <1>b, <2>1 DEF Set
  <2> HIDE DEF e
  <2> QED BY <2>2, <2>3 DEF Call, IdleJob
<1>3. CASE Load(p)
  <2>1. Entry(job[p].key) \in Names
    BY <1>3, <1>a, NamesOfKey DEF Load, At, Right, Keyed
  <2> DEFINE c == file[Entry(job[p].key)]
  <2>2. [job[p] EXCEPT !.pc = "evict"].ent = job[p].ent /\ [job[p] EXCEPT !.pc = "age", !.ent = c].ent = c
    BY <1>a DEF Jobs
  <2> QED BY <1>3, <1>b, <2>1, <2>2 DEF Load, Goto
<1>4. CASE Age(p)
  <2>1. job[p].ent \in Entries
    BY <1>4, <1>a DEF Age, At, Right, Loaded
  <2> DEFINE e == Touched(job[p].ent, now)
  <2>2. e.accessed = now
    BY <2>1 DEF Touched, Entries
  <2>3. [job[p] EXCEPT !.pc = "evict"].ent = job[p].ent /\ [job[p] EXCEPT !.pc = "open", !.ent = e].ent = e
    BY <1>a DEF Jobs
  <2> QED BY <1>4, <1>b, <1>d, <2>2, <2>3 DEF Age, Goto, Return
<1>5. CASE Evict(p) \/ Unlink(p) \/ RenameFails(p) \/ Vanished(p) \/ Pruned(p) \/ Cleared(p) \/ Crash(p)
  BY <1>5, <1>b, <1>d DEF Evict, Unlink, RenameFails, Vanished, Pruned, Cleared, Crash, Return
<1>6. CASE Open(p) \/ Data(p)
  BY <1>a, <1>b, <1>6 DEF Open, Data, Goto, Jobs
<1>7. CASE Rename(p)
  BY <1>7, <1>b, <1>d DEF Rename, AfterRename, Call, IdleJob
<1>8. CASE SizeWalk(p) \/ Prune(p) \/ Clear(p) \/ Measured(p)
  <2>1. \A op, l : StartWalk(op, l).ent = Empty
    BY DEF StartWalk, Call, IdleJob
  <2> QED BY <1>8, <2>1, <1>b, <1>d DEF SizeWalk, Prune, Clear, Measured, Return
<1>9. CASE \E n \in Names : Visit(p, n)
  BY <1>a, <1>9, <1>b DEF Visit, Jobs
<1>10. CASE Measure(p) \/ Scan(p)
  BY <1>a, <1>10, <1>b DEF Measure, Scan, Goto, Jobs
<1>11. CASE Drop(p) \/ ClearOne(p)
  BY <1>a, <1>11, <1>b DEF Drop, ClearOne, Jobs
<1>12. CASE \E h \in job[p].held : Discard(p, h)
  BY <1>a, <1>12, <1>b DEF Discard, Jobs
<1> QED BY <1>1, <1>2, <1>3, <1>4, <1>5, <1>6, <1>7, <1>8, <1>9, <1>10, <1>11, <1>12 DEF Step

LEMMA PastUseStep ==
    ASSUME TypeOK, InHand, PastUse, NEW p \in Procs, Step(p)
    PROVE  PastUse'
<1>a. /\ file \in [Names -> Entries \cup {Absent, Empty}] /\ Right(job[p]) /\ now \in Nat
      /\ Absent \notin Entries /\ Empty \notin Entries /\ now' = now
  BY StepTyped, DiskConstants, FileContents DEF TypeOK, InHand, Times
<1>1. ASSUME NEW n \in Names, file'[n] \in Entries
      PROVE  file'[n].accessed <= now
  <2>1. CASE FilesSame \/ \E m : RemoveFile(m)
    BY <1>1, <1>a, <2>1 DEF FilesSame, RemoveFile, PastUse
  <2>2. CASE Open(p) \/ Crash(p)
    BY <1>1, <1>a, <2>2 DEF Open, OpenTmp, Crash, CloseFile, PastUse
  <2>3. CASE Data(p)
    <3>1. file'[n] = file[n] \/ file'[n] = job[p].ent
      BY <1>a, <2>3 DEF Data, WriteBytes
    <3> QED BY <1>1, <3>1 DEF PastUse
  <2>4. CASE Rename(p)
    <3>1. Tmp(job[p].key) \in Names
      BY <1>a, <2>4, NamesOfKey DEF Rename, At, Right, Keyed
    <3>2. file'[n] = file[n] \/ file'[n] = file[Tmp(job[p].key)] \/ file'[n] = Absent
      BY <1>a, <2>4, <3>1 DEF Rename, RenameTmp
    <3> QED BY <1>1, <1>a, <3>1, <3>2 DEF PastUse
  <2> QED BY <2>1, <2>2, <2>3, <2>4, FileSteps
<1>2. ASSUME NEW q \in Procs, job'[q].ent \in Entries
      PROVE  job'[q].ent.accessed <= now
  <2>1. CASE q = p
    <3>1. CASE job'[p].ent.accessed = now
      BY <1>a, <2>1, <3>1
    <3>2. CASE job'[p].ent.accessed # now
      BY <1>2, <1>a, <2>1, <3>2, EntSteps DEF PastUse
    <3> QED BY <3>1, <3>2
  <2>2. CASE q # p
    BY <1>2, <2>2, StepTyped, BecomeFacts DEF PastUse
  <2> QED BY <2>1, <2>2
<1> QED BY <1>a, <1>1, <1>2 DEF PastUse

LEMMA LastUseStep ==
    ASSUME TypeOK, InHand, SharedInv, AloneInv, Bump > 0, NEW p \in Procs, Step(p)
    PROVE  LastUse'
<1> SUFFICES ASSUME NEW k \in Keys, file'[Entry(k)] \in Entries
             PROVE  file'[Entry(k)].accessed <= used'[k] /\ used'[k] < file'[Entry(k)].accessed + Bump
  BY DEF LastUse
<1>a. /\ file \in [Names -> Entries \cup {Absent, Empty}] /\ Right(job[p]) /\ now \in Nat
      /\ Absent \notin Entries /\ Empty \notin Entries /\ Entry(k) \in Names /\ Bump \in Nat
      /\ used \in [Keys -> Times] /\ Times \subseteq Nat
  BY NamesOfKey, DiskConstants, FileContents DEF TypeOK, InHand, Times
<1>b. file[Entry(k)] \in Entries =>
        file[Entry(k)].accessed <= used[k] /\ used[k] < file[Entry(k)].accessed + Bump
  BY DEF AloneInv, LastUse
<1>1. CASE (FilesSame \/ \E m : RemoveFile(m)) /\ used' = used
  BY <1>1, <1>a, <1>b DEF FilesSame, RemoveFile
<1>2. CASE Age(p) /\ used' # used
  <2>1. /\ job[p].ent \in Entries /\ job[p].ent = file[Entry(job[p].key)] /\ job[p].key \in Keys
    BY <1>2, <1>a DEF Age, At, Right, Keyed, Loaded, AloneInv, NothingMoves
  <2>2. file' = file /\ ~Stale(job[p].ent, now) /\ used' = [used EXCEPT ![job[p].key] = now]
    BY <1>2 DEF Age, FilesSame
  <2>3. CASE k = job[p].key
    <3> DEFINE t == job[p].ent.accessed
    <3>1. t \in Nat /\ t <= now /\ ~(now - t >= Bump)
      BY <1>a, <2>1, <2>2 DEF Stale, AloneInv, PastUse, Entries
    <3>2. t <= now /\ now < t + Bump
      BY <1>a, <3>1
    <3>3. used'[k] = now /\ file'[Entry(k)].accessed = t
      BY <1>a, <2>1, <2>2, <2>3
    <3> QED BY <3>2, <3>3
  <2>4. CASE k # job[p].key
    BY <1>a, <1>b, <2>2, <2>4
  <2> QED BY <2>3, <2>4
<1>3. CASE Open(p) \/ Crash(p)
  BY <1>3, <1>a, <1>b DEF Open, OpenTmp, Crash, CloseFile, OthersSame
<1>4. CASE Data(p)
  <2>1. fd[p] = Tmp(job[p].key) /\ job[p].key \in Keys
    BY <1>4, <1>a DEF Data, At, Right, Keyed, AloneInv, NothingMoves
  <2>2. file'[Entry(k)] = file[Entry(k)]
    BY <1>4, <1>a, <2>1, NamesOfKey DEF Data, WriteBytes
  <2> QED BY <1>4, <1>b, <2>2 DEF Data, OthersSame
<1>5. CASE Rename(p)
  <2> DEFINE l == job[p].key
  <2>1. l \in Keys /\ job[p].ent \in Entries /\ file[Tmp(l)] = job[p].ent
    BY <1>5, <1>a DEF Rename, At, Right, Keyed, Loaded, AloneInv, NothingMoves
  <2>2. Entry(l) \in Names /\ Tmp(l) \in Names /\ Tmp(l) # Entry(l)
    BY <2>1, NamesOfKey
  <2>3. used' = [used EXCEPT ![l] = job[p].ent.accessed]
    BY <1>5 DEF Rename, Used
  <2>4. CASE k = l
    <3>1. file'[Entry(k)] = job[p].ent /\ used'[k] = job[p].ent.accessed
      BY <1>5, <1>a, <2>1, <2>2, <2>3, <2>4 DEF Rename, RenameTmp
    <3>2. job[p].ent.accessed \in Nat
      BY <1>a, <2>1 DEF Entries
    <3> QED BY <1>a, <3>1, <3>2
  <2>5. CASE k # l
    <3>1. Entry(k) # Entry(l) /\ Entry(k) # Tmp(l)
      BY <2>1, <2>5, NamesOfKey
    <3> QED BY <1>5, <1>a, <1>b, <2>2, <2>3, <2>5, <3>1 DEF Rename, RenameTmp
  <2> QED BY <2>4, <2>5
<1> QED BY <1>1, <1>2, <1>3, <1>4, <1>5, FileSteps DEF Age

\* A process that has been called, or has returned, holds nothing read from the directory.
LEMMA CallSteps ==
    ASSUME TypeOK, InHand, NothingMoves, NEW p \in Procs, Step(p)
    PROVE  \/ Load(p) \/ Open(p) \/ Data(p) \/ Scan(p) \/ Drop(p) \/ ClearOne(p) \/ Measure(p)
           \/ \E n \in Names : Visit(p, n)
           \/ \E h \in job[p].held : Discard(p, h)
           \/ job'[p].pc \notin {"data", "rename", "age", "drop"} /\ job'[p].held = {}
<1>a. job \in [Procs -> Jobs] /\ job[p] \in Jobs
  BY DEF TypeOK
<1>b. ASSUME NEW j, Become(p, j)
      PROVE  job'[p] = j
  BY <1>a, <1>b DEF Become
<1>c. \A r : IdleJob(r).pc = "idle" /\ IdleJob(r).held = {}
  BY DEF IdleJob
<1>1. CASE \E k \in Keys : Get(p, k)
  <2>1. \A k : LET j == [Call("get", "load") EXCEPT !.key = k] IN j.pc = "load" /\ j.held = {}
    BY DEF Call, IdleJob
  <2> QED BY <1>1, <1>b, <2>1 DEF Get
<1>2. CASE \E k \in Keys : Delete(p, k)
  <2>1. \A k : LET j == [Call("delete", "unlink") EXCEPT !.key = k] IN j.pc = "unlink" /\ j.held = {}
    BY DEF Call, IdleJob
  <2> QED BY <1>2, <1>b, <2>1 DEF Delete
<1>3. CASE \E k \in Keys, v \in Values : Set(p, k, v)
  <2>1. PICK k \in Keys, v \in Values : Set(p, k, v)
    BY <1>3
  <2> DEFINE e == [key |-> k, value |-> v, created |-> now, accessed |-> now, stored |-> now]
  <2>2. job'[p] = [Call("set", "open") EXCEPT !.key = k, !.ent = e]
    BY <1>b, <2>1 DEF Set
  <2> HIDE DEF e
  <2> QED BY <2>2 DEF Call, IdleJob
<1>4. CASE Age(p)
  <2> DEFINE e == Touched(job[p].ent, now)
  <2>1. job[p].held = {}
    BY <1>4 DEF Age, At, NothingMoves
  <2>2. /\ [job[p] EXCEPT !.pc = "evict"].pc = "evict"
        /\ [job[p] EXCEPT !.pc = "evict"].held = {}
        /\ [job[p] EXCEPT !.pc = "open", !.ent = e].pc = "open"
        /\ [job[p] EXCEPT !.pc = "open", !.ent = e].held = {}
    BY <1>a, <2>1 DEF Jobs
  <2> HIDE DEF e
  <2>3. \/ job'[p] = [job[p] EXCEPT !.pc = "evict"]
        \/ job'[p] = [job[p] EXCEPT !.pc = "open", !.ent = e]
        \/ job'[p] = IdleJob("hit")
    BY <1>4, <1>b DEF Age, Goto, Return, e
  <2> QED BY <1>c, <2>2, <2>3
<1>5. CASE Evict(p) \/ Unlink(p) \/ RenameFails(p) \/ Vanished(p) \/ Pruned(p) \/ Cleared(p) \/ Crash(p)
  BY <1>5, <1>b, <1>c DEF Evict, Unlink, RenameFails, Vanished, Pruned, Cleared, Crash, Return
<1>6. CASE Rename(p)
  <2>1. Call("set", "list").pc = "list" /\ Call("set", "list").held = {}
    BY DEF Call, IdleJob
  <2> QED BY <1>6, <1>b, <1>c, <2>1 DEF Rename, AfterRename
<1>7. CASE SizeWalk(p) \/ Prune(p) \/ Clear(p) \/ Measured(p)
  <2>1. \A op, l : StartWalk(op, l).pc = l /\ StartWalk(op, l).held = {}
    BY DEF StartWalk, Call, IdleJob
  <2> QED BY <1>7, <2>1, <1>b, <1>c DEF SizeWalk, Prune, Clear, Measured, Return
<1> QED BY <1>1, <1>2, <1>3, <1>4, <1>5, <1>6, <1>7 DEF Step

LEMMA NothingMovesStep ==
    ASSUME TypeOK, InHand, SharedInv, AloneInv, Alone, NEW p \in Procs, Step(p)
    PROVE  NothingMoves'
<1> DEFINE j == job'[p]
<1> SUFFICES /\ j.pc = "data" => fd'[p] = Tmp(j.key)
             /\ j.pc = "rename" => file'[Tmp(j.key)] = j.ent
             /\ j.pc = "age" => file'[Entry(j.key)] = j.ent
             /\ j.pc \notin {"scan", "drop"} => j.held = {}
             /\ \A h \in j.held : file'[h.name] = h.ent
             /\ j.pc = "drop" => file'[j.name] = Empty
  BY DEF NothingMoves, Alone
<1>a. /\ file \in [Names -> Entries \cup {Absent, Empty}] /\ fd \in [Procs -> Names \cup {Nameless}]
      /\ Right(job[p]) /\ job \in [Procs -> Jobs] /\ job[p] \in Jobs
      /\ Absent \notin Entries /\ Empty \notin Entries /\ Absent # Empty
  BY FileContents DEF TypeOK, InHand
<1>b. ASSUME NEW i, Become(p, i)
      PROVE  job'[p] = i
  BY <1>a, <1>b DEF Become
<1>c. /\ job[p].pc = "data" => fd[p] = Tmp(job[p].key)
      /\ job[p].pc \notin {"scan", "drop"} => job[p].held = {}
      /\ \A h \in job[p].held : file[h.name] = h.ent
      /\ job[p].pc = "drop" => file[job[p].name] = Empty
      /\ \A h \in job[p].held : h.name \in Names /\ h.ent \in Entries
      /\ \A h, g \in job[p].held : h.name = g.name => h = g
  <2>1. job[p].held \subseteq [name : Names, ent : Entries]
    BY <1>a DEF Jobs
  <2> QED BY <2>1 DEF AloneInv, NothingMoves
<1>d. \A l, n : /\ [job[p] EXCEPT !.pc = l].pc = l
               /\ [job[p] EXCEPT !.pc = l].key = job[p].key
               /\ [job[p] EXCEPT !.pc = l].ent = job[p].ent
               /\ [job[p] EXCEPT !.pc = l].held = job[p].held
               /\ [job[p] EXCEPT !.pc = l].name = job[p].name
  BY <1>a DEF Jobs
<1>1. CASE Load(p)
  <2>1. file' = file /\ job[p].held = {}
    BY <1>1, <1>c DEF Load, At, FilesSame
  <2> DEFINE c == file[Entry(job[p].key)]
  <2>2. j = [job[p] EXCEPT !.pc = "evict"] \/ j = [job[p] EXCEPT !.pc = "age", !.ent = c]
    BY <1>1, <1>b DEF Load, Goto
  <2>3. CASE j = [job[p] EXCEPT !.pc = "evict"]
    BY <1>d, <2>1, <2>3
  <2>4. CASE j = [job[p] EXCEPT !.pc = "age", !.ent = c]
    <3>1. j.pc = "age" /\ j.ent = c /\ j.key = job[p].key /\ j.held = {}
      BY <1>a, <2>1, <2>4 DEF Jobs
    <3> QED BY <2>1, <3>1
  <2> QED BY <2>2, <2>3, <2>4
<1>2. CASE Open(p)
  <2>1. j = [job[p] EXCEPT !.pc = "data"] /\ job[p].held = {} /\ fd'[p] = Tmp(job[p].key)
    BY <1>2, <1>a, <1>b, <1>c DEF Open, At, OpenTmp, Goto
  <2> QED BY <1>d, <2>1
<1>3. CASE Data(p)
  <2>1. j = [job[p] EXCEPT !.pc = "rename"] /\ job[p].held = {}
    BY <1>3, <1>b, <1>c DEF Data, At, Goto
  <2>2. Tmp(job[p].key) \in Names
    BY <1>3, <1>a, NamesOfKey DEF Data, At, Right, Keyed
  <2>3. fd[p] = Tmp(job[p].key) /\ fd[p] # Nameless
    BY <1>3, <1>c, <2>2, NamesOfKey DEF Data, At
  <2>4. file'[Tmp(job[p].key)] = job[p].ent
    BY <1>3, <1>a, <2>2, <2>3 DEF Data, WriteBytes
  <2> QED BY <1>d, <2>1, <2>4
<1>4. CASE Scan(p)
  <2>1. file' = file /\ job[p].pc = "scan" /\ job[p].name \in Names /\ file[job[p].name] # Absent
    BY <1>4, <1>a DEF Scan, FilesSame, Visiting, At, Jobs
  <2>2. CASE file[job[p].name] = Empty
    <3>1. j = [job[p] EXCEPT !.pc = "drop"]
      BY <1>4, <1>b, <2>2 DEF Scan, Goto
    <3> QED BY <1>c, <1>d, <2>1, <2>2, <3>1
  <2>3. CASE file[job[p].name] # Empty
    <3> DEFINE h == [name |-> job[p].name, ent |-> file[job[p].name]]
    <3>1. j = [job[p] EXCEPT !.name = Nameless, !.held = @ \cup {h}]
      BY <1>4, <1>b, <2>3 DEF Scan
    <3>2. file[h.name] = h.ent
      OBVIOUS
    <3> HIDE DEF h
    <3>3. j.pc = "scan" /\ j.held = job[p].held \cup {h}
      BY <1>a, <2>1, <3>1 DEF Jobs
    <3> QED BY <1>c, <2>1, <3>2, <3>3
  <2> QED BY <2>2, <2>3
<1>5. CASE Drop(p)
  <2>1. j = [job[p] EXCEPT !.pc = "scan", !.name = Nameless] /\ file[job[p].name] = Empty
    BY <1>5, <1>b, <1>c DEF Drop, At
  <2>2. j.pc = "scan" /\ j.held = job[p].held
    BY <1>a, <2>1 DEF Jobs
  <2>3. \A h \in job[p].held : h.name # job[p].name /\ file'[h.name] = file[h.name]
    BY <1>5, <1>a, <1>c, <2>1 DEF Drop, RemoveIfThere, RemoveFile, FilesSame
  <2> QED BY <1>c, <2>2, <2>3
<1>6. CASE ClearOne(p)
  <2>1. j = [job[p] EXCEPT !.name = Nameless] /\ job[p].pc = "clear" /\ job[p].held = {}
    BY <1>6, <1>b, <1>c DEF ClearOne, Visiting, At
  <2>2. j.pc = "clear" /\ j.held = {}
    BY <1>a, <2>1 DEF Jobs
  <2> QED BY <2>2
<1>7. CASE Measure(p)
  <2>1. job[p].pc = "size" /\ job[p].held = {}
    BY <1>7, <1>c DEF Measure, Visiting, At
  <2>2. j.pc = "size" /\ j.held = {}
    BY <1>7, <1>a, <1>b, <2>1 DEF Measure, Jobs
  <2> QED BY <2>2
<1>8. CASE \E n \in Names : Visit(p, n)
  <2>1. file' = file /\ job[p].pc \in {"size", "scan", "clear"}
    BY <1>8 DEF Visit, Walks, FilesSame
  <2>2. j.pc = job[p].pc /\ j.held = job[p].held
    BY <1>8, <1>a, <1>b DEF Visit, Jobs
  <2> QED BY <1>c, <2>1, <2>2
<1>9. CASE \E h \in job[p].held : Discard(p, h)
  <2>1. PICK h \in job[p].held : Discard(p, h)
    BY <1>9
  <2>2. j.pc = "scan" /\ j.held = job[p].held \ {h}
    BY <2>1, <1>a, <1>b DEF Discard, Done, At, Jobs
  <2>3. \A g \in job[p].held \ {h} : file'[g.name] = file[g.name]
    BY <2>1, <1>a, <1>c DEF Discard, RemoveIfThere, RemoveFile, FilesSame
  <2> QED BY <1>c, <2>2, <2>3
<1>10. CASE j.pc \notin {"data", "rename", "age", "drop"} /\ j.held = {}
  BY <1>10
<1> QED BY <1>1, <1>2, <1>3, <1>4, <1>5, <1>6, <1>7, <1>8, <1>9, <1>10, CallSteps DEF AloneInv

\* The inductive invariant of a process that has the directory to itself.
THEOREM AloneCorrect ==
    ASSUME Alone
    PROVE  Spec => []AloneInv
<1>1. Init => AloneInv
  <2> SUFFICES ASSUME Init PROVE AloneInv
    OBVIOUS
  <2>1. \A n \in Names : file[n] = Absent
    BY DEF Init, EmptyDirectory
  <2>2. \A p \in Procs : job[p] = IdleJob("none")
    BY DEF Init
  <2>3. IdleJob("none").pc = "idle" /\ IdleJob("none").held = {} /\ IdleJob("none").ent = Empty
    BY DEF IdleJob
  <2> QED BY <2>1, <2>2, <2>3, FileContents, NamesOfKey
          DEF AloneInv, EntriesWhole, NothingMoves, PastUse, LastUse
<1>2. TypeOK /\ InHand /\ SharedInv /\ AloneInv /\ [Next]_vars => AloneInv'
  <2> SUFFICES ASSUME TypeOK, InHand, SharedInv, AloneInv, [Next]_vars PROVE AloneInv'
    OBVIOUS
  <2>a. EntriesWhole /\ NothingMoves /\ PastUse /\ (Bump > 0 => LastUse)
    BY DEF AloneInv
  <2>1. CASE UNCHANGED vars
    BY <2>a, <2>1 DEF vars, AloneInv, EntriesWhole, NothingMoves, PastUse, LastUse
  <2>2. CASE Tick
    <3>1. UNCHANGED <<file, fd, job, used>> /\ now \in Nat /\ now' = now + 1
      BY <2>2, DiskConstants DEF Tick, FilesSame, TypeOK, Times
    <3>2. EntriesWhole' /\ NothingMoves' /\ (Bump > 0 => LastUse')
      BY <2>a, <3>1 DEF EntriesWhole, NothingMoves, LastUse
    <3>3. \A e \in Entries : e.accessed \in Nat
      BY DiskConstants DEF Entries, Times
    <3>4. \A t \in Nat : t <= now => t <= now + 1
      BY <3>1
    <3>5. PastUse'
      BY <2>a, <3>1, <3>3, <3>4 DEF PastUse
    <3> QED BY <3>2, <3>5 DEF AloneInv
  <2>3. CASE \E p \in Procs : Step(p)
    BY <2>a, <2>3, EntriesWholeStep, NothingMovesStep, PastUseStep, LastUseStep DEF AloneInv
  <2> QED BY <2>1, <2>2, <2>3 DEF Next
<1> QED BY <1>1, <1>2, TypeCorrect, SharedCorrect, PTL DEF Spec

\* An entry's own name never holds a partly written file, wherever its one writer dies.
THEOREM EntriesCorrect ==
    ASSUME Alone
    PROVE  Spec => []EntriesWhole
<1>1. AloneInv => EntriesWhole
  BY DEF AloneInv
<1> QED BY <1>1, AloneCorrect, PTL

\* The size limit evicts in order of last use, up to Bump.
THEOREM EvictionCorrect ==
    ASSUME Alone, Bump > 0
    PROVE  Spec => EvictsLeastRecent
<1> DEFINE InOrder == \A p \in Procs : \A h \in job[p].held :
              Discard(p, h) /\ ~Expired(h.ent, job[p].at) /\ h.name = Entry(h.ent.key) =>
                  \A g \in job[p].held : g.name = Entry(g.ent.key) => used[h.ent.key] - used[g.ent.key] < Bump
<1>1. TypeOK /\ AloneInv => InOrder
  <2> SUFFICES ASSUME TypeOK, AloneInv, NEW p \in Procs, NEW h \in job[p].held, NEW g \in job[p].held,
                      Discard(p, h), ~Expired(h.ent, job[p].at),
                      h.name = Entry(h.ent.key), g.name = Entry(g.ent.key)
               PROVE  used[h.ent.key] - used[g.ent.key] < Bump
    OBVIOUS
  <2>1. \A i \in job[p].held : /\ i.name \in Names /\ i.ent \in Entries /\ file[i.name] = i.ent
                               /\ i.ent.key \in Keys /\ i.ent.accessed \in Nat /\ used[i.ent.key] \in Nat
    <3>1. job[p].held \subseteq [name : Names, ent : Entries]
      BY DEF TypeOK, Jobs
    <3> QED BY <3>1, DiskConstants DEF TypeOK, AloneInv, NothingMoves, Entries, Times
  <2>2. h.ent.accessed <= g.ent.accessed
    BY DEF Discard, ToRemove, TooOld, Oldest
  <2>3. used[h.ent.key] < h.ent.accessed + Bump /\ g.ent.accessed <= used[g.ent.key]
    BY <2>1 DEF AloneInv, LastUse
  <2>4. \A a, b, u, w \in Nat : a <= b /\ u < a + Bump /\ b <= w => u - w < Bump
    BY DiskConstants
  <2> QED BY <2>1, <2>2, <2>3, <2>4
<1>2. TypeOK /\ AloneInv => [InOrder]_vars
  BY <1>1
<1> QED BY <1>2, TypeCorrect, AloneCorrect, PTL DEF EvictsLeastRecent
-----------------------------------------------------------------------------
(* The size limit, for a process that has the directory to itself.         *)

\* The bytes of every file; what is absent has none.
Bytes == [n \in Names |-> IF file[n] = Absent THEN 0 ELSE Size(file[n])]

\* get_cache_size has added up what it visited, and prune has read what it visited: nothing
\* that lies in the directory is missed.
Measuring(j, L, w) == /\ j.todo \subseteq L /\ j.name \notin j.todo
                      /\ j.name \in L \cup {Nameless}
                      /\ j.sum = Weight(L \ (j.todo \cup {j.name}), w)
Scanning(j, L)     == L \subseteq j.todo \cup {j.name} \cup {h.name : h \in j.held}
WalkInv == \A p \in Procs :
    /\ job[p].pc = "size" => Measuring(job[p], Listing, Bytes)
    /\ job[p].pc \in {"scan", "drop"} => Scanning(job[p], Listing)
    /\ job[p].pc = "idle" /\ job[p].res = "stored" => Weight(Listing, Bytes) <= MaxSize

\* The steps of the two walks, and those that leave them.
LEMMA WalkSteps ==
    ASSUME TypeOK, InHand, NEW p \in Procs, Step(p)
    PROVE  \/ SizeWalk(p) \/ Prune(p) \/ Measure(p) \/ Measured(p) \/ Scan(p) \/ Drop(p) \/ Pruned(p)
           \/ \E n \in Names : Visit(p, n)
           \/ \E h \in job[p].held : Discard(p, h)
           \/ /\ job'[p].pc \notin {"size", "scan", "drop"}
              /\ job'[p].pc = "idle" => job'[p].res # "stored"
<1>a. job \in [Procs -> Jobs] /\ job[p] \in Jobs
  BY DEF TypeOK
<1>b. ASSUME NEW j, Become(p, j)
      PROVE  job'[p] = j
  BY <1>a, <1>b DEF Become
<1>c. \A r : IdleJob(r).pc = "idle" /\ IdleJob(r).res = r
  BY DEF IdleJob
<1>d. \A l : [job[p] EXCEPT !.pc = l].pc = l
  BY <1>a DEF Jobs
<1>1. CASE \E k \in Keys : Get(p, k)
  <2>1. \A k : [Call("get", "load") EXCEPT !.key = k].pc = "load"
    BY DEF Call, IdleJob
  <2> QED BY <1>1, <1>b, <2>1 DEF Get
<1>2. CASE \E k \in Keys : Delete(p, k)
  <2>1. \A k : [Call("delete", "unlink") EXCEPT !.key = k].pc = "unlink"
    BY DEF Call, IdleJob
  <2> QED BY <1>2, <1>b, <2>1 DEF Delete
<1>3. CASE \E k \in Keys, v \in Values : Set(p, k, v)
  <2>1. PICK k \in Keys, v \in Values : Set(p, k, v)
    BY <1>3
  <2> DEFINE e == [key |-> k, value |-> v, created |-> now, accessed |-> now, stored |-> now]
  <2>2. job'[p] = [Call("set", "open") EXCEPT !.key = k, !.ent = e]
    BY <1>b, <2>1 DEF Set
  <2> HIDE DEF e
  <2> QED BY <2>2 DEF Call, IdleJob
<1>4. CASE Load(p)
  <2> DEFINE c == file[Entry(job[p].key)]
  <2>1. [job[p] EXCEPT !.pc = "age", !.ent = c].pc = "age"
    BY <1>a DEF Jobs
  <2> QED BY <1>4, <1>b, <1>d, <2>1 DEF Load, Goto
<1>5. CASE Age(p)
  <2> DEFINE e == Touched(job[p].ent, now)
  <2>1. [job[p] EXCEPT !.pc = "open", !.ent = e].pc = "open"
    BY <1>a DEF Jobs
  <2>2. \/ job'[p] = [job[p] EXCEPT !.pc = "evict"]
        \/ job'[p] = [job[p] EXCEPT !.pc = "open", !.ent = e]
        \/ job'[p] = IdleJob("hit")
    BY <1>5, <1>b DEF Age, Goto, Return
  <2> HIDE DEF e
  <2>3. job'[p].pc = "evict" \/ job'[p].pc = "open" \/ job'[p] = IdleJob("hit")
    <3>1. CASE job'[p] = [job[p] EXCEPT !.pc = "evict"]
      BY <1>d, <3>1
    <3>2. CASE job'[p] = [job[p] EXCEPT !.pc = "open", !.ent = e]
      BY <2>1, <3>2
    <3> QED BY <2>2, <3>1, <3>2
  <2>4. job'[p] = IdleJob("hit") => job'[p].pc = "idle" /\ job'[p].res = "hit"
    BY <1>c, Zenon
  <2> QED BY <2>3, <2>4
<1>6. CASE Evict(p) \/ Unlink(p) \/ RenameFails(p) \/ Vanished(p) \/ Cleared(p) \/ Crash(p)
  BY <1>6, <1>b, <1>c DEF Evict, Unlink, RenameFails, Vanished, Cleared, Crash, Return
<1>7. CASE Open(p) \/ Data(p)
  BY <1>7, <1>b, <1>d DEF Open, Data, Goto
<1>8. CASE Rename(p)
  <2>1. Call("set", "list").pc = "list"
    BY DEF Call, IdleJob
  <2> QED BY <1>8, <1>b, <1>c, <2>1 DEF Rename, AfterRename
<1>9. CASE Clear(p)
  <2>1. StartWalk("clear", "clear").pc = "clear"
    BY DEF StartWalk, Call, IdleJob
  <2> QED BY <1>9, <1>b, <2>1 DEF Clear
<1>10. CASE ClearOne(p)
  <2>1. job'[p] = [job[p] EXCEPT !.name = Nameless] /\ job[p].pc = "clear"
    BY <1>10, <1>b DEF ClearOne, Visiting, At
  <2>2. job'[p].pc = "clear"
    BY <1>a, <2>1 DEF Jobs
  <2> QED BY <2>2
<1> QED BY <1>1, <1>2, <1>3, <1>4, <1>5, <1>6, <1>7, <1>8, <1>9, <1>10 DEF Step

\* A step makes at most one file.
LEMMA ListingStep ==
    ASSUME TypeOK, InHand, IsFiniteSet(Listing), NEW p \in Procs, Step(p)
    PROVE  IsFiniteSet(Listing')
<1>a. file \in [Names -> Entries \cup {Absent, Empty}] /\ Right(job[p])
  BY DEF TypeOK, InHand
<1>1. ASSUME NEW n, Listing' \subseteq Listing \cup {n} PROVE IsFiniteSet(Listing')
  <2>1. IsFiniteSet(Listing \cup {n})
    BY FS_AddElement
  <2> QED BY <1>1, <2>1, FS_Subset
<1>2. CASE FilesSame \/ (\E n : RemoveFile(n)) \/ Crash(p)
  <2>1. Listing' \subseteq Listing \cup {Nameless}
    BY <1>a, <1>2 DEF FilesSame, RemoveFile, Crash, CloseFile, Listing
  <2> QED BY <1>1, <2>1
<1>3. CASE Open(p)
  <2>1. Listing' \subseteq Listing \cup {Tmp(job[p].key)}
    BY <1>a, <1>3 DEF Open, OpenTmp, Listing
  <2> QED BY <1>1, <2>1
<1>4. CASE Data(p)
  <2>1. Listing' \subseteq Listing \cup {fd[p]}
    BY <1>a, <1>4 DEF Data, WriteBytes, Listing
  <2> QED BY <1>1, <2>1
<1>5. CASE Rename(p)
  <2>1. Listing' \subseteq Listing \cup {Entry(job[p].key)}
    BY <1>a, <1>5 DEF Rename, RenameTmp, Listing
  <2> QED BY <1>1, <2>1
<1> QED BY <1>2, <1>3, <1>4, <1>5, FileSteps

\* read_dir lists finitely many files, whatever the number of keys and processes.
LEMMA FiniteListing == Spec => []IsFiniteSet(Listing)
<1> DEFINE Few == IsFiniteSet(Listing)
<1>1. Init => Few
  <2> SUFFICES ASSUME Init PROVE Few
    OBVIOUS
  <2>1. Listing = {}
    BY DEF Init, EmptyDirectory, Listing
  <2> QED BY <2>1, FS_EmptySet
<1>2. TypeOK /\ InHand /\ Few /\ [Next]_vars => Few'
  <2> SUFFICES ASSUME TypeOK, InHand, Few, [Next]_vars PROVE Few'
    OBVIOUS
  <2>1. CASE UNCHANGED vars \/ Tick
    BY <2>1 DEF vars, Tick, FilesSame, Listing
  <2>2. CASE \E p \in Procs : Step(p)
    BY <2>2, ListingStep
  <2> QED BY <2>1, <2>2 DEF Next
<1> HIDE DEF Few
<1>3. Spec => []Few
  BY <1>1, <1>2, TypeCorrect, PTL DEF Spec
<1> QED BY <1>3 DEF Few

\* What get_cache_size and prune add up.
LEMMA DirectorySum ==
    ASSUME IsFiniteSet(Listing), \A n \in Listing : Size(file[n]) \in Nat
    PROVE  MapThenSumSet(LAMBDA n : Size(file[n]), Listing) = Weight(Listing, [n \in Listing |-> Size(file[n])])
<1> DEFINE w == [n \in Listing |-> Size(file[n])]
<1> DEFINE C(f) == f = [s \in SUBSET Listing |->
        IF s = {} THEN 0 ELSE Size(file[CHOOSE x \in s : TRUE]) + f[s \ {CHOOSE x \in s : TRUE}]]
<1>1. MapThenSumSet(LAMBDA n : Size(file[n]), Listing) = (CHOOSE f : C(f))[Listing]
  BY DEF MapThenSumSet, MapThenFoldSet
<1>2. ASSUME NEW f PROVE C(f) <=> SumRec(f, Listing, w)
  <2>1. \A s \in SUBSET Listing : s # {} => Size(file[CHOOSE x \in s : TRUE]) = w[CHOOSE x \in s : TRUE]
    OBVIOUS
  <2> HIDE DEF w
  <2> QED BY <2>1 DEF SumRec
<1>3. \A n \in Listing : w[n] \in Nat
  OBVIOUS
<1> HIDE DEF w, C
<1>4. \E f : SumRec(f, Listing, w)
  BY <1>3, SumExists
<1>5. C(CHOOSE f : C(f))
  BY <1>2, <1>4
<1>6. SumRec(CHOOSE f : C(f), Listing, w)
  BY <1>2, <1>5
<1> QED BY <1>1, <1>3, <1>6, SumIsWeight DEF w

LEMMA TotalSum ==
    ASSUME NEW H, IsFiniteSet(H), \A h \in H : Size(h.ent) \in Nat
    PROVE  Total(H) = Weight(H, [h \in H |-> Size(h.ent)])
<1> DEFINE w == [h \in H |-> Size(h.ent)]
<1> DEFINE C(f) == f = [s \in SUBSET H |->
        IF s = {} THEN 0 ELSE Size((CHOOSE x \in s : TRUE).ent) + f[s \ {CHOOSE x \in s : TRUE}]]
<1>1. Total(H) = (CHOOSE f : C(f))[H]
  BY DEF Total, MapThenSumSet, MapThenFoldSet
<1>2. ASSUME NEW f PROVE C(f) <=> SumRec(f, H, w)
  <2>1. \A s \in SUBSET H : s # {} => Size((CHOOSE x \in s : TRUE).ent) = w[CHOOSE x \in s : TRUE]
    OBVIOUS
  <2> HIDE DEF w
  <2> QED BY <2>1 DEF SumRec
<1>3. \A h \in H : w[h] \in Nat
  OBVIOUS
<1> HIDE DEF w, C
<1>4. \E f : SumRec(f, H, w)
  BY <1>3, SumExists
<1>5. C(CHOOSE f : C(f))
  BY <1>2, <1>4
<1>6. SumRec(CHOOSE f : C(f), H, w)
  BY <1>2, <1>5
<1> QED BY <1>1, <1>3, <1>6, SumIsWeight DEF w

\* The bytes of the directory are those of its files.
LEMMA BytesFacts ==
    ASSUME TypeOK
    PROVE  /\ \A n \in Names : Bytes[n] \in Nat
           /\ \A n \in Listing : Bytes[n] = Size(file[n]) /\ Size(file[n]) \in Nat
           /\ Listing \subseteq Names /\ Nameless \notin Listing
<1>1. \A n \in Names : file[n] # Absent => Size(file[n]) \in Nat
  BY Contents, SizeTyped
<1> QED BY <1>1, NamesOfKey DEF Bytes, Listing

LEMMA DirectoryBytes ==
    ASSUME TypeOK, IsFiniteSet(Listing)
    PROVE  /\ MapThenSumSet(LAMBDA n : Size(file[n]), Listing) = Weight(Listing, Bytes)
           /\ \A S \in SUBSET Listing : IsFiniteSet(Pile(S, Bytes))
<1>1. Listing \subseteq Names /\ \A n \in Listing : Bytes[n] = Size(file[n]) /\ Bytes[n] \in Nat
  BY BytesFacts
<1>2. ASSUME NEW S \in SUBSET Listing
      PROVE  IsFiniteSet(Pile(S, Bytes))
  <2>1. IsFiniteSet(S) /\ \A n \in S : Bytes[n] \in Nat
    BY <1>1, FS_Subset
  <2> QED BY <2>1, PileFinite
<1>3. Pile(Listing, [n \in Listing |-> Size(file[n])]) = Pile(Listing, Bytes)
  BY <1>1 DEF Pile
<1>4. MapThenSumSet(LAMBDA n : Size(file[n]), Listing) = Weight(Listing, [n \in Listing |-> Size(file[n])])
  BY <1>1, DirectorySum
<1> QED BY <1>2, <1>3, <1>4 DEF Weight

\* Nothing is left to remove only if what prune has read is within the limit.
LEMMA NothingToRemove ==
    ASSUME TypeOK, NEW p \in Procs, IsFiniteSet(job[p].held), ToRemove(p) = {}
    PROVE  Total(job[p].held) <= MaxSize
<1> DEFINE H == job[p].held
<1> SUFFICES ASSUME ~(Total(H) <= MaxSize) PROVE FALSE
  OBVIOUS
<1>1. H \subseteq [name : Names, ent : Entries]
  BY DEF TypeOK, Jobs
<1>2. \A h \in H : h.ent.accessed \in Nat /\ Size(h.ent) \in Nat
  BY <1>1, DiskConstants, SizeTyped DEF Entries, Times
<1>3. Total(H) = Weight(H, [h \in H |-> Size(h.ent)])
  BY <1>2, TotalSum
<1>4. Total(H) \in Nat
  BY <1>2, <1>3, PileFinite
<1>5. Total(H) > MaxSize /\ MaxSize \in Nat
  BY <1>4, DiskConstants
<1>6. H # {}
  <2>1. ASSUME H = {} PROVE FALSE
    <3>1. Pile(H, [h \in H |-> Size(h.ent)]) = {}
      BY <2>1 DEF Pile
    <3>2. Total(H) = 0
      BY <1>3, <3>1, FS_EmptySet DEF Weight
    <3> QED BY <1>5, <3>2
  <2> QED BY <2>1
<1>7. Oldest(H) = {}
  BY <1>5 DEF ToRemove
<1> HIDE DEF H
<1>8. PICK t \in {h.ent.accessed : h \in H} : \A u \in {h.ent.accessed : h \in H} : t <= u
  <2>1. {h.ent.accessed : h \in H} \subseteq Nat /\ {h.ent.accessed : h \in H} # {}
    BY <1>2, <1>6
  <2> QED BY <2>1, LeastNumber
<1>9. PICK h \in H : t = h.ent.accessed
  OBVIOUS
<1>10. h \in Oldest(H)
  BY <1>8, <1>9 DEF Oldest
<1> QED BY <1>7, <1>10

\* A prune that ends has seen every file of the directory, and they are within the limit.
LEMMA PrunedWithin ==
    ASSUME TypeOK, AloneInv, IsFiniteSet(Listing), NEW p \in Procs, Scanning(job[p], Listing), Pruned(p)
    PROVE  Weight(Listing, Bytes) <= MaxSize
<1> DEFINE H == job[p].held
<1> DEFINE v == [h \in H |-> Size(h.ent)]
<1>1. ToRemove(p) = {} /\ job[p].name = Nameless /\ job[p].todo = {}
  BY DEF Pruned, Done
<1>2. /\ H \subseteq [name : Names, ent : Entries]
      /\ \A h \in H : h.name \in Names /\ h.ent \in Entries /\ file[h.name] = h.ent
  BY DEF TypeOK, Jobs, AloneInv, NothingMoves
<1>3. \A h \in H : h.name \in Listing
  BY <1>2, FileContents DEF Listing
<1>4. \A n \in Listing : \E h \in H : h.name = n
  BY <1>1, BytesFacts DEF Scanning
<1>5. \A n \in Listing : [name |-> n, ent |-> file[n]] \in H
  <2>1. ASSUME NEW n \in Listing PROVE [name |-> n, ent |-> file[n]] \in H
    <3>1. PICK h \in H : h.name = n
      BY <1>4
    <3>2. h = [name |-> n, ent |-> file[n]]
      BY <1>2, <3>1
    <3> QED BY <3>2
  <2> QED BY <2>1
<1>6. IsFiniteSet(H)
  <2> DEFINE f == [h \in H |-> h.name]
  <2>1. f \in [H -> Listing] /\ \A a, b \in H : f[a] = f[b] => a = b
    BY <1>2, <1>3
  <2> HIDE DEF f, H
  <2> QED BY <2>1, FewerByInjection
<1>7. \A h \in H : v[h] = Size(h.ent) /\ v[h] \in Nat
  BY <1>2, SizeTyped
<1>8. Weight(H, v) <= MaxSize /\ Weight(H, v) \in Nat /\ IsFiniteSet(Pile(H, v))
  <2>1. Total(H) = Weight(H, v)
    BY <1>6, <1>7, TotalSum
  <2>2. Total(H) <= MaxSize
    BY <1>1, <1>6, NothingToRemove
  <2> HIDE DEF H, v
  <2> QED BY <1>6, <1>7, <2>1, <2>2, PileFinite
<1>9. Weight(Listing, Bytes) <= Weight(H, v)
  <2> DEFINE g == [n \in Listing |-> [name |-> n, ent |-> file[n]]]
  <2>1. g \in [Listing -> H] /\ \A a, b \in Listing : g[a] = g[b] => a = b
    BY <1>5
  <2>2. \A n \in Listing : Bytes[n] = v[g[n]]
    <3>1. \A n \in Listing : v[g[n]] = Size(file[n])
      BY <1>5
    <3> QED BY <3>1, BytesFacts
  <2> HIDE DEF g, H, v
  <2> QED BY <1>8, <2>1, <2>2, LighterByInjection
<1>10. Weight(Listing, Bytes) \in Nat
  BY BytesFacts, PileFinite
<1>11. \A a, b, c \in Nat : a <= b /\ b <= c => a <= c
  OBVIOUS
<1> HIDE DEF H, v
<1> QED BY <1>8, <1>9, <1>10, <1>11, DiskConstants

\* What a removal leaves of the directory.
LEMMA ListingAfterRemoval ==
    ASSUME TypeOK, NEW n, RemoveIfThere(n)
    PROVE  Listing' = Listing \ {n}
  BY FileContents DEF TypeOK, RemoveIfThere, RemoveFile, FilesSame, Listing

\* A step of the process that has the directory to itself.
LEMMA WalkStep ==
    ASSUME TypeOK, InHand, AloneInv, WalkInv, Alone, IsFiniteSet(Listing), NEW p \in Procs, Step(p)
    PROVE  WalkInv'
<1> DEFINE j == job'[p]
<1> SUFFICES /\ j.pc = "size" => Measuring(j, Listing', Bytes')
             /\ j.pc \in {"scan", "drop"} => Scanning(j, Listing')
             /\ j.pc = "idle" /\ j.res = "stored" => Weight(Listing', Bytes') <= MaxSize
  BY DEF WalkInv, Alone
<1>a. /\ job \in [Procs -> Jobs] /\ job[p] \in Jobs
      /\ job[p].pc = "size" => Measuring(job[p], Listing, Bytes)
      /\ job[p].pc \in {"scan", "drop"} => Scanning(job[p], Listing)
  BY DEF TypeOK, WalkInv
<1>b. ASSUME NEW i, Become(p, i)
      PROVE  job'[p] = i
  BY <1>a, <1>b DEF Become
<1>c. FilesSame => Listing' = Listing /\ Bytes' = Bytes
  BY DEF FilesSame, Listing, Bytes
<1>d. Listing \subseteq Names /\ Nameless \notin Listing
  BY BytesFacts
<1>e. \A r : IdleJob(r).pc = "idle" /\ IdleJob(r).res = r
  BY DEF IdleJob
<1>f. \A op, l : LET w == StartWalk(op, l)
                 IN  w.pc = l /\ w.todo = Listing /\ w.name = Nameless /\ w.sum = 0
  BY <1>d DEF StartWalk, Call, IdleJob, Owned
<1>1. CASE SizeWalk(p)
  <2>1. j = StartWalk("set", "size") /\ FilesSame
    BY <1>1, <1>b DEF SizeWalk
  <2>2. j.pc = "size" /\ j.todo = Listing /\ j.name = Nameless /\ j.sum = 0
    BY <1>f, <2>1
  <2> HIDE DEF j
  <2>3. Pile(Listing \ (j.todo \cup {j.name}), Bytes) = {}
    BY <2>2 DEF Pile
  <2>4. Weight(Listing \ (j.todo \cup {j.name}), Bytes) = 0
    BY <2>3, FS_EmptySet DEF Weight
  <2>5. Measuring(j, Listing', Bytes')
    BY <1>c, <1>d, <2>1, <2>2, <2>4 DEF Measuring
  <2> QED BY <2>2, <2>5
<1>2. CASE Prune(p) \/ (Measured(p) /\ job[p].sum > MaxSize)
  <2>1. FilesSame /\ \E op : j = StartWalk(op, "scan")
    BY <1>2, <1>b DEF Prune, Measured
  <2>2. j.pc = "scan" /\ j.todo = Listing
    BY <1>f, <2>1
  <2>3. Scanning(j, Listing')
    BY <1>c, <2>1, <2>2 DEF Scanning
  <2> QED BY <2>2, <2>3
<1>3. CASE Measured(p) /\ ~(job[p].sum > MaxSize)
  <2>1. j = IdleJob("stored") /\ FilesSame
    BY <1>3, <1>b DEF Measured, Return
  <2>2. job[p].todo = {} /\ job[p].name = Nameless /\ Measuring(job[p], Listing, Bytes)
    BY <1>3, <1>a DEF Measured, Done, At
  <2>3. Listing \ (job[p].todo \cup {job[p].name}) = Listing
    BY <1>d, <2>2
  <2>4. job[p].sum = Weight(Listing, Bytes) /\ job[p].sum \in Nat
    BY <1>a, <2>2, <2>3 DEF Measuring, Jobs
  <2>5. Weight(Listing, Bytes) <= MaxSize
    BY <1>3, <2>4, DiskConstants
  <2> QED BY <1>c, <1>e, <2>1, <2>5
<1>4. CASE \E n \in Names : Visit(p, n)
  <2>1. PICK n \in Names : Visit(p, n)
    BY <1>4
  <2>2. j = [job[p] EXCEPT !.todo = @ \ {n}, !.name = IF file[n] = Absent THEN Nameless ELSE n]
    BY <1>b, <2>1 DEF Visit
  <2>3. /\ j.pc = job[p].pc /\ j.todo = job[p].todo \ {n} /\ j.sum = job[p].sum /\ j.held = job[p].held
        /\ j.name = IF file[n] = Absent THEN Nameless ELSE n
    BY <1>a, <2>2 DEF Jobs
  <2> HIDE DEF j
  <2>4. job[p].name = Nameless /\ n \in job[p].todo /\ FilesSame /\ job[p].pc \in Walks
    BY <2>1 DEF Visit
  <2>5. ASSUME job[p].pc = "size" PROVE Measuring(j, Listing', Bytes')
    <3>1. Measuring(job[p], Listing, Bytes)
      BY <1>a, <2>5
    <3>2. n \in Listing /\ j.name = n
      BY <2>3, <2>4, <3>1 DEF Measuring, Listing
    <3>3. Listing \ (j.todo \cup {j.name}) = Listing \ (job[p].todo \cup {job[p].name})
      BY <1>d, <2>3, <2>4, <3>2
    <3>4. j.todo \subseteq Listing /\ j.name \notin j.todo
      BY <2>3, <3>1, <3>2 DEF Measuring
    <3> QED BY <1>c, <2>3, <2>4, <3>1, <3>2, <3>3, <3>4 DEF Measuring
  <2>6. ASSUME job[p].pc = "scan" PROVE Scanning(j, Listing')
    <3>1. Listing \subseteq job[p].todo \cup {job[p].name} \cup {h.name : h \in job[p].held}
      BY <1>a, <2>6 DEF Scanning
    <3>2. n \in Listing => j.name = n
      BY <2>3 DEF Listing
    <3>3. Listing \subseteq j.todo \cup {j.name} \cup {h.name : h \in j.held}
      BY <1>d, <2>3, <2>4, <3>1, <3>2
    <3> QED BY <1>c, <2>4, <3>3 DEF Scanning
  <2> QED BY <2>3, <2>4, <2>5, <2>6 DEF Walks
<1>5. CASE Measure(p)
  <2>1. /\ j = [job[p] EXCEPT !.sum = @ + Size(file[job[p].name]), !.name = Nameless]
        /\ job[p].pc = "size" /\ FilesSame /\ job[p].name # Nameless
    BY <1>5, <1>b DEF Measure, Visiting, At
  <2>2. /\ j.pc = "size" /\ j.name = Nameless /\ j.todo = job[p].todo
        /\ j.sum = job[p].sum + Size(file[job[p].name]) /\ job[p].sum \in Nat
    BY <1>a, <2>1 DEF Jobs
  <2> HIDE DEF j
  <2>3. Measuring(job[p], Listing, Bytes)
    BY <1>a, <2>1
  <2> DEFINE R == Listing \ (job[p].todo \cup {job[p].name})
             x == job[p].name
  <2>4. x \in Listing /\ x \notin R /\ x \notin job[p].todo /\ R \cup {x} = Listing \ (j.todo \cup {j.name})
    BY <1>d, <2>1, <2>2, <2>3 DEF Measuring
  <2>5. Bytes[x] = Size(file[x]) /\ Bytes[x] \in Nat /\ IsFiniteSet(Pile(R, Bytes))
    BY <2>4, BytesFacts, DirectoryBytes
  <2>6. Weight(R, Bytes) = job[p].sum
    BY <2>3 DEF Measuring
  <2>7. j.sum = Bytes[x] + Weight(R, Bytes)
    BY <2>2, <2>5, <2>6
  <2> HIDE DEF R, x
  <2>8. Weight(R \cup {x}, Bytes) = Bytes[x] + Weight(R, Bytes)
    BY <2>4, <2>5, PileAdd
  <2>9. j.sum = Weight(Listing \ (j.todo \cup {j.name}), Bytes)
    BY <2>4, <2>7, <2>8
  <2>10. Measuring(j, Listing', Bytes')
    BY <1>c, <1>d, <2>1, <2>2, <2>3, <2>9 DEF Measuring
  <2> QED BY <2>2, <2>10
<1>6. CASE Scan(p)
  <2>1. job[p].pc = "scan" /\ FilesSame /\ Scanning(job[p], Listing)
    BY <1>6, <1>a DEF Scan, Visiting, At
  <2> DEFINE n == job[p].name
             c == file[n]
  <2>2. CASE c = Empty
    <3>1. j = [job[p] EXCEPT !.pc = "drop"]
      BY <1>6, <1>b, <2>2 DEF Scan, Goto
    <3>2. j.pc = "drop" /\ j.name = job[p].name /\ j.todo = job[p].todo /\ j.held = job[p].held
      BY <1>a, <3>1 DEF Jobs
    <3> HIDE DEF j
    <3>3. Scanning(j, Listing')
      BY <1>c, <2>1, <3>2 DEF Scanning
    <3> QED BY <3>2, <3>3
  <2>3. CASE c # Empty
    <3>1. j = [job[p] EXCEPT !.name = Nameless, !.held = @ \cup {[name |-> n, ent |-> c]}]
      BY <1>6, <1>b, <2>3 DEF Scan
    <3>2. j.pc = "scan" /\ j.todo = job[p].todo /\ j.held = job[p].held \cup {[name |-> n, ent |-> c]}
      BY <1>a, <2>1, <3>1 DEF Jobs
    <3> HIDE DEF j
    <3>3. \A m \in Listing : m \in j.todo \/ \E h \in j.held : h.name = m
      <4>1. \A m \in Listing : m \in job[p].todo \/ m = n \/ \E h \in job[p].held : h.name = m
        BY <2>1 DEF Scanning
      <4>2. [name |-> n, ent |-> c].name = n
        OBVIOUS
      <4> HIDE DEF n, c
      <4> QED BY <3>2, <4>1, <4>2
    <3>4. Listing \subseteq j.todo \cup {j.name} \cup {h.name : h \in j.held}
      BY <3>3
    <3>5. Scanning(j, Listing')
      BY <1>c, <2>1, <3>4 DEF Scanning
    <3> QED BY <3>2, <3>5
  <2> QED BY <2>2, <2>3
<1>7. CASE Drop(p)
  <2>1. /\ job[p].pc = "drop" /\ Scanning(job[p], Listing) /\ Listing' = Listing \ {job[p].name}
        /\ j = [job[p] EXCEPT !.pc = "scan", !.name = Nameless]
    BY <1>7, <1>a, <1>b, ListingAfterRemoval DEF Drop, At
  <2>2. j.pc = "scan" /\ j.name = Nameless /\ j.todo = job[p].todo /\ j.held = job[p].held
    BY <1>a, <2>1 DEF Jobs
  <2> HIDE DEF j
  <2>3. Scanning(j, Listing')
    BY <2>1, <2>2 DEF Scanning
  <2> QED BY <2>2, <2>3
<1>8. CASE \E h \in job[p].held : Discard(p, h)
  <2>1. PICK h \in job[p].held : Discard(p, h)
    BY <1>8
  <2>2. /\ job[p].pc = "scan" /\ Scanning(job[p], Listing) /\ Listing' = Listing \ {h.name}
        /\ j = [job[p] EXCEPT !.held = @ \ {h}]
    BY <2>1, <1>a, <1>b, ListingAfterRemoval DEF Discard, Done, At
  <2>3. j.pc = "scan" /\ j.name = job[p].name /\ j.todo = job[p].todo /\ j.held = job[p].held \ {h}
    BY <1>a, <2>2 DEF Jobs
  <2> HIDE DEF j
  <2>4. Listing \ {h.name} \subseteq j.todo \cup {j.name} \cup {g.name : g \in j.held}
    BY <2>2, <2>3 DEF Scanning
  <2>5. Scanning(j, Listing')
    BY <2>2, <2>4 DEF Scanning
  <2> QED BY <2>3, <2>5
<1>9. CASE Pruned(p)
  <2>1. job[p].pc = "scan" /\ FilesSame /\ \E r : j = IdleJob(r)
    BY <1>9, <1>b DEF Pruned, Done, At, Return
  <2>2. Weight(Listing, Bytes) <= MaxSize
    BY <1>9, <1>a, <2>1, PrunedWithin
  <2> QED BY <1>c, <1>e, <2>1, <2>2
<1>10. CASE /\ job'[p].pc \notin {"size", "scan", "drop"}
            /\ job'[p].pc = "idle" => job'[p].res # "stored"
  BY <1>10
<1> QED BY <1>1, <1>2, <1>3, <1>4, <1>5, <1>6, <1>7, <1>8, <1>9, <1>10, WalkSteps

\* The inductive invariant of the walks.
THEOREM WalkCorrect ==
    ASSUME Alone
    PROVE  Spec => []WalkInv
<1> DEFINE Few == IsFiniteSet(Listing)
<1>1. Init => WalkInv
  <2> SUFFICES ASSUME Init PROVE WalkInv
    OBVIOUS
  <2>1. \A p \in Procs : job[p].pc = "idle" /\ job[p].res = "none"
    BY DEF Init, IdleJob
  <2> QED BY <2>1 DEF WalkInv
<1>2. TypeOK /\ InHand /\ AloneInv /\ Few /\ WalkInv /\ [Next]_vars => WalkInv'
  <2> SUFFICES ASSUME TypeOK, InHand, AloneInv, Few, WalkInv, [Next]_vars PROVE WalkInv'
    OBVIOUS
  <2>1. CASE UNCHANGED vars \/ Tick
    <3>1. job' = job /\ Listing' = Listing /\ Bytes' = Bytes
      BY <2>1 DEF vars, Tick, FilesSame, Listing, Bytes
    <3> QED BY <3>1 DEF WalkInv, Measuring, Scanning
  <2>2. CASE \E p \in Procs : Step(p)
    BY <2>2, WalkStep
  <2> QED BY <2>1, <2>2 DEF Next
<1> HIDE DEF Few
<1>3. Spec => []Few
  BY FiniteListing DEF Few
<1> QED BY <1>1, <1>2, <1>3, TypeCorrect, AloneCorrect, PTL DEF Spec

\* A set that returned left the directory, the tmp files of dead processes included, within
\* max_size_bytes.
THEOREM LimitCorrect ==
    ASSUME Alone
    PROVE  Spec => []SetEndsWithinLimit
<1> DEFINE Few == IsFiniteSet(Listing)
<1>1. TypeOK /\ Few /\ WalkInv => SetEndsWithinLimit
  BY DirectoryBytes DEF SetEndsWithinLimit, WalkInv
<1>2. Spec => []Few
  BY FiniteListing
<1> HIDE DEF Few
<1> QED BY <1>1, <1>2, TypeCorrect, WalkCorrect, PTL
-----------------------------------------------------------------------------
(* The refinement of CacheMap by a process that has the directory to       *)
(* itself.                                                                 *)

\* What such a process finds is still there at its next step, what it evicts has expired, and
\* a clear has removed what it has visited.
Serving(j, f, t) ==
    /\ j.pc \in {"load", "unlink"} => f[Entry(j.key)] # Absent
    /\ j.pc = "evict" => j.ent \in Entries /\ f[Entry(j.key)] = j.ent /\ Expired(j.ent, t)
    /\ j.pc \in Walks /\ j.name # Nameless => f[j.name] # Absent
    /\ j.pc = "clear" => j.op = "clear" /\ \A n \in Names : f[n] # Absent => n \in j.todo \cup {j.name}
    /\ j.pc \in {"load", "age", "evict"} => j.op = "get"
    /\ j.pc \in {"open", "data", "rename"} => \/ j.op = "set"
                                              \/ /\ j.op = "get" /\ f[Entry(j.key)] # Absent
                                                 /\ Item(f[Entry(j.key)]) = Item(j.ent)
    /\ j.pc \in {"list", "size"} => j.op = "set"
    /\ j.pc \in {"scan", "drop"} => j.op \in {"set", "prune"}
    /\ j.pc # "idle" => j.res = "none"
ServeInv == \A p \in Procs : Serving(job[p], file, now)

\* A step of the map, or none.
MapStep == Map!Next \/ UNCHANGED Map!vars

LEMMA MeFacts ==
    ASSUME Alone, NEW p \in Procs
    PROVE  Me = p
  <1>1. Me \in Procs
    BY DEF Me
  <1> QED
    BY <1>1 DEF Alone

\* What a call, a step of a call and a return leave in a job.
LEMMA JobFields ==
    ASSUME NEW j \in Jobs
    PROVE  \A l : LET i == [j EXCEPT !.pc = l]
                  IN  /\ i.pc = l /\ i.op = j.op /\ i.key = j.key /\ i.ent = j.ent /\ i.res = j.res
                      /\ i.name = j.name /\ i.todo = j.todo /\ i.held = j.held
  BY DEF Jobs

LEMMA CallFields ==
    /\ \A r : IdleJob(r).pc = "idle" /\ IdleJob(r).res = r /\ IdleJob(r).name = Nameless
    /\ \A op, l : LET c == Call(op, l) IN c.pc = l /\ c.op = op /\ c.res = "none" /\ c.name = Nameless
    /\ \A op, l, k : LET c == [Call(op, l) EXCEPT !.key = k] IN c.pc = l /\ c.op = op /\ c.key = k /\ c.res = "none"
    /\ \A op, l, k, e : LET c == [Call(op, l) EXCEPT !.key = k, !.ent = e]
                        IN  c.pc = l /\ c.op = op /\ c.key = k /\ c.ent = e /\ c.res = "none"
    /\ \A op, l : LET c == StartWalk(op, l)
                  IN  /\ c.pc = l /\ c.op = op /\ c.res = "none" /\ c.name = Nameless
                      /\ c.todo = Listing \cap Owned
  BY DEF IdleJob, Call, StartWalk

\* The map is what lies under the keys: tmp files are no part of it.
LEMMA StoredFacts ==
    ASSUME TypeOK
    PROVE  /\ \A k \in Keys : k \in DOMAIN Stored <=> file[Entry(k)] # Absent
           /\ \A k \in DOMAIN Stored : k \in Keys /\ Stored[k] = Item(file[Entry(k)])
           /\ FilesSame => Stored' = Stored
           /\ \A p : CloseFile(p) => Stored' = Stored
  BY DEF Stored, FilesSame, CloseFile

LEMMA StoredMoves ==
    ASSUME TypeOK
    PROVE  /\ \A p, k : k \in Keys /\ OpenTmp(p, k) => Stored' = Stored
           /\ \A p, c, k : k \in Keys /\ fd[p] = Tmp(k) /\ WriteBytes(p, c) => Stored' = Stored
           /\ \A k \in Keys : RemoveIfThere(Tmp(k)) => Stored' = Stored
           /\ \A k \in Keys : RemoveIfThere(Entry(k)) =>
                 Stored' = [l \in DOMAIN Stored \ {k} |-> Stored[l]]
           /\ \A k \in Keys : RenameTmp(k) /\ file[Tmp(k)] # Absent =>
                 Stored' = [l \in DOMAIN Stored \cup {k} |-> IF l = k THEN Item(file[Tmp(k)]) ELSE Stored[l]]
  <1>a. /\ file \in [Names -> Entries \cup {Absent, Empty}] /\ Absent # Empty
        /\ \A k \in Keys : Entry(k) \in Names /\ Tmp(k) \in Names
        /\ \A k, l \in Keys : Entry(k) # Tmp(l) /\ (Entry(k) = Entry(l) => k = l)
    BY NamesOfKey, FileContents DEF TypeOK
  <1>0. ASSUME \A l \in Keys : file'[Entry(l)] = file[Entry(l)] PROVE Stored' = Stored
    BY <1>0 DEF Stored
  <1>1. ASSUME NEW p, NEW k \in Keys, OpenTmp(p, k) PROVE Stored' = Stored
    BY <1>a, <1>0, <1>1 DEF OpenTmp
  <1>2. ASSUME NEW p, NEW c, NEW k \in Keys, fd[p] = Tmp(k), WriteBytes(p, c) PROVE Stored' = Stored
    BY <1>a, <1>0, <1>2 DEF WriteBytes
  <1>3. ASSUME NEW k \in Keys, RemoveIfThere(Tmp(k)) PROVE Stored' = Stored
    BY <1>a, <1>0, <1>3 DEF RemoveIfThere, RemoveFile, FilesSame
  <1>4. ASSUME NEW k \in Keys, RemoveIfThere(Entry(k))
        PROVE  Stored' = [l \in DOMAIN Stored \ {k} |-> Stored[l]]
    <2>1. \A l \in Keys : file'[Entry(l)] = IF l = k THEN Absent ELSE file[Entry(l)]
      BY <1>a, <1>4 DEF RemoveIfThere, RemoveFile, FilesSame
    <2>2. DOMAIN Stored = {l \in Keys : file[Entry(l)] # Absent}
      BY DEF Stored
    <2>3. {l \in Keys : file'[Entry(l)] # Absent} = DOMAIN Stored \ {k}
      BY <2>1, <2>2
    <2>4. Stored' = [l \in DOMAIN Stored \ {k} |-> Item(file'[Entry(l)])]
      BY <2>3 DEF Stored
    <2>5. \A l \in DOMAIN Stored \ {k} : Item(file'[Entry(l)]) = Stored[l]
      BY <2>1, <2>2 DEF Stored
    <2> HIDE DEF Stored
    <2> QED
      BY <2>4, <2>5
  <1>5. ASSUME NEW k \in Keys, RenameTmp(k), file[Tmp(k)] # Absent
        PROVE  Stored' = [l \in DOMAIN Stored \cup {k} |-> IF l = k THEN Item(file[Tmp(k)]) ELSE Stored[l]]
    <2>1. \A l \in Keys : file'[Entry(l)] = IF l = k THEN file[Tmp(k)] ELSE file[Entry(l)]
      BY <1>a, <1>5 DEF RenameTmp
    <2>2. DOMAIN Stored = {l \in Keys : file[Entry(l)] # Absent}
      BY DEF Stored
    <2>3. {l \in Keys : file'[Entry(l)] # Absent} = DOMAIN Stored \cup {k}
      BY <1>5, <2>1, <2>2
    <2>4. Stored' = [l \in DOMAIN Stored \cup {k} |-> Item(file'[Entry(l)])]
      BY <2>3 DEF Stored
    <2>5. \A l \in DOMAIN Stored \cup {k} : Item(file'[Entry(l)]) = IF l = k THEN Item(file[Tmp(k)]) ELSE Stored[l]
      BY <2>1, <2>2 DEF Stored
    <2> QED
      BY <2>4, <2>5
  <1> QED
    BY <1>1, <1>2, <1>3, <1>4, <1>5

Standing == TypeOK /\ InHand /\ AloneInv /\ ServeInv

LEMMA StandFacts ==
    ASSUME Standing, Alone, NEW p \in Procs
    PROVE  /\ job[p] \in Jobs /\ Right(job[p]) /\ Serving(job[p], file, now) /\ Me = p
           /\ NothingMoves /\ EntriesWhole /\ TypeOK /\ InHand
           /\ job[p].pc \in Keyed => /\ job[p].key \in Keys
                                     /\ job[p].key \in DOMAIN Stored <=> file[Entry(job[p].key)] # Absent
                                     /\ file[Entry(job[p].key)] # Empty
  <1>1. job[p] \in Jobs /\ Right(job[p]) /\ Serving(job[p], file, now) /\ Me = p /\ TypeOK /\ InHand
    BY MeFacts DEF Standing, TypeOK, InHand, ServeInv
  <1>2. NothingMoves /\ EntriesWhole
    BY DEF Standing, AloneInv
  <1>3. job[p].pc \in Keyed => job[p].key \in Keys
    BY <1>1 DEF Right
  <1> QED
    BY <1>1, <1>2, <1>3, StoredFacts DEF EntriesWhole

LEMMA StepServes ==
    ASSUME Standing, Alone, NEW p \in Procs, NEW j, Become(p, j), Serving(j, file', now')
    PROVE  ServeInv' /\ job'[Me] = j /\ Me = p
  <1>1. Me = p /\ job' = [job EXCEPT ![p] = j] /\ job \in [Procs -> Jobs]
    BY MeFacts DEF Standing, TypeOK, Become
  <1>2. job'[p] = j /\ \A q \in Procs : q = p
    BY <1>1 DEF Alone
  <1> QED
    BY <1>1, <1>2 DEF ServeInv

LEMMA Stutters ==
    ASSUME Stored' = Stored, Phase(job'[Me]) = Phase(job[Me]), job'[Me].res = job[Me].res, now' = now
    PROVE  MapStep
  BY DEF MapStep, Map!vars

LEMMA CalledServes ==
    ASSUME Standing, Alone, NEW p \in Procs, NEW k \in Keys, Get(p, k) \/ Delete(p, k)
    PROVE  ServeInv' /\ MapStep
  <1>0. PICK l : \/ Get(p, k) /\ l = [Call("get", "load") EXCEPT !.key = k]
                 \/ Delete(p, k) /\ l = [Call("delete", "unlink") EXCEPT !.key = k]
    OBVIOUS
  <1>1. /\ Become(p, l) /\ job[p].pc = "idle" /\ file[Entry(k)] # Absent
        /\ FilesSame /\ now' = now /\ l.key = k /\ l.res = "none"
        /\ (l.pc = "load" /\ l.op = "get") \/ l.pc = "unlink"
    <2>1. CASE l = [Call("get", "load") EXCEPT !.key = k] /\ Get(p, k)
      <3>1. l.pc = "load" /\ l.op = "get" /\ l.key = k /\ l.res = "none"
        BY <2>1, CallFields
      <3> QED
        BY <2>1, <3>1 DEF Get, At, OthersSame
    <2>2. CASE l = [Call("delete", "unlink") EXCEPT !.key = k] /\ Delete(p, k)
      <3>1. l.pc = "unlink" /\ l.key = k /\ l.res = "none"
        BY <2>2, CallFields
      <3> QED
        BY <2>2, <3>1 DEF Delete, At, OthersSame
    <2> QED
      BY <1>0, <2>1, <2>2
  <1>2. Serving(l, file', now')
    BY <1>1 DEF Serving, FilesSame, Walks
  <1>3. ServeInv' /\ job'[Me] = l /\ Me = p
    BY <1>1, <1>2, StepServes
  <1>4. Stored' = Stored /\ k \in DOMAIN Stored
    BY <1>1, StoredFacts DEF Standing
  <1>5. Phase(job[Me]) = <<"nothing">>
    BY <1>1, <1>3 DEF Phase
  <1>6. CASE l.pc = "load"
    <2>1. Phase(job'[Me]) = <<"get", k>>
      BY <1>1, <1>3, <1>6 DEF Phase
    <2>2. Map!Get(k)
      BY <1>1, <1>3, <1>4, <1>5, <2>1 DEF Map!Get, Map!Begin, Map!Rest
    <2> QED
      BY <1>3, <1>4, <2>2 DEF MapStep, Map!Next
  <1>7. CASE l.pc = "unlink"
    <2>1. Phase(job'[Me]) = <<"delete", k>>
      BY <1>1, <1>3, <1>7 DEF Phase
    <2>2. Map!Delete(k)
      BY <1>1, <1>3, <1>4, <1>5, <2>1 DEF Map!Delete, Map!Begin, Map!Rest
    <2> QED
      BY <1>3, <1>4, <2>2 DEF MapStep, Map!Next
  <1> QED
    BY <1>1, <1>6, <1>7

LEMMA SetServes ==
    ASSUME Standing, Alone, NEW p \in Procs, NEW k \in Keys, NEW v \in Values, Set(p, k, v)
    PROVE  ServeInv' /\ MapStep
  <1>0. PICK e : e = [key |-> k, value |-> v, created |-> now, accessed |-> now, stored |-> now]
    OBVIOUS
  <1>1. PICK l : l = [Call("set", "open") EXCEPT !.key = k, !.ent = e]
    OBVIOUS
  <1>2. Become(p, l) /\ job[p].pc = "idle" /\ FilesSame /\ now' = now
    BY <1>0, <1>1 DEF Set, At, OthersSame
  <1>3. l.pc = "open" /\ l.op = "set" /\ l.key = k /\ l.ent = e /\ l.res = "none"
    BY <1>1, CallFields
  <1>4. Serving(l, file', now')
    BY <1>3 DEF Serving, Walks
  <1>5. ServeInv' /\ job'[Me] = l /\ Me = p
    BY <1>2, <1>4, StepServes
  <1>6. e \in Entries
    BY <1>0 DEF Standing, TypeOK, Entries
  <1>7. Item(e) = [value |-> v, at |-> now]
    BY <1>0, <1>6, FileContents DEF Item
  <1>8. Phase(job[Me]) = <<"nothing">> /\ Phase(job'[Me]) = <<"set", k, [value |-> v, at |-> now]>>
    BY <1>2, <1>3, <1>5, <1>7 DEF Phase
  <1>9. Stored' = Stored
    BY <1>2, StoredFacts DEF Standing
  <1>10. Map!Set(k, v)
    BY <1>2, <1>3, <1>5, <1>8, <1>9 DEF Map!Set, Map!Begin, Map!Rest
  <1> QED
    BY <1>5, <1>10 DEF MapStep, Map!Next

LEMMA LoadServes ==
    ASSUME Standing, Alone, NEW p \in Procs, Load(p)
    PROVE  ServeInv' /\ MapStep
  <1> DEFINE j == job[p]
             k == job[p].key
             c == file[Entry(job[p].key)]
  <1>1. /\ j \in Jobs /\ Me = p /\ j.pc = "load" /\ j.op = "get" /\ j.res = "none"
        /\ k \in Keys /\ c # Absent /\ c # Empty /\ k \in DOMAIN Stored /\ TypeOK
    BY StandFacts DEF Load, At, Serving, Keyed
  <1>2. PICK l : l = [j EXCEPT !.pc = "age", !.ent = c]
    OBVIOUS
  <1>3. Become(p, l) /\ FilesSame /\ now' = now
    BY <1>1, <1>2 DEF Load, OthersSame
  <1>4. l.pc = "age" /\ l.ent = c /\ l.key = k /\ l.op = "get" /\ l.res = "none"
    BY <1>1, <1>2 DEF Jobs
  <1>5. Serving(l, file', now')
    BY <1>4 DEF Serving, Walks
  <1>6. ServeInv' /\ job'[Me] = l /\ Me = p
    BY <1>3, <1>5, StepServes
  <1>7. Stored' = Stored /\ Stored[k] = Item(c)
    BY <1>1, <1>3, StoredFacts
  <1>8. Phase(job[Me]) = <<"get", k>> /\ Phase(job'[Me]) = <<"read", k, Item(c)>>
    BY <1>1, <1>4, <1>6 DEF Phase
  <1> HIDE DEF c, k, j
  <1>9. Map!Read(k)
    BY <1>1, <1>3, <1>4, <1>6, <1>7, <1>8 DEF Map!Read, Map!Goto, j
  <1> QED
    BY <1>1, <1>6, <1>9 DEF MapStep, Map!Next

LEMMA AgeServes ==
    ASSUME Standing, Alone, NEW p \in Procs, Age(p)
    PROVE  ServeInv' /\ MapStep
  <1> DEFINE j == job[p]
             k == job[p].key
             e == job[p].ent
  <1>1. /\ j \in Jobs /\ Me = p /\ j.pc = "age" /\ j.op = "get" /\ j.res = "none"
        /\ k \in Keys /\ e = file[Entry(k)] /\ e \in Entries /\ TypeOK
    BY StandFacts DEF Age, At, Serving, Keyed, NothingMoves, Right, Loaded
  <1>2. FilesSame /\ now' = now /\ e # Absent /\ e # Empty
    BY <1>1, FileContents DEF Age
  <1>3. Stored' = Stored /\ k \in DOMAIN Stored /\ Stored[k] = Item(e)
    BY <1>1, <1>2, StoredFacts
  <1>4. Phase(job[Me]) = <<"read", k, Stored[k]>>
    BY <1>1, <1>3 DEF Phase
  <1>5. Item(e).at = e.created /\ (Map!Fresh(k) <=> ~Expired(e, now))
    <2>1. Item(e).at = e.created
      BY <1>2 DEF Item
    <2>2. e.created \in Nat /\ now \in Nat /\ TTL \in Nat
      BY <1>1, DiskConstants DEF TypeOK, Entries, Times
    <2>3. now - e.created < TTL <=> ~(now - e.created >= TTL)
      BY <2>2
    <2> QED
      BY <1>3, <2>1, <2>3 DEF Map!Fresh, Expired
  <1>6. CASE Expired(e, now)
    <2>1. PICK l : l = [j EXCEPT !.pc = "evict"]
      OBVIOUS
    <2>2. Become(p, l)
      BY <1>6, <2>1 DEF Age, Goto
    <2>3. l.pc = "evict" /\ l.ent = e /\ l.key = k /\ l.op = "get" /\ l.res = "none"
      BY <1>1, <2>1, JobFields
    <2>4. Serving(l, file', now')
      BY <1>1, <1>2, <1>6, <2>3 DEF Serving, Walks, FilesSame
    <2>5. ServeInv' /\ job'[Me] = l
      BY <2>2, <2>4, StepServes
    <2>6. Phase(job'[Me]) = <<"read", k, Stored[k]>>
      BY <1>3, <2>3, <2>5 DEF Phase
    <2>7. job'[Me].res = job[Me].res
      BY <1>1, <2>3, <2>5
    <2>8. MapStep
      BY <1>2, <1>3, <1>4, <2>6, <2>7, Stutters
    <2> QED
      BY <2>5, <2>8
  <1>7. CASE ~Expired(e, now) /\ Stale(e, now)
    <2>0. PICK t : t = Touched(e, now)
      OBVIOUS
    <2>1. PICK l : l = [j EXCEPT !.pc = "open", !.ent = t]
      OBVIOUS
    <2>2. Become(p, l)
      BY <1>7, <2>0, <2>1 DEF Age
    <2>3. l.pc = "open" /\ l.ent = t /\ l.key = k /\ l.op = "get" /\ l.res = "none"
      BY <1>1, <2>1 DEF Jobs
    <2>4. t \in Entries /\ t.value = e.value /\ t.created = e.created
      BY <1>1, <2>0 DEF Touched, Entries, TypeOK
    <2>5. Item(t) = Item(e)
      BY <1>2, <2>4, FileContents DEF Item
    <2>6. Serving(l, file', now')
      BY <1>1, <1>2, <2>3, <2>5 DEF Serving, Walks, FilesSame
    <2>7. ServeInv' /\ job'[Me] = l
      BY <2>2, <2>6, StepServes
    <2>8. Phase(job'[Me]) = <<"hit", k, Stored[k]>>
      BY <1>3, <2>3, <2>5, <2>7 DEF Phase
    <2>9. Map!Fresh(k)
      BY <1>5, <1>7
    <2>10. Map!Accept(k)
      BY <1>1, <1>2, <1>3, <1>4, <2>3, <2>7, <2>8, <2>9 DEF Map!Accept, Map!Found, Map!Goto
    <2> QED
      BY <1>3, <2>7, <2>10 DEF MapStep, Map!Next
  <1>8. CASE ~Expired(e, now) /\ ~Stale(e, now)
    <2>1. Become(p, IdleJob("hit"))
      BY <1>8 DEF Age, Return
    <2>2. IdleJob("hit").pc = "idle" /\ IdleJob("hit").res = "hit"
      BY CallFields
    <2>3. Serving(IdleJob("hit"), file', now')
      BY <2>2 DEF Serving, Walks
    <2>4. ServeInv' /\ job'[Me] = IdleJob("hit")
      BY <2>1, <2>3, StepServes
    <2>5. Phase(job'[Me]) = <<"nothing">> /\ job'[Me].res = "hit"
      BY <2>2, <2>4 DEF Phase
    <2>6. Map!Fresh(k)
      BY <1>5, <1>8
    <2>7. Map!Hit(k)
      BY <1>2, <1>3, <1>4, <2>5, <2>6 DEF Map!Hit, Map!Found, Map!End, Map!Rest
    <2> QED
      BY <1>3, <2>4, <2>7 DEF MapStep, Map!Next
  <1> QED
    BY <1>6, <1>7, <1>8

\* The end of a call, whatever it returns.
LEMMA ReturnServes ==
    ASSUME Standing, Alone, NEW p \in Procs, NEW r, Return(p, r)
    PROVE  ServeInv' /\ Phase(job'[Me]) = <<"nothing">> /\ job'[Me].res = r /\ Me = p
  <1>1. Become(p, IdleJob(r))
    BY DEF Return
  <1>2. IdleJob(r).pc = "idle" /\ IdleJob(r).res = r
    BY CallFields
  <1>3. Serving(IdleJob(r), file', now')
    BY <1>2 DEF Serving, Walks
  <1>4. ServeInv' /\ job'[Me] = IdleJob(r) /\ Me = p
    BY <1>1, <1>3, StepServes
  <1> QED
    BY <1>2, <1>4 DEF Phase

LEMMA EvictServes ==
    ASSUME Standing, Alone, NEW p \in Procs, Evict(p)
    PROVE  ServeInv' /\ MapStep
  <1> DEFINE j == job[p]
             k == job[p].key
             e == job[p].ent
  <1>1. /\ Me = p /\ j.pc = "evict" /\ k \in Keys /\ TypeOK
        /\ e \in Entries /\ file[Entry(k)] = e /\ Expired(e, now)
    BY StandFacts DEF Evict, At, Serving, Keyed
  <1>2. ServeInv' /\ Phase(job'[Me]) = <<"nothing">> /\ job'[Me].res = "miss" /\ now' = now
    BY ReturnServes DEF Evict, OthersSame
  <1>3. e # Absent /\ e # Empty /\ k \in DOMAIN Stored /\ Stored[k] = Item(e)
    BY <1>1, FileContents, StoredFacts
  <1>4. Phase(job[Me]) = <<"read", k, Stored[k]>>
    BY <1>1, <1>3 DEF Phase
  <1>5. ~Map!Fresh(k)
    <2>1. Item(e).at = e.created
      BY <1>3 DEF Item
    <2>2. e.created \in Nat /\ now \in Nat /\ TTL \in Nat
      BY <1>1, DiskConstants DEF TypeOK, Entries, Times
    <2> QED
      BY <1>1, <1>3, <2>1, <2>2 DEF Map!Fresh, Expired
  <1>6. Stored' = [l \in DOMAIN Stored \ {k} |-> Stored[l]]
    BY <1>1, StoredMoves DEF Evict
  <1>7. Map!Miss(k)
    BY <1>2, <1>4, <1>5, <1>6 DEF Map!Miss, Map!Found, Map!Lose, Map!End, Map!Rest
  <1> QED
    BY <1>2, <1>3, <1>7 DEF MapStep, Map!Next

LEMMA UnlinkServes ==
    ASSUME Standing, Alone, NEW p \in Procs, Unlink(p)
    PROVE  ServeInv' /\ MapStep
  <1> DEFINE k == job[p].key
  <1>1. Me = p /\ job[p].pc = "unlink" /\ k \in Keys /\ TypeOK /\ file[Entry(k)] # Absent /\ k \in DOMAIN Stored
    BY StandFacts DEF Unlink, At, Serving, Keyed
  <1>2. ServeInv' /\ Phase(job'[Me]) = <<"nothing">> /\ job'[Me].res = "deleted" /\ now' = now
    BY <1>1, ReturnServes DEF Unlink, OthersSame
  <1>3. Phase(job[Me]) = <<"delete", k>>
    BY <1>1 DEF Phase
  <1>4. Stored' = [l \in DOMAIN Stored \ {k} |-> Stored[l]]
    BY <1>1, StoredMoves DEF Unlink
  <1>5. Map!Remove(k)
    BY <1>2, <1>3, <1>4 DEF Map!Remove, Map!Lose, Map!End, Map!Rest
  <1> QED
    BY <1>1, <1>2, <1>5 DEF MapStep, Map!Next

\* The two steps of fs::write concern the tmp file.
LEMMA WriteServes ==
    ASSUME Standing, Alone, NEW p \in Procs, Open(p) \/ Data(p)
    PROVE  ServeInv' /\ MapStep
  <1> DEFINE j == job[p]
             k == job[p].key
  <1>1. /\ j \in Jobs /\ Me = p /\ j.pc \in {"open", "data"} /\ j.res = "none" /\ k \in Keys /\ TypeOK
        /\ Entry(k) \in Names /\ Tmp(k) \in Names /\ Entry(k) # Tmp(k) /\ Nameless \notin Names
        /\ \/ j.op = "set"
           \/ j.op = "get" /\ file[Entry(k)] # Absent /\ Item(file[Entry(k)]) = Item(j.ent)
    BY StandFacts, NamesOfKey DEF Open, Data, At, Serving, Keyed
  <1>2. PICK l \in {"data", "rename"} : Become(p, [j EXCEPT !.pc = l])
    BY DEF Open, Data, Goto
  <1>3. PICK i : i = [j EXCEPT !.pc = l]
    OBVIOUS
  <1>4. i.pc = l /\ i.op = j.op /\ i.key = k /\ i.ent = j.ent /\ i.res = "none"
    BY <1>1, <1>3, JobFields
  <1>5. now' = now /\ Stored' = Stored /\ file'[Entry(k)] = file[Entry(k)]
    <2>1. CASE Open(p)
      BY <1>1, <2>1, StoredMoves DEF Open, OthersSame, OpenTmp, TypeOK
    <2>2. CASE Data(p)
      <3>1. fd[p] = Tmp(k) /\ WriteBytes(p, j.ent) /\ now' = now
        BY <2>2, StandFacts DEF Data, At, NothingMoves, OthersSame
      <3>2. Stored' = Stored
        BY <1>1, <3>1, StoredMoves
      <3> QED
        BY <1>1, <3>1, <3>2 DEF WriteBytes, TypeOK
    <2> QED
      BY <2>1, <2>2
  <1>6. Serving(i, file', now')
    BY <1>1, <1>4, <1>5 DEF Serving, Walks
  <1>7. ServeInv' /\ job'[Me] = i
    BY <1>2, <1>3, <1>6, StepServes
  <1>8. Phase(job'[Me]) = Phase(job[Me])
    BY <1>1, <1>4, <1>7 DEF Phase
  <1> QED
    BY <1>1, <1>4, <1>5, <1>7, <1>8, Stutters

\* The instant at which a set takes effect; for a get nothing has changed.
LEMMA RenameServes ==
    ASSUME Standing, Alone, NEW p \in Procs, Rename(p)
    PROVE  ServeInv' /\ MapStep
  <1> DEFINE j == job[p]
             k == job[p].key
  <1>1. /\ j \in Jobs /\ Me = p /\ j.pc = "rename" /\ j.res = "none" /\ k \in Keys /\ TypeOK
        /\ file[Tmp(k)] = j.ent /\ file[Tmp(k)] # Absent
        /\ \/ j.op = "set"
           \/ j.op = "get" /\ file[Entry(k)] # Absent /\ Item(file[Entry(k)]) = Item(j.ent)
    BY StandFacts DEF Rename, At, Serving, Keyed, NothingMoves
  <1>2. Become(p, AfterRename(p)) /\ now' = now
    BY DEF Rename
  <1>3. Stored' = [l \in DOMAIN Stored \cup {k} |-> IF l = k THEN Item(j.ent) ELSE Stored[l]]
    BY <1>1, StoredMoves DEF Rename
  <1>4. CASE j.op = "set"
    <2>1. AfterRename(p) = Call("set", "list")
      BY <1>4 DEF AfterRename
    <2>2. LET c == Call("set", "list") IN c.pc = "list" /\ c.op = "set" /\ c.res = "none" /\ c.name = Nameless
      BY CallFields
    <2>3. Serving(Call("set", "list"), file', now')
      BY <2>2 DEF Serving, Walks
    <2>4. ServeInv' /\ job'[Me] = Call("set", "list")
      BY <1>2, <2>1, <2>3, StepServes
    <2>5. Phase(job'[Me]) = <<"stored">> /\ job'[Me].res = job[Me].res
      BY <1>1, <2>2, <2>4 DEF Phase
    <2>6. PICK item : item = Item(j.ent)
      OBVIOUS
    <2>7. Phase(job[Me]) = <<"set", k, item>>
      BY <1>1, <1>4, <2>6 DEF Phase
    <2>8. Stored' = [l \in DOMAIN Stored \cup {k} |-> IF l = k THEN item ELSE Stored[l]]
      BY <1>3, <2>6
    <2> HIDE DEF k, j
    <2>9. Map!Put
      BY <1>2, <2>5, <2>7, <2>8 DEF Map!Put
    <2> QED
      BY <2>4, <2>9 DEF MapStep, Map!Next
  <1>5. CASE j.op = "get"
    <2>1. k \in DOMAIN Stored /\ Stored[k] = Item(j.ent)
      BY <1>1, <1>5, StoredFacts
    <2>2. Stored' = Stored
      <3>1. Stored = [l \in DOMAIN Stored |-> Stored[l]]
        BY DEF Stored
      <3> HIDE DEF Stored
      <3>2. DOMAIN Stored \cup {k} = DOMAIN Stored
        BY <2>1
      <3>3. [l \in DOMAIN Stored |-> IF l = k THEN Item(j.ent) ELSE Stored[l]] = [l \in DOMAIN Stored |-> Stored[l]]
        BY <2>1
      <3> QED
        BY <1>3, <3>1, <3>2, <3>3
    <2>3. Return(p, "hit")
      BY <1>2, <1>5 DEF Return, AfterRename
    <2>4. ServeInv' /\ Phase(job'[Me]) = <<"nothing">> /\ job'[Me].res = "hit"
      BY <2>3, ReturnServes
    <2>5. Phase(job[Me]) = <<"hit", k, Stored[k]>>
      BY <1>1, <1>5, <2>1 DEF Phase
    <2>6. Map!Hit(k)
      BY <1>2, <2>2, <2>4, <2>5 DEF Map!Hit, Map!End, Map!Rest
    <2> QED
      BY <2>1, <2>4, <2>6 DEF MapStep, Map!Next
  <1> QED
    BY <1>1, <1>4, <1>5

\* What cannot happen to a process that has the directory to itself.
LEMMA NothingFails ==
    ASSUME Standing, Alone, NEW p \in Procs
    PROVE  ~RenameFails(p) /\ ~Vanished(p)
  <1>1. ~RenameFails(p)
    BY StandFacts, FileContents DEF RenameFails, At, NothingMoves, Right, Loaded
  <1>2. ~Vanished(p)
    BY StandFacts DEF Vanished, Serving
  <1> QED
    BY <1>1, <1>2

\* What a walk is to the caller, at its every step.
Swept(op) == CASE op = "set" -> "stored" [] op = "prune" -> "pruned" [] OTHER -> "cleared"

LEMMA WalkPhase ==
    ASSUME NEW j, j.pc \in {"list", "size", "scan", "drop", "clear"}
    PROVE  Phase(j) = <<Swept(j.op)>>
  BY DEF Phase, Swept

LEMMA StartServes ==
    ASSUME Standing, Alone, NEW p \in Procs, SizeWalk(p) \/ Prune(p) \/ Clear(p) \/ (Measured(p) /\ job[p].sum > MaxSize)
    PROVE  ServeInv' /\ MapStep
  <1>1. PICK op \in {"set", "prune", "clear"}, l \in Walks :
           /\ Become(p, StartWalk(op, l)) /\ FilesSame /\ now' = now
           /\ \/ op = "set" /\ l \in {"size", "scan"} /\ job[p].pc \in {"list", "size"}
              \/ op = "prune" /\ l = "scan" /\ job[p].pc = "idle"
              \/ op = "clear" /\ l = "clear" /\ job[p].pc = "idle"
    BY DEF SizeWalk, Prune, Clear, Measured, Done, At, OthersSame, Walks
  <1>2. PICK w : w = StartWalk(op, l)
    OBVIOUS
  <1>3. w.pc = l /\ w.op = op /\ w.res = "none" /\ w.name = Nameless /\ w.todo = Listing
    BY <1>2, CallFields DEF Owned, Listing
  <1>4. Serving(w, file', now')
    BY <1>1, <1>3 DEF Serving, Walks, FilesSame, Listing
  <1>5. ServeInv' /\ job'[Me] = w /\ Me = p
    BY <1>1, <1>2, <1>4, StepServes
  <1>6. Stored' = Stored /\ Serving(job[p], file, now)
    BY <1>1, StoredFacts, StandFacts DEF Standing
  <1>7. Phase(job'[Me]) = <<Swept(op)>>
    BY <1>1, <1>3, <1>5, WalkPhase DEF Walks
  <1>8. CASE op = "set"
    <2>1. job[p].op = "set" /\ job[p].res = "none" /\ job[p].pc \in {"list", "size"}
      BY <1>1, <1>6, <1>8 DEF Serving
    <2>2. Phase(job[Me]) = <<Swept(op)>>
      BY <1>5, <1>8, <2>1, WalkPhase
    <2> QED
      BY <1>1, <1>3, <1>5, <1>6, <1>7, <2>1, <2>2, Stutters
  <1>9. CASE op # "set"
    <2>1. Phase(job[Me]) = <<"nothing">>
      BY <1>1, <1>5, <1>9 DEF Phase
    <2>2. Map!Prune \/ Map!Clear
      BY <1>1, <1>3, <1>5, <1>6, <1>7, <1>9, <2>1 DEF Swept, Map!Prune, Map!Clear, Map!Begin, Map!Rest
    <2> QED
      BY <1>5, <2>2 DEF MapStep, Map!Next
  <1> QED
    BY <1>8, <1>9

\* A step of a walk that removes nothing.
LEMMA LookServes ==
    ASSUME Standing, Alone, NEW p \in Procs, (\E n \in Names : Visit(p, n)) \/ Measure(p) \/ Scan(p)
    PROVE  ServeInv' /\ MapStep
  <1> DEFINE j == job[p]
  <1>1. /\ j \in Jobs /\ Me = p /\ j.pc \in Walks /\ j.res = "none" /\ TypeOK /\ Serving(j, file, now)
        /\ FilesSame /\ now' = now
    BY StandFacts DEF Visit, Measure, Scan, Visiting, At, Walks, Serving, OthersSame
  <1>2. PICK i : /\ Become(p, i) /\ i.op = j.op /\ i.res = j.res
                 /\ \/ i.pc = j.pc /\ i.name = Nameless /\ j.pc # "clear"
                    \/ i.pc = "drop" /\ j.pc = "scan"
                    \/ /\ i.pc = j.pc
                       /\ \E n \in Names : /\ i.todo = j.todo \ {n} /\ j.name = Nameless
                                           /\ i.name = IF file[n] = Absent THEN Nameless ELSE n
    <2>1. CASE \E n \in Names : Visit(p, n)
      <3>1. PICK n \in Names : Visit(p, n)
        BY <2>1
      <3>2. PICK i : i = [j EXCEPT !.todo = @ \ {n}, !.name = IF file[n] = Absent THEN Nameless ELSE n]
        OBVIOUS
      <3>3. /\ i.op = j.op /\ i.res = j.res /\ i.pc = j.pc /\ i.todo = j.todo \ {n}
            /\ i.name = IF file[n] = Absent THEN Nameless ELSE n
        BY <1>1, <3>2 DEF Jobs
      <3>4. j.name = Nameless /\ Become(p, i)
        BY <3>1, <3>2 DEF Visit
      <3>5. \E m \in Names : /\ i.todo = j.todo \ {m} /\ j.name = Nameless
                            /\ i.name = IF file[m] = Absent THEN Nameless ELSE m
        BY <3>3, <3>4
      <3> QED
        BY <3>3, <3>4, <3>5
    <2>2. CASE Measure(p)
      <3>1. PICK i : i = [j EXCEPT !.sum = @ + Size(file[j.name]), !.name = Nameless]
        OBVIOUS
      <3>2. i.op = j.op /\ i.res = j.res /\ i.pc = j.pc /\ i.name = Nameless
        BY <1>1, <3>1 DEF Jobs
      <3> QED
        BY <2>2, <3>1, <3>2 DEF Measure, Visiting, At
    <2>3. CASE Scan(p) /\ file[j.name] = Empty
      <3>1. PICK i : i = [j EXCEPT !.pc = "drop"]
        OBVIOUS
      <3>2. i.op = j.op /\ i.res = j.res /\ i.pc = "drop"
        BY <1>1, <3>1, JobFields
      <3> QED
        BY <2>3, <3>1, <3>2 DEF Scan, Goto, Visiting, At
    <2>4. CASE Scan(p) /\ file[j.name] # Empty
      <3>1. PICK i : i = [j EXCEPT !.name = Nameless, !.held = @ \cup {[name |-> j.name, ent |-> file[j.name]]}]
        OBVIOUS
      <3>2. i.op = j.op /\ i.res = j.res /\ i.pc = j.pc /\ i.name = Nameless
        BY <1>1, <3>1 DEF Jobs
      <3> QED
        BY <2>4, <3>1, <3>2 DEF Scan, Visiting, At
    <2> QED
      BY <2>1, <2>2, <2>3, <2>4
  <1>3. Serving(i, file', now')
    BY <1>1, <1>2, NamesOfKey DEF Serving, Walks, FilesSame
  <1>4. ServeInv' /\ job'[Me] = i
    BY <1>2, <1>3, StepServes
  <1>5. i.pc \in {"size", "scan", "drop", "clear"} /\ j.pc \in {"size", "scan", "clear"}
    BY <1>1, <1>2 DEF Walks
  <1>6. Phase(job'[Me]) = Phase(job[Me])
    BY <1>1, <1>2, <1>4, <1>5, WalkPhase
  <1>7. Stored' = Stored
    BY <1>1, StoredFacts
  <1> QED
    BY <1>1, <1>2, <1>4, <1>6, <1>7, Stutters

\* A step of a walk that removes a file: one key's entry, or a tmp file.
LEMMA RemoveServes ==
    ASSUME Standing, Alone, NEW p \in Procs,
           Drop(p) \/ ClearOne(p) \/ \E h \in job[p].held : Discard(p, h)
    PROVE  ServeInv' /\ MapStep
  <1> DEFINE j == job[p]
  <1>1. j \in Jobs /\ Me = p /\ TypeOK /\ Serving(j, file, now) /\ NothingMoves /\ EntriesWhole /\ Right(j)
    BY StandFacts
  <1> DEFINE Removed(n, i) ==
               /\ Become(p, i) /\ RemoveIfThere(n) /\ now' = now /\ file[n] # Absent
               /\ j.pc \in {"scan", "drop", "clear"} /\ i.name = Nameless /\ i.op = j.op /\ i.res = j.res
               /\ i.pc = (IF j.pc = "clear" THEN "clear" ELSE "scan")
               /\ j.pc = "clear" => n = j.name /\ i.todo = j.todo
  <1>0. \E n \in Names : \E i : Removed(n, i)
    <2>1. CASE Drop(p)
      <3>1. PICK i : i = [j EXCEPT !.pc = "scan", !.name = Nameless]
        OBVIOUS
      <3>2. i.pc = "scan" /\ i.name = Nameless /\ i.op = j.op /\ i.res = j.res
        BY <1>1, <3>1 DEF Jobs
      <3>3. j.pc = "drop" /\ j.name \in Names /\ file[j.name] = Empty /\ Empty # Absent
        BY <1>1, <2>1, FileContents DEF Drop, At, Right, NothingMoves
      <3>4. Removed(j.name, i)
        BY <2>1, <3>1, <3>2, <3>3 DEF Drop, OthersSame
      <3> QED
        BY <3>3, <3>4
    <2>2. CASE ClearOne(p)
      <3>1. PICK i : i = [j EXCEPT !.name = Nameless]
        OBVIOUS
      <3>2. i.pc = j.pc /\ i.name = Nameless /\ i.op = j.op /\ i.res = j.res /\ i.todo = j.todo
        BY <1>1, <3>1 DEF Jobs
      <3>3. j.pc = "clear" /\ j.name \in Names /\ file[j.name] # Absent /\ RemoveIfThere(j.name)
        BY <1>1, <2>2 DEF ClearOne, Visiting, At, Jobs, RemoveIfThere
      <3>4. Removed(j.name, i)
        BY <2>2, <3>1, <3>2, <3>3 DEF ClearOne, OthersSame
      <3> QED
        BY <3>3, <3>4
    <2>3. CASE \E h \in j.held : Discard(p, h)
      <3>0. PICK h \in j.held : Discard(p, h)
        BY <2>3
      <3>1. PICK i : i = [j EXCEPT !.held = @ \ {h}]
        OBVIOUS
      <3>2. i.pc = j.pc /\ i.name = j.name /\ i.op = j.op /\ i.res = j.res
        BY <1>1, <3>1 DEF Jobs
      <3>3. j.pc = "scan" /\ j.name = Nameless
        BY <3>0 DEF Discard, Done, At
      <3>4. h \in [name : Names, ent : Entries] /\ file[h.name] = h.ent
        BY <1>1, <3>0 DEF Jobs, NothingMoves
      <3>5. h.name \in Names /\ file[h.name] # Absent
        BY <3>4, FileContents
      <3>6. Removed(h.name, i)
        BY <3>0, <3>1, <3>2, <3>3, <3>5 DEF Discard, OthersSame
      <3> QED
        BY <3>5, <3>6
    <2> QED
      BY <2>1, <2>2, <2>3
  <1>2. PICK n \in Names : \E i : Removed(n, i)
    BY <1>0
  <1>10. PICK i : Removed(n, i)
    BY <1>2
  <1>3. \A m \in Names : file'[m] = IF m = n THEN Absent ELSE file[m]
    BY <1>1, <1>10 DEF TypeOK, RemoveIfThere, RemoveFile, FilesSame
  <1>4. Serving(i, file', now')
    BY <1>1, <1>10, <1>3 DEF Serving, Walks
  <1>5. ServeInv' /\ job'[Me] = i
    BY <1>10, <1>4, StepServes
  <1>6. Phase(job[Me]) = <<Swept(j.op)>> /\ Phase(job'[Me]) = <<Swept(j.op)>> /\ job'[Me].res = job[Me].res
    BY <1>1, <1>10, <1>5, WalkPhase
  <1>7. PICK k \in Keys : n = Entry(k) \/ n = Tmp(k)
    BY DEF Names, Entry, Tmp
  <1>8. CASE n = Tmp(k)
    <2>1. Stored' = Stored
      BY <1>1, <1>10, <1>8, StoredMoves
    <2> QED
      BY <1>10, <1>5, <1>6, <2>1, Stutters
  <1>9. CASE n = Entry(k)
    <2>1. Stored' = [l \in DOMAIN Stored \ {k} |-> Stored[l]] /\ k \in DOMAIN Stored
      BY <1>1, <1>10, <1>9, StoredMoves, StoredFacts
    <2>2. Swept(j.op) \in Map!Sweeps
      BY DEF Swept, Map!Sweeps
    <2>3. Map!Drop(k)
      BY <1>10, <1>6, <2>1, <2>2 DEF Map!Drop, Map!Lose
    <2> QED
      BY <1>5, <2>1, <2>3 DEF MapStep, Map!Next
  <1> QED
    BY <1>7, <1>8, <1>9

\* The end of a walk.
LEMMA DoneServes ==
    ASSUME Standing, Alone, NEW p \in Procs,
           Pruned(p) \/ Cleared(p) \/ (Measured(p) /\ ~(job[p].sum > MaxSize))
    PROVE  ServeInv' /\ MapStep
  <1> DEFINE j == job[p]
             r == Swept(job[p].op)
  <1>1. Me = p /\ TypeOK /\ Serving(j, file, now) /\ FilesSame /\ now' = now /\ j.name = Nameless /\ j.todo = {}
    BY StandFacts DEF Pruned, Cleared, Measured, Done, OthersSame
  <1>2. /\ Return(p, r) /\ j.pc \in {"size", "scan", "clear"}
        /\ r = "cleared" => j.pc = "clear"
    BY <1>1 DEF Pruned, Cleared, Measured, Done, At, Serving, Swept
  <1>3. ServeInv' /\ Phase(job'[Me]) = <<"nothing">> /\ job'[Me].res = r
    BY <1>2, ReturnServes
  <1>4. Phase(job[Me]) = <<r>> /\ r \in Map!Sweeps /\ Stored' = Stored
    BY <1>1, <1>2, WalkPhase, StoredFacts DEF Swept, Map!Sweeps
  <1>5. r = "cleared" => DOMAIN Stored = {}
    <2>1. ASSUME j.pc = "clear", NEW k \in DOMAIN Stored PROVE FALSE
      <3>1. k \in Keys /\ Entry(k) \in Names /\ file[Entry(k)] # Absent /\ Entry(k) # Nameless
        BY <1>1, StoredFacts, NamesOfKey
      <3> QED
        BY <1>1, <2>1, <3>1 DEF Serving
    <2> QED
      BY <1>2, <2>1
  <1> HIDE DEF r
  <1>6. Map!Swept(r)
    BY <1>1, <1>3, <1>4, <1>5 DEF Map!Swept, Map!End, Map!Rest
  <1> QED
    BY <1>3, <1>4, <1>6 DEF MapStep, Map!Next

LEMMA CrashServes ==
    ASSUME Standing, Alone, NEW p \in Procs, Crash(p)
    PROVE  ServeInv' /\ MapStep
  <1>1. /\ Me = p /\ job[p].pc # "idle" /\ job[p] \in Jobs /\ TypeOK
        /\ Return(p, "died") /\ CloseFile(p) /\ now' = now
    BY StandFacts DEF Crash, At
  <1>2. ServeInv' /\ Phase(job'[Me]) = <<"nothing">> /\ job'[Me].res = "died"
    BY <1>1, ReturnServes
  <1>3. Stored' = Stored
    BY <1>1, StoredFacts
  <1>4. Phase(job[Me])[1] # "nothing"
    BY <1>1 DEF Phase
  <1>5. Phase(job[Me]) # <<"nothing">>
    BY <1>4
  <1>6. Map!Die
    BY <1>1, <1>2, <1>3, <1>5 DEF Map!Die, Map!End, Map!Rest
  <1> QED
    BY <1>2, <1>6 DEF MapStep, Map!Next

LEMMA TickServes ==
    ASSUME Standing, Alone, Tick
    PROVE  ServeInv' /\ MapStep
  <1>1. file' = file /\ job' = job /\ now' = now + 1 /\ now < MaxTime /\ now \in Nat
    BY DiskConstants DEF Tick, FilesSame, Standing, TypeOK, Times
  <1>2. \A e \in Entries : Expired(e, now) => Expired(e, now')
    <2>1. \A e \in Entries : e.created \in Nat
      BY DiskConstants DEF Entries, Times
    <2> QED
      BY <1>1, <2>1, DiskConstants DEF Expired
  <1>3. ServeInv'
    BY <1>1, <1>2 DEF ServeInv, Standing, Serving
  <1>4. Stored' = Stored
    BY <1>1 DEF Stored
  <1>5. Map!Tick
    BY <1>1, <1>4 DEF Map!Tick
  <1> QED
    BY <1>3, <1>5 DEF MapStep, Map!Next

LEMMA ServeStep ==
    ASSUME Standing, Alone, NEW p \in Procs, Step(p)
    PROVE  ServeInv' /\ MapStep
  <1>1. CASE \E k \in Keys : Get(p, k) \/ Delete(p, k) \/ \E v \in Values : Set(p, k, v)
    BY <1>1, CalledServes, SetServes
  <1>2. CASE Load(p) \/ Age(p) \/ Evict(p) \/ Unlink(p)
    BY <1>2, LoadServes, AgeServes, EvictServes, UnlinkServes
  <1>3. CASE Open(p) \/ Data(p) \/ Rename(p)
    BY <1>3, WriteServes, RenameServes
  <1>4. CASE RenameFails(p) \/ Vanished(p)
    BY <1>4, NothingFails
  <1>5. CASE SizeWalk(p) \/ Prune(p) \/ Clear(p) \/ Measured(p)
    BY <1>5, StartServes, DoneServes
  <1>6. CASE (\E n \in Names : Visit(p, n)) \/ Measure(p) \/ Scan(p)
    BY <1>6, LookServes
  <1>7. CASE Drop(p) \/ ClearOne(p) \/ \E h \in job[p].held : Discard(p, h)
    BY <1>7, RemoveServes
  <1>8. CASE Pruned(p) \/ Cleared(p)
    BY <1>8, DoneServes
  <1>9. CASE Crash(p)
    BY <1>9, CrashServes
  <1> QED
    BY <1>1, <1>2, <1>3, <1>4, <1>5, <1>6, <1>7, <1>8, <1>9 DEF Step

\* The inductive invariant of the refinement.
THEOREM ServeCorrect ==
    ASSUME Alone
    PROVE  Spec => []ServeInv
  <1>1. Init => ServeInv
    <2>1. IdleJob("none").pc = "idle"
      BY CallFields
    <2> QED
      BY <2>1 DEF Init, ServeInv, Serving, Walks
  <1>2. Standing /\ [Next]_vars => ServeInv'
    <2>1. ASSUME Standing, UNCHANGED vars PROVE ServeInv'
      BY <2>1 DEF Standing, ServeInv, vars
    <2> QED
      BY <2>1, TickServes, ServeStep DEF Next
  <1> QED
    BY <1>1, <1>2, TypeCorrect, AloneCorrect, PTL DEF Spec, Standing

\* A process that has the directory to itself finds a map in it, wherever it dies: a set takes
\* effect at once or not at all, a get returns what was stored last, and no call fails.
THEOREM MapCorrect ==
    ASSUME Alone, Procs # {}
    PROVE  Spec => ActsAsMap
  <1>1. Init => Map!Init
    <2> SUFFICES ASSUME Init PROVE Map!Init
      OBVIOUS
    <2>1. Me \in Procs
      BY DEF Me
    <2>2. job[Me] = IdleJob("none") /\ IdleJob("none").pc = "idle" /\ IdleJob("none").res = "none"
      BY <2>1, CallFields DEF Init
    <2>3. Phase(job[Me]) = <<"nothing">> /\ job[Me].res = "none"
      BY <2>2 DEF Phase
    <2>4. {l \in Keys : file[Entry(l)] # Absent} = {}
      BY NamesOfKey DEF Init, EmptyDirectory
    <2>5. Stored = [k \in {} |-> {}]
      BY <2>4 DEF Stored
    <2> QED
      BY <2>3, <2>5 DEF Init, Map!Init, Map!Rest
  <1>2. Standing /\ [Next]_vars => [Map!Next]_(Map!vars)
    <2>1. ASSUME Standing, UNCHANGED vars PROVE UNCHANGED Map!vars
      BY <2>1 DEF vars, Map!vars, Stored
    <2>2. ASSUME Standing, Next PROVE MapStep
      BY <2>2, TickServes, ServeStep DEF Next
    <2> QED
      BY <2>1, <2>2 DEF MapStep
  <1> QED
    BY <1>1, <1>2, TypeCorrect, AloneCorrect, ServeCorrect, PTL DEF Spec, Standing, ActsAsMap, Map!Spec
=============================================================================
