-------------------------- MODULE ParseCache_proofs --------------------------
(***************************************************************************)
(* The shared parse cache for any projects, files and threads: one parse   *)
(* at a time, one parse for everyone, never an outdated declaration, and   *)
(* never an empty answer for a file that exists.                           *)
(***************************************************************************)
EXTENDS ParseCache, TLAPS

\* A thread between its insert and its remove owns the entry of its file.
Listed ==
  \A l \in Loaders : pc[l] \in {"parse", "publish", "unlist", "panicked"} => inflight[file[l]] = l

\* An entry names such a thread.
Entries ==
  \A f \in Files : inflight[f] # Nobody =>
    /\ file[inflight[f]] = f
    /\ pc[inflight[f]] \in {"parse", "publish", "unlist", "panicked"}

\* Whoever parses a file parses it because there is no parse of it, and what the
\* parse gave is what the cache holds from then on.
Unparsed ==
  /\ \A l \in Loaders : pc[l] \in {"parse", "publish"} => sources[file[l]] = 0
  /\ \A l \in Loaders : pc[l] \in {"unlist", "land"} => parsed[l] \in {0, sources[file[l]]}

\* Every answer of the drain is empty or the parse that the cache still holds.
Shared == \A f \in Files : seen[f] \subseteq {0, sources[f]}

\* Only the threads of a project that runs look files up, files it may read.
Active ==
  \A l \in Loaders : pc[l] # "idle" =>
    status[Owner[l]] \in {"running", "crashed"} /\ file[l] \in Reads[Owner[l]]

\* A project that has started started after the projects it waits for.
Ordered ==
  \A p \in Projects : status[p] # "waiting" => \A b \in Barriers[p] : status[b] = "done"

\* A declaration is neither cached nor answered before the project that emits it
\* is done, and afterwards it is what that project wrote.
Current ==
  \A f \in Files : Writer[f] # Nobody =>
    /\ status[Writer[f]] # "done" => sources[f] = 0 /\ seen[f] = {}
    /\ sources[f] \in {0, disk[f]}
    /\ \A l \in Loaders :
         file[l] = f /\ pc[l] \in {"publish", "unlist", "land"} => parsed[l] \in {0, disk[f]}

\* A file that was there when the drain began is never answered with nothing.
Existing ==
  \A f \in Files \ missing :
    /\ disk[f] # 0 /\ 0 \notin seen[f]
    /\ \A l \in Loaders : file[l] = f =>
         /\ pc[l] \in {"publish", "unlist", "land"} => parsed[l] # 0
         /\ pc[l] \in {"unlist", "land", "landed"} => sources[f] # 0

\* A waiting thread waits for a thread that is at the same file.
Waiting ==
  \A l \in Loaders : pc[l] = "waiting" =>
    /\ file[waitsFor[l]] = file[l]
    /\ pc[waitsFor[l]] \in {"parse", "publish", "unlist", "land", "panicked"}

IInv == /\ TypeOK
        /\ Listed
        /\ Entries
        /\ Unparsed
        /\ Shared
        /\ Active
        /\ Ordered
        /\ Current
        /\ Existing
        /\ Waiting

-----------------------------------------------------------------------------
\* The actions, one by one.
LEMMA Actions == Next =>
  \/ \E l \in Loaders, f \in Files : LookupHit(l, f)
  \/ \E l \in Loaders, f \in Files : LookupMiss(l, f)
  \/ \E l \in Loaders : EnterHit(l)
  \/ \E l \in Loaders : EnterWait(l)
  \/ \E l \in Loaders : EnterParse(l)
  \/ \E l \in Loaders : Parse(l)
  \/ \E l \in Loaders : ParsePanics(l)
  \/ \E l \in Loaders : Publish(l)
  \/ \E l \in Loaders : Unlist(l)
  \/ \E l \in Loaders : Land(l)
  \/ \E l \in Loaders : Wake(l)
  \/ \E p \in Projects : Start(p)
  \/ \E p \in Projects : Finish(p)
  \/ \E p \in Projects : Crash(p)
  \/ \E p \in Projects : Emit(p)
  \/ \E f \in Files : Edit(f)
  \/ Stop
  \/ NextDrain
  BY DEF Next, LookupStep

\* The scheduler's own steps touch nothing of the cache.
LEMMA SchedulerKeeps ==
  (\E p \in Projects : Start(p) \/ Finish(p) \/ Crash(p)) \/ Stop => UNCHANGED cache
  BY DEF Start, Finish, Crash, Stop

\* Whoever writes a file changes nothing but the disk.
LEMMA WritesKeep ==
  (\E p \in Projects : Emit(p)) \/ (\E f \in Files : Edit(f))
    => UNCHANGED <<order, sources, inflight, thread, seen, history>>
  BY DEF Emit, Edit, Bump

\* Every step keeps the types.
LEMMA TypeStep == IInv /\ Next => TypeOK'
<1> SUFFICES ASSUME IInv, Next PROVE TypeOK'
  OBVIOUS
<1> USE ReadsAssumption DEF IInv, order, history, thread, cache, TypeOK, Stages, Versions,
       Order!Status
<1>1. CASE \E l \in Loaders, f \in Files : LookupHit(l, f)
  BY <1>1 DEF LookupHit
<1>2. CASE \E l \in Loaders, f \in Files : LookupMiss(l, f)
  BY <1>2 DEF LookupMiss, Goto
<1>3. CASE \E l \in Loaders : EnterHit(l)
  BY <1>3 DEF EnterHit, Return, Goto, Landed
<1>4. CASE \E l \in Loaders : EnterWait(l)
  BY <1>4 DEF EnterWait, Goto, Landed, Taken
<1>5. CASE \E l \in Loaders : EnterParse(l)
  BY <1>5 DEF EnterParse, Goto, Landed, Taken
<1>6. CASE \E l \in Loaders : Parse(l)
  BY <1>6 DEF Parse, Goto
<1>7. CASE \E l \in Loaders : ParsePanics(l)
  BY <1>7 DEF ParsePanics, Goto
<1>8. CASE \E l \in Loaders : Publish(l)
  BY <1>8 DEF Publish, Goto
<1>9. CASE \E l \in Loaders : Unlist(l)
  BY <1>9 DEF Unlist, Goto
<1>10. CASE \E l \in Loaders : Land(l)
  BY <1>10 DEF Land, Return, Woken, Waiters
<1>11. CASE \E l \in Loaders : Wake(l)
  BY <1>11 DEF Wake, Return, Goto
<1>12. CASE \E p \in Projects : Start(p)
  BY <1>12 DEF Start, Order!Start, Order!MayStart
<1>13. CASE \E p \in Projects : Finish(p)
  BY <1>13 DEF Finish, Order!Finish, Threads
<1>14. CASE \E p \in Projects : Crash(p)
  BY <1>14 DEF Crash, Order!Crash, Threads
<1>15. CASE \E p \in Projects : Emit(p)
  BY <1>15 DEF Emit, Bump
<1>16. CASE \E f \in Files : Edit(f)
  BY <1>16 DEF Edit, Bump
<1>17. CASE Stop
  BY <1>17 DEF Stop, Order!Stop
<1>18. CASE NextDrain
  BY <1>18 DEF NextDrain, Order!NextDrain, Order!AllWaiting, NoParse, NoFile, FreshCache
<1> QED
  BY Actions, <1>1, <1>2, <1>3, <1>4, <1>5, <1>6, <1>7, <1>8, <1>9, <1>10,
     <1>11, <1>12, <1>13, <1>14, <1>15, <1>16, <1>17, <1>18

\* Only the owner of an entry removes it.
LEMMA ListedStep == IInv /\ Next => Listed'
<1> SUFFICES ASSUME IInv, Next PROVE Listed'
  OBVIOUS
<1> USE ReadsAssumption DEF IInv, TypeOK, Listed, Entries, Active, Stages, order, history,
       thread, cache
<1>1. CASE \E l \in Loaders, f \in Files : LookupHit(l, f)
  BY <1>1 DEF LookupHit
<1>2. CASE \E l \in Loaders, f \in Files : LookupMiss(l, f)
  BY <1>2 DEF LookupMiss, Goto
<1>3. CASE \E l \in Loaders : EnterHit(l)
  BY <1>3 DEF EnterHit, Return, Goto, Landed
<1>4. CASE \E l \in Loaders : EnterWait(l)
  BY <1>4 DEF EnterWait, Goto, Landed, Taken
<1>5. CASE \E l \in Loaders : EnterParse(l)
  BY <1>5 DEF EnterParse, Goto, Landed, Taken
<1>6. CASE \E l \in Loaders : Parse(l)
  BY <1>6 DEF Parse, Goto
<1>7. CASE \E l \in Loaders : ParsePanics(l)
  BY <1>7 DEF ParsePanics, Goto
<1>8. CASE \E l \in Loaders : Publish(l)
  BY <1>8 DEF Publish, Goto
<1>9. CASE \E l \in Loaders : Unlist(l)
  BY <1>9 DEF Unlist, Goto
<1>10. CASE \E l \in Loaders : Land(l)
  BY <1>10 DEF Land, Return, Woken, Waiters
<1>11. CASE \E l \in Loaders : Wake(l)
  BY <1>11 DEF Wake, Return, Goto
<1>12. CASE \E p \in Projects : Start(p)
  BY <1>12, SchedulerKeeps
<1>13. CASE \E p \in Projects : Finish(p)
  BY <1>13, SchedulerKeeps
<1>14. CASE \E p \in Projects : Crash(p)
  BY <1>14, SchedulerKeeps
<1>15. CASE \E p \in Projects : Emit(p)
  BY <1>15, WritesKeep
<1>16. CASE \E f \in Files : Edit(f)
  BY <1>16, WritesKeep
<1>17. CASE Stop
  BY <1>17, SchedulerKeeps
<1>18. CASE NextDrain
  BY <1>18 DEF NextDrain, Order!NextDrain, Order!AllWaiting, NoParse, NoFile, FreshCache
<1> QED
  BY Actions, <1>1, <1>2, <1>3, <1>4, <1>5, <1>6, <1>7, <1>8, <1>9, <1>10,
     <1>11, <1>12, <1>13, <1>14, <1>15, <1>16, <1>17, <1>18

\* The owner of an entry stays at the file until it removes the entry.
LEMMA EntriesStep == IInv /\ Next => Entries'
<1> SUFFICES ASSUME IInv, Next PROVE Entries'
  OBVIOUS
<1> USE ReadsAssumption DEF IInv, TypeOK, Listed, Entries, Active, Stages, order, history,
       thread, cache
<1>1. CASE \E l \in Loaders, f \in Files : LookupHit(l, f)
  BY <1>1 DEF LookupHit
<1>2. CASE \E l \in Loaders, f \in Files : LookupMiss(l, f)
  BY <1>2 DEF LookupMiss, Goto
<1>3. CASE \E l \in Loaders : EnterHit(l)
  BY <1>3 DEF EnterHit, Return, Goto, Landed
<1>4. CASE \E l \in Loaders : EnterWait(l)
  BY <1>4 DEF EnterWait, Goto, Landed, Taken
<1>5. CASE \E l \in Loaders : EnterParse(l)
  BY <1>5 DEF EnterParse, Goto, Landed, Taken
<1>6. CASE \E l \in Loaders : Parse(l)
  BY <1>6 DEF Parse, Goto
<1>7. CASE \E l \in Loaders : ParsePanics(l)
  BY <1>7 DEF ParsePanics, Goto
<1>8. CASE \E l \in Loaders : Publish(l)
  BY <1>8 DEF Publish, Goto
<1>9. CASE \E l \in Loaders : Unlist(l)
  BY <1>9 DEF Unlist, Goto
<1>10. CASE \E l \in Loaders : Land(l)
  BY <1>10 DEF Land, Return, Woken, Waiters
<1>11. CASE \E l \in Loaders : Wake(l)
  BY <1>11 DEF Wake, Return, Goto
<1>12. CASE \E p \in Projects : Start(p)
  BY <1>12, SchedulerKeeps
<1>13. CASE \E p \in Projects : Finish(p)
  BY <1>13, SchedulerKeeps
<1>14. CASE \E p \in Projects : Crash(p)
  BY <1>14, SchedulerKeeps
<1>15. CASE \E p \in Projects : Emit(p)
  BY <1>15, WritesKeep
<1>16. CASE \E f \in Files : Edit(f)
  BY <1>16, WritesKeep
<1>17. CASE Stop
  BY <1>17, SchedulerKeeps
<1>18. CASE NextDrain
  BY <1>18 DEF NextDrain, Order!NextDrain, Order!AllWaiting, NoParse, NoFile, FreshCache
<1> QED
  BY Actions, <1>1, <1>2, <1>3, <1>4, <1>5, <1>6, <1>7, <1>8, <1>9, <1>10,
     <1>11, <1>12, <1>13, <1>14, <1>15, <1>16, <1>17, <1>18

\* A parse is published only by the thread that owns the file's entry.
LEMMA UnparsedStep == IInv /\ Next => Unparsed'
<1> SUFFICES ASSUME IInv, Next PROVE Unparsed'
  OBVIOUS
<1> USE ReadsAssumption DEF IInv, TypeOK, Listed, Unparsed, Active, Stages, order, history,
       thread, cache
<1>1. CASE \E l \in Loaders, f \in Files : LookupHit(l, f)
  BY <1>1 DEF LookupHit
<1>2. CASE \E l \in Loaders, f \in Files : LookupMiss(l, f)
  BY <1>2 DEF LookupMiss, Goto
<1>3. CASE \E l \in Loaders : EnterHit(l)
  BY <1>3 DEF EnterHit, Return, Goto, Landed
<1>4. CASE \E l \in Loaders : EnterWait(l)
  BY <1>4 DEF EnterWait, Goto, Landed, Taken
<1>5. CASE \E l \in Loaders : EnterParse(l)
  BY <1>5 DEF EnterParse, Goto, Landed, Taken
<1>6. CASE \E l \in Loaders : Parse(l)
  BY <1>6 DEF Parse, Goto
<1>7. CASE \E l \in Loaders : ParsePanics(l)
  BY <1>7 DEF ParsePanics, Goto
<1>8. CASE \E l \in Loaders : Publish(l)
  BY <1>8 DEF Publish, Goto
<1>9. CASE \E l \in Loaders : Unlist(l)
  BY <1>9 DEF Unlist, Goto
<1>10. CASE \E l \in Loaders : Land(l)
  BY <1>10 DEF Land, Return, Woken, Waiters
<1>11. CASE \E l \in Loaders : Wake(l)
  BY <1>11 DEF Wake, Return, Goto
<1>12. CASE \E p \in Projects : Start(p)
  BY <1>12, SchedulerKeeps
<1>13. CASE \E p \in Projects : Finish(p)
  BY <1>13, SchedulerKeeps
<1>14. CASE \E p \in Projects : Crash(p)
  BY <1>14, SchedulerKeeps
<1>15. CASE \E p \in Projects : Emit(p)
  BY <1>15, WritesKeep
<1>16. CASE \E f \in Files : Edit(f)
  BY <1>16, WritesKeep
<1>17. CASE Stop
  BY <1>17, SchedulerKeeps
<1>18. CASE NextDrain
  BY <1>18 DEF NextDrain, Order!NextDrain, Order!AllWaiting, NoParse, NoFile, FreshCache
<1> QED
  BY Actions, <1>1, <1>2, <1>3, <1>4, <1>5, <1>6, <1>7, <1>8, <1>9, <1>10,
     <1>11, <1>12, <1>13, <1>14, <1>15, <1>16, <1>17, <1>18

\* An answer is what the cache holds, and the cache never replaces a parse.
LEMMA SharedStep == IInv /\ Next => Shared'
<1> SUFFICES ASSUME IInv, Next PROVE Shared'
  OBVIOUS
<1> USE ReadsAssumption DEF IInv, TypeOK, Unparsed, Shared, Stages, order, history, thread,
       cache
<1>1. CASE \E l \in Loaders, f \in Files : LookupHit(l, f)
  BY <1>1 DEF LookupHit
<1>2. CASE \E l \in Loaders, f \in Files : LookupMiss(l, f)
  BY <1>2 DEF LookupMiss, Goto
<1>3. CASE \E l \in Loaders : EnterHit(l)
  BY <1>3 DEF EnterHit, Return, Goto, Landed
<1>4. CASE \E l \in Loaders : EnterWait(l)
  BY <1>4 DEF EnterWait, Goto, Landed, Taken
<1>5. CASE \E l \in Loaders : EnterParse(l)
  BY <1>5 DEF EnterParse, Goto, Landed, Taken
<1>6. CASE \E l \in Loaders : Parse(l)
  BY <1>6 DEF Parse, Goto
<1>7. CASE \E l \in Loaders : ParsePanics(l)
  BY <1>7 DEF ParsePanics, Goto
<1>8. CASE \E l \in Loaders : Publish(l)
  BY <1>8 DEF Publish, Goto
<1>9. CASE \E l \in Loaders : Unlist(l)
  BY <1>9 DEF Unlist, Goto
<1>10. CASE \E l \in Loaders : Land(l)
  BY <1>10 DEF Land, Return, Woken, Waiters
<1>11. CASE \E l \in Loaders : Wake(l)
  BY <1>11 DEF Wake, Return, Goto
<1>12. CASE \E p \in Projects : Start(p)
  BY <1>12, SchedulerKeeps
<1>13. CASE \E p \in Projects : Finish(p)
  BY <1>13, SchedulerKeeps
<1>14. CASE \E p \in Projects : Crash(p)
  BY <1>14, SchedulerKeeps
<1>15. CASE \E p \in Projects : Emit(p)
  BY <1>15, WritesKeep
<1>16. CASE \E f \in Files : Edit(f)
  BY <1>16, WritesKeep
<1>17. CASE Stop
  BY <1>17, SchedulerKeeps
<1>18. CASE NextDrain
  BY <1>18 DEF NextDrain, Order!NextDrain, Order!AllWaiting, NoParse, NoFile, FreshCache
<1> QED
  BY Actions, <1>1, <1>2, <1>3, <1>4, <1>5, <1>6, <1>7, <1>8, <1>9, <1>10,
     <1>11, <1>12, <1>13, <1>14, <1>15, <1>16, <1>17, <1>18

\* A project ends only when its threads are back.
LEMMA ActiveStep == IInv /\ Next => Active'
<1> SUFFICES ASSUME IInv, Next PROVE Active'
  OBVIOUS
<1> USE ReadsAssumption DEF IInv, TypeOK, Active, Stages, order, history, thread, cache
<1>1. CASE \E l \in Loaders, f \in Files : LookupHit(l, f)
  BY <1>1 DEF LookupHit
<1>2. CASE \E l \in Loaders, f \in Files : LookupMiss(l, f)
  BY <1>2 DEF LookupMiss, Goto
<1>3. CASE \E l \in Loaders : EnterHit(l)
  BY <1>3 DEF EnterHit, Return, Goto, Landed
<1>4. CASE \E l \in Loaders : EnterWait(l)
  BY <1>4 DEF EnterWait, Goto, Landed, Taken
<1>5. CASE \E l \in Loaders : EnterParse(l)
  BY <1>5 DEF EnterParse, Goto, Landed, Taken
<1>6. CASE \E l \in Loaders : Parse(l)
  BY <1>6 DEF Parse, Goto
<1>7. CASE \E l \in Loaders : ParsePanics(l)
  BY <1>7 DEF ParsePanics, Goto
<1>8. CASE \E l \in Loaders : Publish(l)
  BY <1>8 DEF Publish, Goto
<1>9. CASE \E l \in Loaders : Unlist(l)
  BY <1>9 DEF Unlist, Goto
<1>10. CASE \E l \in Loaders : Land(l)
  BY <1>10 DEF Land, Return, Woken, Waiters
<1>11. CASE \E l \in Loaders : Wake(l)
  BY <1>11 DEF Wake, Return, Goto
<1>12. CASE \E p \in Projects : Start(p)
  BY <1>12 DEF Start, Order!Start, Order!MayStart
<1>13. CASE \E p \in Projects : Finish(p)
  BY <1>13 DEF Finish, Order!Finish, Threads
<1>14. CASE \E p \in Projects : Crash(p)
  BY <1>14 DEF Crash, Order!Crash, Threads
<1>15. CASE \E p \in Projects : Emit(p)
  BY <1>15, WritesKeep
<1>16. CASE \E f \in Files : Edit(f)
  BY <1>16, WritesKeep
<1>17. CASE Stop
  BY <1>17 DEF Stop, Order!Stop
<1>18. CASE NextDrain
  BY <1>18 DEF NextDrain, Order!NextDrain, Order!AllWaiting, NoParse, NoFile, FreshCache
<1> QED
  BY Actions, <1>1, <1>2, <1>3, <1>4, <1>5, <1>6, <1>7, <1>8, <1>9, <1>10,
     <1>11, <1>12, <1>13, <1>14, <1>15, <1>16, <1>17, <1>18

\* The scheduler starts a project after those it waits for.
LEMMA OrderedStep == IInv /\ Next => Ordered'
<1> SUFFICES ASSUME IInv, Next PROVE Ordered'
  OBVIOUS
<1>1. CASE \E p \in Projects : Start(p)
  BY <1>1, ReadsAssumption DEF IInv, TypeOK, Ordered, Start, Order!Start, Order!MayStart, Order!Status
<1>2. CASE \E p \in Projects : Finish(p)
  BY <1>2, ReadsAssumption DEF IInv, TypeOK, Ordered, Finish, Order!Finish, Order!Status
<1>3. CASE \E p \in Projects : Crash(p)
  BY <1>3, ReadsAssumption DEF IInv, TypeOK, Ordered, Crash, Order!Crash, Order!Status
<1>4. CASE NextDrain
  BY <1>4, ReadsAssumption DEF IInv, TypeOK, Ordered, NextDrain, Order!NextDrain, Order!AllWaiting, Order!Status
<1>5. CASE \E l \in Loaders : LookupStep(l) \/ ParsePanics(l)
                 \/ \E f \in Files : LookupHit(l, f) \/ LookupMiss(l, f)
  <2>1. status' = status
    BY <1>5 DEF LookupStep, LookupHit, LookupMiss, EnterHit, EnterWait, EnterParse, Parse,
       ParsePanics, Publish, Unlist, Land, Wake, order
  <2> QED
    BY <2>1 DEF IInv, Ordered
<1>6. CASE (\E p \in Projects : Emit(p)) \/ (\E f \in Files : Edit(f)) \/ Stop
  BY <1>6, WritesKeep DEF IInv, Ordered, order, Stop, Order!Stop
<1> QED
  BY <1>1, <1>2, <1>3, <1>4, <1>5, <1>6 DEF Next

\* A thread that is at a declaration is at it after the project that emits it.
LEMMA ReaderWaits ==
  ASSUME IInv, NEW l \in Loaders, pc[l] # "idle", Writer[file[l]] # Nobody
  PROVE  status[Writer[file[l]]] = "done"
<1>1. file[l] \in Files /\ file[l] \in Reads[Owner[l]] /\ status[Owner[l]] # "waiting"
  BY DEF IInv, TypeOK, Active
<1>2. Owner[l] \in Projects /\ Writer[file[l]] \in Barriers[Owner[l]]
  BY <1>1, ReadsAssumption
<1> QED
  BY <1>1, <1>2 DEF IInv, Ordered

\* Nobody reads a declaration while the project that emits it may still write it.
LEMMA CurrentStep == IInv /\ Next => Current'
<1> SUFFICES ASSUME IInv, Next PROVE Current'
  OBVIOUS
<1> USE ReadsAssumption, ReaderWaits DEF IInv, TypeOK, Current, Unparsed, Active, Ordered,
       Stages, order, history, thread, cache, Order!Status
<1>1. CASE \E l \in Loaders, f \in Files : LookupHit(l, f)
  BY <1>1 DEF LookupHit
<1>2. CASE \E l \in Loaders, f \in Files : LookupMiss(l, f)
  BY <1>2 DEF LookupMiss, Goto
<1>3. CASE \E l \in Loaders : EnterHit(l)
  BY <1>3 DEF EnterHit, Return, Goto, Landed
<1>4. CASE \E l \in Loaders : EnterWait(l)
  BY <1>4 DEF EnterWait, Goto, Landed, Taken
<1>5. CASE \E l \in Loaders : EnterParse(l)
  BY <1>5 DEF EnterParse, Goto, Landed, Taken
<1>6. CASE \E l \in Loaders : Parse(l)
  BY <1>6 DEF Parse, Goto
<1>7. CASE \E l \in Loaders : ParsePanics(l)
  BY <1>7 DEF ParsePanics, Goto
<1>8. CASE \E l \in Loaders : Publish(l)
  BY <1>8 DEF Publish, Goto
<1>9. CASE \E l \in Loaders : Unlist(l)
  BY <1>9 DEF Unlist, Goto
<1>10. CASE \E l \in Loaders : Land(l)
  BY <1>10 DEF Land, Return, Woken, Waiters
<1>11. CASE \E l \in Loaders : Wake(l)
  BY <1>11 DEF Wake, Return, Goto
<1>12. CASE \E p \in Projects : Start(p)
  BY <1>12 DEF Start, Order!Start, Order!MayStart
<1>13. CASE \E p \in Projects : Finish(p)
  BY <1>13 DEF Finish, Order!Finish, Threads
<1>14. CASE \E p \in Projects : Crash(p)
  BY <1>14 DEF Crash, Order!Crash, Threads
<1>15. CASE \E p \in Projects : Emit(p)
  BY <1>15 DEF Emit, Bump
<1>16. CASE \E f \in Files : Edit(f)
  BY <1>16 DEF Edit, Bump
<1>17. CASE Stop
  BY <1>17 DEF Stop, Order!Stop
<1>18. CASE NextDrain
  BY <1>18 DEF NextDrain, Order!NextDrain, Order!AllWaiting, NoParse, NoFile, FreshCache
<1> QED
  BY Actions, <1>1, <1>2, <1>3, <1>4, <1>5, <1>6, <1>7, <1>8, <1>9, <1>10,
     <1>11, <1>12, <1>13, <1>14, <1>15, <1>16, <1>17, <1>18

\* A waiter is released after the parse it waited for was published.
LEMMA ExistingStep == IInv /\ Next => Existing'
<1> SUFFICES ASSUME IInv, Next PROVE Existing'
  OBVIOUS
<1> USE ReadsAssumption DEF IInv, TypeOK, Existing, Unparsed, Waiting, Active, Stages, order,
       history, thread, cache, Versions
<1>1. CASE \E l \in Loaders, f \in Files : LookupHit(l, f)
  BY <1>1 DEF LookupHit
<1>2. CASE \E l \in Loaders, f \in Files : LookupMiss(l, f)
  BY <1>2 DEF LookupMiss, Goto
<1>3. CASE \E l \in Loaders : EnterHit(l)
  BY <1>3 DEF EnterHit, Return, Goto, Landed
<1>4. CASE \E l \in Loaders : EnterWait(l)
  BY <1>4 DEF EnterWait, Goto, Landed, Taken
<1>5. CASE \E l \in Loaders : EnterParse(l)
  BY <1>5 DEF EnterParse, Goto, Landed, Taken
<1>6. CASE \E l \in Loaders : Parse(l)
  BY <1>6 DEF Parse, Goto
<1>7. CASE \E l \in Loaders : ParsePanics(l)
  BY <1>7 DEF ParsePanics, Goto
<1>8. CASE \E l \in Loaders : Publish(l)
  BY <1>8 DEF Publish, Goto
<1>9. CASE \E l \in Loaders : Unlist(l)
  BY <1>9 DEF Unlist, Goto
<1>10. CASE \E l \in Loaders : Land(l)
  BY <1>10 DEF Land, Return, Woken, Waiters
<1>11. CASE \E l \in Loaders : Wake(l)
  BY <1>11 DEF Wake, Return, Goto
<1>12. CASE \E p \in Projects : Start(p)
  BY <1>12, SchedulerKeeps
<1>13. CASE \E p \in Projects : Finish(p)
  BY <1>13, SchedulerKeeps
<1>14. CASE \E p \in Projects : Crash(p)
  BY <1>14, SchedulerKeeps
<1>15. CASE \E p \in Projects : Emit(p)
  BY <1>15 DEF Emit, Bump
<1>16. CASE \E f \in Files : Edit(f)
  BY <1>16 DEF Edit, Bump
<1>17. CASE Stop
  BY <1>17, SchedulerKeeps
<1>18. CASE NextDrain
  BY <1>18 DEF NextDrain, Order!NextDrain, Order!AllWaiting, NoParse, NoFile, FreshCache
<1> QED
  BY Actions, <1>1, <1>2, <1>3, <1>4, <1>5, <1>6, <1>7, <1>8, <1>9, <1>10,
     <1>11, <1>12, <1>13, <1>14, <1>15, <1>16, <1>17, <1>18

\* No thread leaves the file others wait for without releasing them.
LEMMA WaitingStep == IInv /\ Next => Waiting'
<1> SUFFICES ASSUME IInv, Next PROVE Waiting'
  OBVIOUS
<1> USE ReadsAssumption DEF IInv, TypeOK, Entries, Waiting, Active, Stages, order, history,
       thread, cache
<1>1. CASE \E l \in Loaders, f \in Files : LookupHit(l, f)
  BY <1>1 DEF LookupHit
<1>2. CASE \E l \in Loaders, f \in Files : LookupMiss(l, f)
  BY <1>2 DEF LookupMiss, Goto
<1>3. CASE \E l \in Loaders : EnterHit(l)
  BY <1>3 DEF EnterHit, Return, Goto, Landed
<1>4. CASE \E l \in Loaders : EnterWait(l)
  BY <1>4 DEF EnterWait, Goto, Landed, Taken
<1>5. CASE \E l \in Loaders : EnterParse(l)
  BY <1>5 DEF EnterParse, Goto, Landed, Taken
<1>6. CASE \E l \in Loaders : Parse(l)
  BY <1>6 DEF Parse, Goto
<1>7. CASE \E l \in Loaders : ParsePanics(l)
  BY <1>7 DEF ParsePanics, Goto
<1>8. CASE \E l \in Loaders : Publish(l)
  BY <1>8 DEF Publish, Goto
<1>9. CASE \E l \in Loaders : Unlist(l)
  BY <1>9 DEF Unlist, Goto
<1>10. CASE \E l \in Loaders : Land(l)
  BY <1>10 DEF Land, Return, Woken, Waiters
<1>11. CASE \E l \in Loaders : Wake(l)
  BY <1>11 DEF Wake, Return, Goto
<1>12. CASE \E p \in Projects : Start(p)
  BY <1>12, SchedulerKeeps
<1>13. CASE \E p \in Projects : Finish(p)
  BY <1>13, SchedulerKeeps
<1>14. CASE \E p \in Projects : Crash(p)
  BY <1>14, SchedulerKeeps
<1>15. CASE \E p \in Projects : Emit(p)
  BY <1>15, WritesKeep
<1>16. CASE \E f \in Files : Edit(f)
  BY <1>16, WritesKeep
<1>17. CASE Stop
  BY <1>17, SchedulerKeeps
<1>18. CASE NextDrain
  BY <1>18 DEF NextDrain, Order!NextDrain, Order!AllWaiting, NoParse, NoFile, FreshCache
<1> QED
  BY Actions, <1>1, <1>2, <1>3, <1>4, <1>5, <1>6, <1>7, <1>8, <1>9, <1>10,
     <1>11, <1>12, <1>13, <1>14, <1>15, <1>16, <1>17, <1>18

LEMMA Initially == Init => IInv
<1> SUFFICES ASSUME Init PROVE IInv
  OBVIOUS
<1> USE DEF Init, NoFile, NoParse
<1>1. TypeOK
  <2>1. disk \in [Files -> Versions] /\ 0 \in Versions
    BY ReadsAssumption DEF Versions
  <2> QED
    BY <2>1, ReadsAssumption DEF Order!Init, Order!AllWaiting, Order!Status, Stages, TypeOK
<1>2. Listed /\ Entries /\ Unparsed /\ Active /\ Waiting
  BY DEF Listed, Entries, Unparsed, Active, Waiting
<1>3. Shared /\ Ordered
  BY DEF Shared, Ordered, Order!Init, Order!AllWaiting
<1>4. Current
  BY DEF Current
<1>5. Existing
  BY DEF Existing
<1> QED
  BY <1>1, <1>2, <1>3, <1>4, <1>5 DEF IInv

LEMMA Stuttering == IInv /\ UNCHANGED vars => IInv'
  BY DEF vars, order, history, IInv, TypeOK, Listed, Entries, Unparsed, Shared, Active, Ordered,
     Current, Existing, Waiting

LEMMA Invariance == Spec => []IInv
<1>1. IInv /\ [Next]_vars => IInv'
  BY Stuttering, TypeStep, ListedStep, EntriesStep, UnparsedStep, SharedStep, ActiveStep, OrderedStep,
     CurrentStep, ExistingStep, WaitingStep DEF IInv
<1> QED
  BY <1>1, Initially, PTL DEF Spec
-----------------------------------------------------------------------------
\* Every variable of the cache keeps its type, and a waiting thread always waits
\* for a thread.
THEOREM TypeCorrect == Spec => []TypeOK
  BY Invariance, PTL DEF IInv

\* For any projects and threads, at most one thread parses a file at a time.
THEOREM ParsesOnce == Spec => []SingleFlight
<1>1. IInv => SingleFlight
  BY DEF IInv, Listed, SingleFlight
<1> QED
  BY <1>1, Invariance, PTL

\* All answers of a drain for one file are the same parse, whatever happens to
\* the file on disk.
THEOREM EverybodySharesOneParse == Spec => []OneSnapshot
<1>1. IInv => OneSnapshot
  BY DEF IInv, Shared, OneSnapshot
<1> QED
  BY <1>1, Invariance, PTL

\* A program never reads a declaration older than what its project emitted, in
\* any drain of the session.
THEOREM DeclarationsFresh == Spec => []FreshDeclarations
<1>1. IInv => FreshDeclarations
  BY DEF IInv, Shared, Current, FreshDeclarations
<1> QED
  BY <1>1, Invariance, PTL

\* A file that exists when the drain begins is never answered with nothing.
THEOREM ExistingFilesFound == Spec => []NeverLost
<1>1. IInv => NeverLost
  BY DEF IInv, TypeOK, Existing, NeverLost
<1> QED
  BY <1>1, Invariance, PTL

\* A waiting thread waits for one that parses its file, or for a parse that panicked,
\* and never for another thread that waits: but for a panic nobody waits in a circle,
\* however many threads and files (get_source_file: the entry of a file is made by the
\* thread that parses it and outlives all its waiters).
NobodyWaitsForWaiter ==
  \A l \in Loaders : pc[l] = "waiting" =>
    /\ waitsFor[l] # l /\ file[waitsFor[l]] = file[l]
    /\ pc[waitsFor[l]] \in {"parse", "publish", "unlist", "land", "panicked"}

\* Lookups never wait for each other in a circle, for any number of threads
\* (get_source_file).
THEOREM WaitsEnd == Spec => []NobodyWaitsForWaiter
<1>1. IInv => NobodyWaitsForWaiter
  BY DEF IInv, TypeOK, Waiting, NobodyWaitsForWaiter
<1> QED
  BY <1>1, Invariance, PTL
-----------------------------------------------------------------------------
(***************************************************************************)
(* The refinement of SharedParses.                                         *)
(***************************************************************************)
Reporting == {"publish", "unlist", "land"}

\* A waiter that will be answered with nothing was preceded by the thread that parsed.
NothingAnswered ==
  \A l \in Loaders : pc[l] = "landed" /\ sources[file[l]] = 0 => 0 \in seen[file[l]]

LEMMA NothingAnsweredStep == IInv /\ NothingAnswered /\ Next => NothingAnswered'
<1> SUFFICES ASSUME IInv, NothingAnswered, Next PROVE NothingAnswered'
  OBVIOUS
<1> USE ReadsAssumption DEF NothingAnswered, IInv, TypeOK, order, history, thread, cache
<1>1. ASSUME NEW l \in Loaders, NEW f \in Files, LookupHit(l, f) \/ LookupMiss(l, f) PROVE NothingAnswered'
  BY <1>1 DEF LookupHit, LookupMiss, Goto
<1>2. ASSUME NEW l \in Loaders, EnterHit(l) \/ Wake(l) PROVE NothingAnswered'
  <2>1. /\ pc'[l] = "idle" /\ UNCHANGED sources
        /\ \A m \in Loaders \ {l} : pc'[m] = pc[m] /\ file'[m] = file[m]
        /\ \A g \in Files : seen[g] \subseteq seen'[g]
    <3> DEFINE f == file[l]
               v == sources[f]
    <3>1. /\ pc' = [pc EXCEPT ![l] = "idle"] /\ file' = [file EXCEPT ![l] = Nobody]
          /\ seen' = [seen EXCEPT ![f] = @ \cup {v}] /\ UNCHANGED sources
      BY <1>2 DEF EnterHit, Wake, Return, Goto
    <3> HIDE DEF f, v
    <3> QED
      BY <3>1
  <2>2. \A m \in Loaders : pc[m] = "landed" => file[m] \in Files
    OBVIOUS
  <2> QED
    BY <2>1, <2>2
<1>3. ASSUME NEW l \in Loaders, EnterWait(l) \/ EnterParse(l) \/ Parse(l) \/ ParsePanics(l) \/ Unlist(l)
      PROVE  NothingAnswered'
  BY <1>3 DEF EnterWait, EnterParse, Parse, ParsePanics, Unlist, Goto
<1>4. ASSUME NEW l \in Loaders, Publish(l) PROVE NothingAnswered'
  BY <1>4 DEF Publish, Goto
<1>5. ASSUME NEW l \in Loaders, Land(l) PROVE NothingAnswered'
  <2>1. /\ parsed[l] \in {0, sources[file[l]]} /\ parsed[l] \in seen'[file[l]]
        /\ \A g \in Files : seen[g] \subseteq seen'[g]
    BY <1>5 DEF Land, Return, Unparsed
  <2>2. \A w \in Loaders : pc'[w] = "landed" =>
          /\ w # l /\ file'[w] = file[w]
          /\ pc[w] = "landed" \/ file[w] = file[l]
    BY <1>5 DEF Land, Return, Woken, Waiters, Waiting
  <2> QED
    BY <1>5, <2>1, <2>2 DEF Land
<1>6. CASE UNCHANGED <<thread, sources, seen>>
  BY <1>6
<1>7. CASE NextDrain
  <2>1. \A l \in Loaders : pc[l] # "landed"
    BY <1>7 DEF NextDrain, Order!NextDrain, Active
  <2> QED
    BY <1>7, <2>1 DEF NextDrain
<1> QED
  BY Actions, SchedulerKeeps, WritesKeep, <1>1, <1>2, <1>3, <1>4, <1>5, <1>6, <1>7

\* A step of one thread that neither reads, publishes nor lands shows nothing.
LEMMA HiddenStep ==
  ASSUME IInv, NEW l \in Loaders, pc[l] \notin Reporting, pc'[l] \notin Reporting,
         \A m \in Loaders \ {l} : pc'[m] = pc[m] /\ file'[m] = file[m] /\ parsed'[m] = parsed[m],
         UNCHANGED <<sources, seen>>,
         \A f \in Files : inflight'[f] # inflight[f] => inflight[f] = Nobody /\ inflight'[f] = l
  PROVE  Memo' = Memo /\ Absent' = Absent
<1> USE DEF Reporting
<1>1. Publishing' = Publishing /\ l \notin Publishing /\ Nobody \notin Publishing
  BY ReadsAssumption DEF Publishing
<1>2. \A f \in Files : inflight[f] \in Publishing =>
        inflight'[f] = inflight[f] /\ parsed'[inflight[f]] = parsed[inflight[f]]
  BY <1>1 DEF Publishing
<1>3. \A f \in Files : inflight'[f] \in Publishing => inflight'[f] = inflight[f]
  BY <1>1
<1>4. Memo' = Memo
  BY <1>1, <1>2, <1>3 DEF Memo
<1>5. Absent' = Absent
  BY DEF Absent
<1> QED
  BY <1>4, <1>5

\* The lookup of l is answered with v, its file's parse or nothing.
LEMMA AnswerMaps ==
  ASSUME IInv, NEW f \in Files, NEW v \in Versions,
         seen' = [seen EXCEPT ![f] = @ \cup {v}], disk' = disk, Memo' = Memo,
         Absent' = Absent, v # 0 => v = Memo[f], v = 0 => f \in Absent
  PROVE  Promise!Next
<1>1. CASE v # 0
  <2>1. Promise!Answer(f)
    BY <1>1 DEF Promise!Answer
  <2> QED
    BY <2>1 DEF Promise!Next
<1>2. CASE v = 0
  <2>1. Promise!AnswerNothing(f)
    BY <1>2 DEF Promise!AnswerNothing
  <2> QED
    BY <2>1 DEF Promise!Next
<1> QED
  BY <1>1, <1>2

LEMMA InitMaps == Init => Promise!Init
<1> SUFFICES ASSUME Init PROVE Promise!Init
  OBVIOUS
<1>1. Memo = [f \in Files |-> 0] /\ Absent = {}
  BY DEF Init, NoFile, NoParse, Memo, Publishing, Absent
<1> QED
  BY <1>1 DEF Init, Promise!Init, Promise!NoParses, Promise!NoAnswers

LEMMA StepMaps == IInv /\ NothingAnswered /\ [Next]_vars => [Promise!Next]_(Promise!vars)
<1> SUFFICES ASSUME IInv, NothingAnswered, [Next]_vars
             PROVE  Promise!Next \/ UNCHANGED <<disk, Memo, Absent, seen>>
  BY DEF Promise!vars
<1> TypeOK
  BY DEF IInv
<1> USE DEF order, history, thread, cache
<1>1. ASSUME NEW l \in Loaders, NEW f \in Files, LookupHit(l, f) PROVE Promise!Next
  <2>1. /\ sources[f] # 0 /\ seen' = [seen EXCEPT ![f] = @ \cup {sources[f]}]
        /\ UNCHANGED <<disk, sources, inflight, thread>>
    BY <1>1 DEF LookupHit
  <2>2. Memo' = Memo /\ Memo[f] = sources[f]
    BY <2>1 DEF Memo, Publishing
  <2>3. Absent' = Absent
    BY <2>1 DEF Absent, TypeOK
  <2>4. sources[f] \in Versions /\ sources[f] # 0
    BY <2>1 DEF TypeOK
  <2> DEFINE v == sources[f]
  <2>5. seen' = [seen EXCEPT ![f] = @ \cup {v}] /\ disk' = disk
    BY <2>1
  <2>6. v \in Versions /\ v # 0 /\ v = Memo[f]
    BY <2>2, <2>4
  <2> HIDE DEF v
  <2> QED
    BY <2>2, <2>3, <2>5, <2>6, AnswerMaps
<1>2. ASSUME NEW l \in Loaders, NEW f \in Files, LookupMiss(l, f) PROVE UNCHANGED <<disk, Memo, Absent, seen>>
  BY <1>2, HiddenStep DEF LookupMiss, Goto, TypeOK, Reporting
<1>3. ASSUME NEW l \in Loaders, EnterHit(l) \/ Wake(l) PROVE Promise!Next
  <2> DEFINE f == file[l]
             v == sources[f]
  <2>1. /\ pc[l] \in {"miss", "landed"} /\ f \in Files /\ v \in Versions
        /\ seen' = [seen EXCEPT ![f] = @ \cup {v}] /\ UNCHANGED <<disk, sources, inflight>>
        /\ pc'[l] = "idle"
        /\ \A m \in Loaders \ {l} : pc'[m] = pc[m] /\ file'[m] = file[m] /\ parsed'[m] = parsed[m]
    BY <1>3 DEF EnterHit, Wake, Return, Goto, TypeOK
  <2>2. v = 0 => 0 \in seen[f]
    BY <1>3 DEF EnterHit, Wake, Landed, NothingAnswered
  <2> HIDE DEF f, v
  <2>3. Publishing' = Publishing /\ l \notin Publishing
    BY <2>1 DEF Publishing
  <2>4. Memo' = Memo
    <3>1. \A g \in Files : inflight[g] \in Publishing => parsed'[inflight[g]] = parsed[inflight[g]]
      BY <2>1, <2>3 DEF Publishing
    <3> QED
      BY <2>1, <2>3, <3>1 DEF Memo
  <2>5. v # 0 => v = Memo[f]
    BY <2>1 DEF Memo, v
  <2>6. Absent' = Absent
    BY <2>1, <2>2 DEF Absent, TypeOK
  <2>7. v = 0 => f \in Absent
    BY <2>1, <2>2 DEF Absent
  <2> QED
    BY <2>1, <2>4, <2>5, <2>6, <2>7, AnswerMaps
<1>4. ASSUME NEW l \in Loaders, EnterWait(l) \/ EnterParse(l) \/ ParsePanics(l)
      PROVE  UNCHANGED <<disk, Memo, Absent, seen>>
  BY <1>4, HiddenStep DEF EnterWait, EnterParse, Taken, ParsePanics, Goto, TypeOK, Reporting
<1>5. ASSUME NEW l \in Loaders, Parse(l) PROVE Promise!Next
  <2> DEFINE f == file[l]
  <2>1. /\ pc[l] = "parse" /\ f \in Files /\ inflight[f] = l /\ sources[f] = 0
        /\ pc'[l] = "publish" /\ parsed'[l] = disk[f] /\ UNCHANGED <<disk, sources, inflight, file, seen>>
        /\ \A m \in Loaders \ {l} : pc'[m] = pc[m] /\ parsed'[m] = parsed[m]
    BY <1>5 DEF Parse, Goto, TypeOK, IInv, Listed, Unparsed
  <2>2. l \notin Publishing /\ Publishing' = Publishing \cup {l}
    BY <2>1 DEF Publishing
  <2>3. \A g \in Files \ {f} : inflight[g] # l
    BY <2>1, ReadsAssumption DEF IInv, Entries
  <2>4. \A g \in Files \ {f} : Memo'[g] = Memo[g]
    <3>1. \A g \in Files \ {f} : inflight[g] \in Publishing => parsed'[inflight[g]] = parsed[inflight[g]]
      BY <2>1, <2>2 DEF Publishing
    <3> QED
      BY <2>1, <2>2, <2>3, <3>1 DEF Memo
  <2>5. Memo[f] = 0 /\ Memo'[f] = disk[f]
    BY <2>1, <2>2 DEF Memo
  <2>6. Memo' = [Memo EXCEPT ![f] = disk[f]]
    BY <2>1, <2>4, <2>5 DEF Memo
  <2>7. Absent' = IF disk[f] = 0 THEN Absent \cup {f} ELSE Absent
    BY <2>1 DEF Absent
  <2> HIDE DEF f
  <2>8. CASE disk[f] # 0
    <3>1. Promise!Parse(f)
      BY <2>1, <2>5, <2>6, <2>7, <2>8 DEF Promise!Parse
    <3> QED
      BY <2>1, <3>1 DEF Promise!Next
  <2>9. CASE disk[f] = 0
    <3>1. Memo' = Memo
      BY <2>1, <2>5, <2>6, <2>9 DEF Memo
    <3>2. Promise!FindNothing(f)
      BY <2>1, <2>5, <2>7, <2>9, <3>1 DEF Promise!FindNothing
    <3> QED
      BY <2>1, <3>2 DEF Promise!Next
  <2> QED
    BY <2>8, <2>9
<1>6. ASSUME NEW l \in Loaders, Publish(l) PROVE UNCHANGED <<disk, Memo, Absent, seen>>
  <2> DEFINE f == file[l]
  <2>1. /\ pc[l] = "publish" /\ f \in Files /\ inflight[f] = l /\ sources[f] = 0
        /\ pc'[l] = "unlist" /\ UNCHANGED <<disk, inflight, file, parsed, seen>>
        /\ \A m \in Loaders \ {l} : pc'[m] = pc[m]
        /\ sources'[f] = parsed[l] /\ \A g \in Files \ {f} : sources'[g] = sources[g]
    BY <1>6 DEF Publish, Goto, TypeOK, IInv, Listed, Unparsed
  <2>2. l \in Publishing /\ Publishing' = Publishing \ {l}
    BY <2>1 DEF Publishing
  <2>3. \A g \in Files \ {f} : inflight[g] # l
    BY <2>1, ReadsAssumption DEF IInv, Entries
  <2>4. \A g \in Files \ {f} : Memo'[g] = Memo[g]
    BY <2>1, <2>2, <2>3 DEF Memo
  <2>5. Memo[f] = parsed[l] /\ Memo'[f] = parsed[l]
    BY <2>1, <2>2 DEF Memo
  <2>6. Memo' = Memo
    BY <2>4, <2>5 DEF Memo
  <2>7. Absent' = Absent
    BY <2>1 DEF Absent
  <2> QED
    BY <2>1, <2>6, <2>7
<1>7. ASSUME NEW l \in Loaders, Unlist(l) PROVE UNCHANGED <<disk, Memo, Absent, seen>>
  <2>1. /\ pc[l] = "unlist" /\ pc'[l] = "land" /\ UNCHANGED <<disk, sources, file, parsed, seen>>
        /\ \A m \in Loaders \ {l} : pc'[m] = pc[m]
        /\ inflight[file[l]] = l /\ inflight' = [inflight EXCEPT ![file[l]] = Nobody]
    BY <1>7 DEF Unlist, Goto, TypeOK, IInv, Listed
  <2>2. Publishing' = Publishing /\ l \notin Publishing /\ Nobody \notin Publishing
    BY <2>1, ReadsAssumption DEF Publishing
  <2>3. Memo' = Memo
    BY <2>1, <2>2 DEF Memo, TypeOK
  <2>4. Absent' = Absent
    BY <2>1 DEF Absent
  <2> QED
    BY <2>1, <2>3, <2>4
<1>8. ASSUME NEW l \in Loaders, Land(l) PROVE Promise!Next
  <2> DEFINE f == file[l]
             v == parsed[l]
  <2>1. /\ pc[l] = "land" /\ f \in Files /\ v \in Versions /\ v \in {0, sources[f]}
        /\ seen' = [seen EXCEPT ![f] = @ \cup {v}] /\ UNCHANGED <<disk, sources, inflight>>
        /\ pc'[l] = "idle"
        /\ \A m \in Loaders \ {l} :
             /\ file'[m] = file[m] /\ parsed'[m] = parsed[m]
             /\ pc'[m] = pc[m] \/ (pc[m] = "waiting" /\ pc'[m] = "landed")
    BY <1>8 DEF Land, Return, Woken, Waiters, TypeOK, IInv, Unparsed
  <2> HIDE DEF f
  <2>2. Publishing' = Publishing /\ l \notin Publishing
    BY <2>1 DEF Publishing
  <2>3. Memo' = Memo
    <3>1. \A g \in Files : inflight[g] \in Publishing => parsed'[inflight[g]] = parsed[inflight[g]]
      BY <2>1, <2>2 DEF Publishing
    <3> QED
      BY <2>1, <2>2, <3>1 DEF Memo
  <2>4. v # 0 => v = Memo[f]
    BY <2>1 DEF Memo
  <2>5. v = 0 => f \in Absent
    BY <2>1 DEF Absent, f
  <2>6. Absent' = Absent
    <3>1. ASSUME NEW g \in Files PROVE g \in Absent' <=> g \in Absent
      <4>1. CASE g = f /\ v = 0
        BY <2>1, <2>5, <4>1 DEF Absent, TypeOK
      <4>2. CASE ~ (g = f /\ v = 0)
        <5>1. 0 \in seen'[g] <=> 0 \in seen[g]
          BY <2>1, <4>2 DEF TypeOK
        <5>2. \A m \in Loaders : file'[m] = g /\ pc'[m] \in Reporting /\ parsed'[m] = 0
                <=> file[m] = g /\ pc[m] \in Reporting /\ parsed[m] = 0
          BY <2>1, <4>2 DEF Reporting, f
        <5> QED
          BY <5>1, <5>2 DEF Absent, Reporting
      <4> QED
        BY <4>1, <4>2
    <3> QED
      BY <3>1 DEF Absent
  <2> QED
    BY <2>1, <2>3, <2>4, <2>5, <2>6, AnswerMaps
<1>9. CASE UNCHANGED <<cache, disk>>
  BY <1>9 DEF Memo, Publishing, Absent
<1>10. ASSUME NEW fs \in SUBSET Files, Bump(fs) PROVE Promise!Next
  <2>1. UNCHANGED <<sources, inflight, thread, seen>>
        /\ disk' = [f \in Files |-> IF f \in fs THEN disk[f] + 1 ELSE disk[f]]
    BY <1>10 DEF Bump
  <2>2. Memo' = Memo /\ Absent' = Absent
    BY <2>1 DEF Memo, Publishing, Absent
  <2>3. Promise!Save(fs)
    BY <2>1, <2>2 DEF Promise!Save
  <2> QED
    BY <2>3 DEF Promise!Next
<1>11. CASE NextDrain
  <2>1. \A l \in Loaders : pc[l] = "idle"
    BY <1>11, ReadsAssumption DEF NextDrain, Order!NextDrain, IInv, Active, TypeOK
  <2>2. sources' = NoFile /\ seen' = [f \in Files |-> {}] /\ inflight' = NoParse /\ UNCHANGED <<disk, pc, file, parsed>>
    BY <1>11 DEF NextDrain, FreshCache
  <2>3. Memo' = [f \in Files |-> 0] /\ Absent' = {}
    BY <2>1, <2>2 DEF Memo, Publishing, Absent, NoFile
  <2>4. Promise!NextDrain
    BY <2>2, <2>3 DEF Promise!NextDrain, Promise!NoParses, Promise!NoAnswers
  <2> QED
    BY <2>4 DEF Promise!Next
<1>12. (\E p \in Projects : Start(p) \/ Finish(p) \/ Crash(p)) \/ Stop => UNCHANGED <<cache, disk>>
  BY SchedulerKeeps
<1>13. ASSUME NEW p \in Projects, Emit(p) PROVE Promise!Next
  BY <1>10, <1>13 DEF Emit
<1>14. ASSUME NEW f \in Files, Edit(f) PROVE Promise!Next
  BY <1>10, <1>14 DEF Edit
<1>15. UNCHANGED vars => UNCHANGED <<cache, disk>>
  BY DEF vars
<1> QED
  BY Actions, <1>1, <1>2, <1>3, <1>4, <1>5, <1>6, <1>7, <1>8, <1>9, <1>11, <1>12, <1>13, <1>14, <1>15

\* The cache implements one parse per file and drain: each lookup is answered as if it
\* looked, at one moment, at a single parse that nobody else can be seen to make
\* (get_source_file), for any threads, files, edits and drains.
THEOREM Refinement == Spec => ImplementsSharedParses
<1>1. Spec => []NothingAnswered
  <2>1. Init => NothingAnswered
    BY DEF Init, NothingAnswered
  <2>2. UNCHANGED vars /\ NothingAnswered => NothingAnswered'
    BY DEF vars, NothingAnswered
  <2> QED
    BY <2>1, <2>2, NothingAnsweredStep, Invariance, PTL DEF Spec
<1> QED
  BY <1>1, InitMaps, StepMaps, Invariance, PTL DEF Spec, ImplementsSharedParses, Promise!Spec
=============================================================================
