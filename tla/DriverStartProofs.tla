--------------------------- MODULE DriverStartProofs ---------------------------
(***************************************************************************)
(* Starts of drivers, for any number of starts and instances, however they *)
(* overlap and whoever is killed; and what holds as long as they come one  *)
(* after the other.                                                        *)
(***************************************************************************)
EXTENDS DriverStart, TLAPS

\* Until it is spawned a start has no daemon.
NotSpawned ==
    \A k \in Starts : st[k] \in {"new", "probe", "remove", "spawn"} => dm[k] = "none"

\* A daemon is initialised by its own start.
InitedByOwn ==
    \A k \in Starts :
        inited[k] => st[k] \in {"handled", "answered", "running", "failed", "stopped"}

OneUnderWay == \A j, k \in UnderWay : j = k

\* Before it has bound its socket file no daemon is behind one.
Unbound == {"none", "truncate", "writepid", "bind", "check", "unlink", "rebind"}

\* The files of an instance lead to daemons of that instance.
FilesAreNamed ==
    \A i \in Ids : /\ sock[i] # 0 => id[sock[i]] = i /\ dm[sock[i]] \notin Unbound
                   /\ pidFile[i] # 0 => id[pidFile[i]] = i

\* A daemon that is alive has written its pid file, and then bound the socket.
FilesOfTheLiving ==
    \A k \in Starts :
        /\ dm[k] \in {"bind", "check", "unlink", "rebind", "chmod", "listen", "up"} =>
               pidFile[id[k]] = k
        /\ dm[k] \in {"chmod", "listen", "up"} => sock[id[k]] = k

\* From the probe on no other daemon of the instance is alive, and its pid file names
\* no other.
InstanceIsTaken ==
    \A k \in Starts : st[k] \in {"remove", "spawn", "sleep", "init"} =>
        /\ \A j \in Starts : Alive(j) /\ id[j] = id[k] => j = k
        /\ st[k] \in {"spawn", "sleep", "init"} => pidFile[id[k]] \in {0, k}

\* A start that has loaded a pid has loaded its daemon's, which is up or dead; it
\* initialises that one; and the daemon of a start that has ended is dead, or
\* initialised.
Waiting == {"asked", "handled", "answered"}

Settled ==
    \A k \in Starts :
        /\ st[k] \in {"sleep", "init", "running"} \cup Waiting => dm[k] # "none"
        /\ st[k] \in {"init", "running"} \cup Waiting => pid[k] = k
        /\ st[k] \in {"init", "running", "failed", "stopped"} \cup Waiting /\ Alive(k)
               => dm[k] = "up"
        /\ st[k] \in {"failed", "stopped"} => ~Alive(k)
        /\ st[k] \in Waiting \cup {"running"} => peer[k] = k
        /\ st[k] \in {"handled", "answered", "running"} => inited[k]

\* No daemon fails an assertion, or finds its socket file gone.
NoneFails == \A k \in Starts : dm[k] \notin {"aborted", "cleanup"}

\* What holds as long as starts do not race.
InOrder ==
    /\ InitedByOwn /\ OneUnderWay /\ FilesAreNamed /\ FilesOfTheLiving
    /\ InstanceIsTaken /\ Settled /\ NoneFails

IInv == TypeOK /\ NotSpawned /\ (raced \/ InOrder)

-----------------------------------------------------------------------------
\* A file that leads nowhere names no start.
LEMMA ZeroIsNoStart == 0 \notin Starts
BY DEF Starts

\* Races or not, every step keeps the types.
LEMMA TypeStep == TypeOK /\ [Next]_vars => TypeOK'
<1> SUFFICES ASSUME TypeOK, [Next]_vars PROVE TypeOK'
  OBVIOUS
<1> USE DEF TypeOK, StartPcs, DaemonPcs
<1>1. ASSUME NEW k \in Starts, Begin(k) PROVE TypeOK'
  BY <1>1 DEF Begin, Step
<1>2. ASSUME NEW k \in Starts, Probe(k) PROVE TypeOK'
  <2>1. CASE Answers(id[k]) /\ inited[sock[id[k]]]
    <3>1. id[k] # MaxId => id[k] + 1 \in Ids
      BY StartAssumption DEF Ids
    <3>2. id' = [id EXCEPT ![k] = IF id[k] = MaxId THEN id[k] ELSE id[k] + 1]
      BY <1>2, <2>1 DEF Probe
    <3>3. id' \in [Starts -> Ids]
      BY <3>1, <3>2
    <3> QED BY <1>2, <2>1, <3>3 DEF Probe, Step
  <2>2. CASE ~(Answers(id[k]) /\ inited[sock[id[k]]])
    BY <1>2, <2>2 DEF Probe, Step
  <2> QED BY <2>1, <2>2
<1>3. ASSUME NEW k \in Starts, RemovePidFile(k) PROVE TypeOK'
  BY <1>3 DEF RemovePidFile, Step
<1>4. ASSUME NEW k \in Starts, Spawn(k) PROVE TypeOK'
  BY <1>4 DEF Spawn, Step
<1>5. ASSUME NEW k \in Starts, LoadPid(k) PROVE TypeOK'
  BY <1>5 DEF LoadPid
<1>6. ASSUME NEW k \in Starts, Connect(k) PROVE TypeOK'
  BY <1>6 DEF Connect, Step, Answers
<1>7. ASSUME NEW k \in Starts, ReceiveReply(k) PROVE TypeOK'
  BY <1>7 DEF ReceiveReply, Step
<1>8. ASSUME NEW k \in Starts, HandleInitialize(k) PROVE TypeOK'
  BY <1>8 DEF HandleInitialize, Step
<1>9. ASSUME NEW k \in Starts, SendReply(k) PROVE TypeOK'
  BY <1>9 DEF SendReply, Step
<1>10. ASSUME NEW k \in Starts, Stop(k) PROVE TypeOK'
  BY <1>10 DEF Stop, Step
<1>11. ASSUME NEW k \in Starts, Kill(k) PROVE TypeOK'
  BY <1>11 DEF Kill
<1>12. ASSUME NEW k \in Starts, WritePidFile(k) PROVE TypeOK'
  BY <1>12 DEF WritePidFile, Go
<1>13. ASSUME NEW k \in Starts, Bind(k) PROVE TypeOK'
  BY <1>13 DEF Bind
<1>14. ASSUME NEW k \in Starts, CheckLive(k) PROVE TypeOK'
  BY <1>14 DEF CheckLive, Go
<1>15. ASSUME NEW k \in Starts, Unlink(k) PROVE TypeOK'
  BY <1>15 DEF Unlink, Go
<1>16. ASSUME NEW k \in Starts, Rebind(k) PROVE TypeOK'
  BY <1>16 DEF Rebind
<1>17. ASSUME NEW k \in Starts, Chmod(k) PROVE TypeOK'
  BY <1>17 DEF Chmod, Go
<1>18. ASSUME NEW k \in Starts, Cleanup(k) PROVE TypeOK'
  BY <1>18 DEF Cleanup, Go
<1>19. ASSUME NEW k \in Starts, Listen(k) PROVE TypeOK'
  BY <1>19 DEF Listen, Go
<1>20. CASE UNCHANGED vars
  BY <1>20 DEF vars
<1> QED
  BY <1>1, <1>2, <1>3, <1>4, <1>5, <1>6, <1>7, <1>8, <1>9, <1>10, <1>11, <1>12, <1>13,
     <1>14, <1>15, <1>16, <1>17, <1>18, <1>19, <1>20 DEF Next, Framework, Daemon

\* Races or not, a daemon lives only once it was spawned.
LEMMA NotSpawnedStep == TypeOK /\ NotSpawned /\ [Next]_vars => NotSpawned'
<1> SUFFICES ASSUME TypeOK, NotSpawned, [Next]_vars PROVE NotSpawned'
  OBVIOUS
<1> USE DEF TypeOK, NotSpawned
<1>1. ASSUME NEW k \in Starts, Begin(k) PROVE NotSpawned'
  BY <1>1 DEF Begin, Step
<1>2. ASSUME NEW k \in Starts, Probe(k) PROVE NotSpawned'
  BY <1>2 DEF Probe, Step, Answers
<1>3. ASSUME NEW k \in Starts, RemovePidFile(k) PROVE NotSpawned'
  BY <1>3 DEF RemovePidFile, Step
<1>4. ASSUME NEW k \in Starts, Spawn(k) PROVE NotSpawned'
  BY <1>4 DEF Spawn, Step
<1>5. ASSUME NEW k \in Starts, LoadPid(k) PROVE NotSpawned'
  BY <1>5 DEF LoadPid
<1>6. ASSUME NEW k \in Starts, Connect(k) PROVE NotSpawned'
  BY <1>6 DEF Connect, Step, Answers
<1>7. ASSUME NEW k \in Starts, ReceiveReply(k) PROVE NotSpawned'
  BY <1>7 DEF ReceiveReply, Step
<1>8. ASSUME NEW k \in Starts, HandleInitialize(k) PROVE NotSpawned'
  BY <1>8 DEF HandleInitialize, Step
<1>9. ASSUME NEW k \in Starts, SendReply(k) PROVE NotSpawned'
  BY <1>9 DEF SendReply, Step
<1>10. ASSUME NEW k \in Starts, Stop(k) PROVE NotSpawned'
  BY <1>10 DEF Stop, Step, Alive
<1>11. ASSUME NEW k \in Starts, Kill(k) PROVE NotSpawned'
  BY <1>11 DEF Kill, Alive
<1>12. ASSUME NEW k \in Starts, WritePidFile(k) PROVE NotSpawned'
  BY <1>12 DEF WritePidFile, Go
<1>13. ASSUME NEW k \in Starts, Bind(k) PROVE NotSpawned'
  BY <1>13 DEF Bind
<1>14. ASSUME NEW k \in Starts, CheckLive(k) PROVE NotSpawned'
  BY <1>14 DEF CheckLive, Go
<1>15. ASSUME NEW k \in Starts, Unlink(k) PROVE NotSpawned'
  BY <1>15 DEF Unlink, Go
<1>16. ASSUME NEW k \in Starts, Rebind(k) PROVE NotSpawned'
  BY <1>16 DEF Rebind
<1>17. ASSUME NEW k \in Starts, Chmod(k) PROVE NotSpawned'
  BY <1>17 DEF Chmod, Go
<1>18. ASSUME NEW k \in Starts, Cleanup(k) PROVE NotSpawned'
  BY <1>18 DEF Cleanup, Go
<1>19. ASSUME NEW k \in Starts, Listen(k) PROVE NotSpawned'
  BY <1>19 DEF Listen, Go
<1>20. CASE UNCHANGED vars
  BY <1>20 DEF vars
<1> QED
  BY <1>1, <1>2, <1>3, <1>4, <1>5, <1>6, <1>7, <1>8, <1>9, <1>10, <1>11, <1>12, <1>13,
     <1>14, <1>15, <1>16, <1>17, <1>18, <1>19, <1>20 DEF Next, Framework, Daemon

-----------------------------------------------------------------------------
\* Each step, as long as starts do not race, keeps them in order: first those of the
\* framework.

LEMMA BeginStep ==
    ASSUME TypeOK, NotSpawned, InOrder, ~raced', NEW k \in Starts, Begin(k)
    PROVE  InOrder'
<1> USE DEF TypeOK, InOrder, Begin, Step
<1>1. InitedByOwn'
  BY DEF InitedByOwn
<1>2. OneUnderWay'
  <2>1. UnderWay = {}
    BY DEF UnderWay, NotSpawned, Alive, Unbound, Answers
  <2>2. \A j \in Starts : j # k => st'[j] = st[j]
    OBVIOUS
  <2>3. UnderWay' \subseteq {k}
    BY <2>1, <2>2 DEF UnderWay
  <2> QED BY <2>3 DEF OneUnderWay
<1>3. FilesAreNamed'
  BY DEF FilesAreNamed
<1>4. FilesOfTheLiving'
  BY DEF FilesOfTheLiving
<1>5. InstanceIsTaken'
  BY DEF InstanceIsTaken, Alive
<1>6. Settled'
  BY DEF Settled, Waiting, Alive
<1>7. NoneFails'
  BY DEF NoneFails
<1> QED BY <1>1, <1>2, <1>3, <1>4, <1>5, <1>6, <1>7

LEMMA ProbeStep ==
    ASSUME TypeOK, NotSpawned, InOrder, ~raced', NEW k \in Starts, Probe(k)
    PROVE  InOrder'
<1> USE DEF TypeOK, InOrder, Probe, Step
<1>1. InitedByOwn'
  BY DEF InitedByOwn
<1>2. OneUnderWay'
  BY DEF OneUnderWay, UnderWay
<1>3. FilesAreNamed'
  BY DEF FilesAreNamed, FilesOfTheLiving, NotSpawned, Unbound, Answers
<1>4. FilesOfTheLiving'
  BY DEF FilesOfTheLiving, NotSpawned
<1>5. InstanceIsTaken'
  <2>1. CASE Answers(id[k]) /\ inited[sock[id[k]]]
    BY <2>1 DEF InstanceIsTaken, NotSpawned, Alive
  <2>2. CASE ~(Answers(id[k]) /\ inited[sock[id[k]]])
    <3>1. ASSUME NEW j \in Starts, Alive(j), id[j] = id[k] PROVE FALSE
      <4>1. j # k /\ j \notin UnderWay
        BY <3>1 DEF OneUnderWay, NotSpawned, Alive, UnderWay
      <4>2. st[j] = "running" /\ dm[j] = "up" /\ inited[j]
        BY <3>1, <4>1 DEF Settled, Waiting, NotSpawned, Alive, UnderWay
      <4>3. sock[id[k]] = j
        BY <3>1, <4>2 DEF FilesOfTheLiving
      <4> QED BY <2>2, <4>2, <4>3, ZeroIsNoStart DEF Answers
    <3>2. \A j \in Starts : Alive(j)' => Alive(j)
      BY <2>2 DEF Alive
    <3> QED BY <2>2, <3>1, <3>2 DEF InstanceIsTaken
  <2> QED BY <2>1, <2>2
<1>6. Settled'
  BY DEF Settled, Waiting, NotSpawned, Alive
<1>7. NoneFails'
  BY DEF OneUnderWay, Settled, Waiting, NoneFails, NotSpawned, Alive, UnderWay, Answers
<1> QED BY <1>1, <1>2, <1>3, <1>4, <1>5, <1>6, <1>7

LEMMA RemovePidFileStep ==
    ASSUME TypeOK, NotSpawned, InOrder, ~raced', NEW k \in Starts, RemovePidFile(k)
    PROVE  InOrder'
<1> USE DEF TypeOK, InOrder, RemovePidFile, Step
<1>1. InitedByOwn'
  BY DEF InitedByOwn
<1>2. OneUnderWay'
  BY DEF OneUnderWay, UnderWay
<1>3. FilesAreNamed'
  BY DEF FilesAreNamed, Unbound
<1>4. FilesOfTheLiving'
  BY DEF FilesOfTheLiving, InstanceIsTaken, NotSpawned, Alive
<1>5. InstanceIsTaken'
  BY DEF InstanceIsTaken, Alive
<1>6. Settled'
  BY DEF Settled, Waiting, Alive
<1>7. NoneFails'
  BY DEF NoneFails
<1> QED BY <1>1, <1>2, <1>3, <1>4, <1>5, <1>6, <1>7

LEMMA SpawnStep ==
    ASSUME TypeOK, NotSpawned, InOrder, ~raced', NEW k \in Starts, Spawn(k)
    PROVE  InOrder'
<1> USE DEF TypeOK, InOrder, Spawn, Step
<1>1. InitedByOwn'
  BY DEF InitedByOwn
<1>2. OneUnderWay'
  BY DEF OneUnderWay, UnderWay
<1>3. FilesAreNamed'
  BY DEF FilesAreNamed, NotSpawned, Unbound
<1>4. FilesOfTheLiving'
  BY DEF FilesOfTheLiving
<1>5. InstanceIsTaken'
  BY DEF OneUnderWay, InstanceIsTaken, Alive, UnderWay
<1>6. Settled'
  BY DEF Settled, Waiting, Alive
<1>7. NoneFails'
  BY DEF NoneFails
<1> QED BY <1>1, <1>2, <1>3, <1>4, <1>5, <1>6, <1>7

LEMMA LoadPidStep ==
    ASSUME TypeOK, NotSpawned, InOrder, ~raced', NEW k \in Starts, LoadPid(k)
    PROVE  InOrder'
<1> USE DEF TypeOK, InOrder, LoadPid
<1>1. InitedByOwn'
  BY DEF InitedByOwn
<1>2. OneUnderWay'
  BY DEF OneUnderWay, UnderWay
<1>3. FilesAreNamed'
  BY DEF FilesAreNamed
<1>4. FilesOfTheLiving'
  BY DEF FilesOfTheLiving
<1>5. InstanceIsTaken'
  BY DEF InstanceIsTaken, Alive
<1>6. Settled'
  <2>1. \A j \in Starts : j # k => st'[j] = st[j] /\ pid'[j] = pid[j]
    OBVIOUS
  <2>2. Alive(k) => dm[k] = "up"
    BY DEF NotSpawned, Alive, UnderWay, Unbound, Answers
  <2>3. dm[k] # "none"
    BY DEF Settled
  <2>4. pidFile[id[k]] = 0 => ~Alive(k)
    BY <2>2, ZeroIsNoStart DEF FilesOfTheLiving
  <2>5. pidFile[id[k]] # 0 => pid'[k] = k
    BY DEF InstanceIsTaken
  <2> QED BY <2>1, <2>2, <2>3, <2>4, <2>5 DEF Settled, Waiting, Alive
<1>7. NoneFails'
  BY DEF NoneFails
<1> QED BY <1>1, <1>2, <1>3, <1>4, <1>5, <1>6, <1>7

LEMMA ConnectStep ==
    ASSUME TypeOK, NotSpawned, InOrder, ~raced', NEW k \in Starts, Connect(k)
    PROVE  InOrder'
<1> USE DEF TypeOK, InOrder, Connect, Step
<1>1. InitedByOwn'
  BY DEF InitedByOwn
<1>2. OneUnderWay'
  BY DEF OneUnderWay, UnderWay
<1>3. FilesAreNamed'
  BY DEF FilesAreNamed, Unbound
<1>4. FilesOfTheLiving'
  BY DEF FilesOfTheLiving
<1>5. InstanceIsTaken'
  BY DEF InstanceIsTaken, Alive
<1>6. Settled'
  <2>1. Answers(id[k]) => sock[id[k]] = k
    BY DEF FilesAreNamed, InstanceIsTaken, Alive, Answers
  <2>2. ~Answers(id[k]) => ~Alive(k)
    BY ZeroIsNoStart DEF FilesOfTheLiving, Settled, Answers
  <2> QED BY <2>1, <2>2 DEF Settled, Waiting, Alive
<1>7. NoneFails'
  BY DEF NoneFails
<1> QED BY <1>1, <1>2, <1>3, <1>4, <1>5, <1>6, <1>7

LEMMA ReceiveReplyStep ==
    ASSUME TypeOK, NotSpawned, InOrder, ~raced', NEW k \in Starts, ReceiveReply(k)
    PROVE  InOrder'
<1> USE DEF TypeOK, InOrder, ReceiveReply, Step
<1>1. InitedByOwn'
  BY DEF InitedByOwn
<1>2. OneUnderWay'
  BY DEF OneUnderWay, UnderWay
<1>3. FilesAreNamed'
  BY DEF FilesAreNamed, Unbound
<1>4. FilesOfTheLiving'
  BY DEF FilesOfTheLiving
<1>5. InstanceIsTaken'
  BY DEF InstanceIsTaken, Alive
<1>6. Settled'
  BY DEF Settled, Waiting, Alive
<1>7. NoneFails'
  BY DEF NoneFails
<1> QED BY <1>1, <1>2, <1>3, <1>4, <1>5, <1>6, <1>7

\* Then whoever kills a daemon.

LEMMA StopStep ==
    ASSUME TypeOK, NotSpawned, InOrder, ~raced', NEW k \in Starts, Stop(k)
    PROVE  InOrder'
<1> USE DEF TypeOK, InOrder, Stop, Step
<1>1. InitedByOwn'
  BY DEF InitedByOwn
<1>2. OneUnderWay'
  BY DEF OneUnderWay, UnderWay
<1>3. FilesAreNamed'
  BY DEF FilesAreNamed, Unbound
<1>4. FilesOfTheLiving'
  BY DEF FilesOfTheLiving
<1>5. InstanceIsTaken'
  BY DEF InstanceIsTaken, Alive
<1>6. Settled'
  BY DEF Settled, Waiting, Alive
<1>7. NoneFails'
  BY DEF NoneFails
<1> QED BY <1>1, <1>2, <1>3, <1>4, <1>5, <1>6, <1>7

LEMMA KillStep ==
    ASSUME TypeOK, NotSpawned, InOrder, ~raced', NEW k \in Starts, Kill(k)
    PROVE  InOrder'
<1> USE DEF TypeOK, InOrder, Kill
<1>1. InitedByOwn'
  BY DEF InitedByOwn
<1>2. OneUnderWay'
  BY DEF OneUnderWay, UnderWay
<1>3. FilesAreNamed'
  BY DEF FilesAreNamed, Unbound
<1>4. FilesOfTheLiving'
  BY DEF FilesOfTheLiving
<1>5. InstanceIsTaken'
  BY DEF InstanceIsTaken, Alive
<1>6. Settled'
  BY DEF Settled, Waiting, Alive
<1>7. NoneFails'
  BY DEF NoneFails
<1> QED BY <1>1, <1>2, <1>3, <1>4, <1>5, <1>6, <1>7

\* And then the daemon's own, on its way to its loop.

LEMMA WritePidFileStep ==
    ASSUME TypeOK, NotSpawned, InOrder, ~raced', NEW k \in Starts, WritePidFile(k)
    PROVE  InOrder'
<1> USE DEF TypeOK, InOrder, WritePidFile, Go
<1>1. InitedByOwn'
  BY DEF InitedByOwn
<1>2. OneUnderWay'
  BY DEF OneUnderWay, UnderWay
<1>3. FilesAreNamed'
  BY DEF FilesAreNamed, Unbound
<1>4. FilesOfTheLiving'
  <2>1. st[k] = "sleep"
    BY DEF StartPcs, Settled, Waiting, NotSpawned, Alive
  <2>2. \A j \in Starts : j # k /\ Alive(j) => id[j] # id[k]
    BY <2>1 DEF InstanceIsTaken
  <2>3. \A j \in Starts : j # k => dm'[j] = dm[j]
    OBVIOUS
  <2>4. \A j \in Starts : j # k /\ Alive(j) => pidFile'[id[j]] = pidFile[id[j]]
    BY <2>2
  <2> QED BY <2>3, <2>4 DEF FilesOfTheLiving, Alive
<1>5. InstanceIsTaken'
  BY DEF InstanceIsTaken, Alive
<1>6. Settled'
  BY DEF Settled, Waiting, Alive
<1>7. NoneFails'
  BY DEF NoneFails
<1> QED BY <1>1, <1>2, <1>3, <1>4, <1>5, <1>6, <1>7

LEMMA BindStep ==
    ASSUME TypeOK, NotSpawned, InOrder, ~raced', NEW k \in Starts, Bind(k)
    PROVE  InOrder'
<1> USE DEF TypeOK, InOrder, Bind
<1>1. InitedByOwn'
  BY DEF InitedByOwn
<1>2. OneUnderWay'
  BY DEF OneUnderWay, UnderWay
<1>3. FilesAreNamed'
  BY DEF FilesAreNamed, Unbound
<1>4. FilesOfTheLiving'
  BY DEF FilesOfTheLiving
<1>5. InstanceIsTaken'
  BY DEF InstanceIsTaken, Alive
<1>6. Settled'
  BY DEF Settled, Waiting, Alive
<1>7. NoneFails'
  BY DEF NoneFails
<1> QED BY <1>1, <1>2, <1>3, <1>4, <1>5, <1>6, <1>7

LEMMA CheckLiveStep ==
    ASSUME TypeOK, NotSpawned, InOrder, ~raced', NEW k \in Starts, CheckLive(k)
    PROVE  InOrder'
<1> USE DEF TypeOK, InOrder, CheckLive, Go
<1>1. InitedByOwn'
  BY DEF InitedByOwn
<1>2. OneUnderWay'
  BY DEF OneUnderWay, UnderWay
<1>3. FilesAreNamed'
  BY DEF FilesAreNamed, Unbound
<1>4. FilesOfTheLiving'
  BY DEF FilesOfTheLiving
<1>5. InstanceIsTaken'
  BY DEF InstanceIsTaken, Alive
<1>6. Settled'
  BY DEF Settled, Waiting, Alive
<1>7. NoneFails'
  BY DEF NoneFails
<1> QED BY <1>1, <1>2, <1>3, <1>4, <1>5, <1>6, <1>7

LEMMA UnlinkStep ==
    ASSUME TypeOK, NotSpawned, InOrder, ~raced', NEW k \in Starts, Unlink(k)
    PROVE  InOrder'
<1> USE DEF TypeOK, InOrder, Unlink, Go
<1>1. InitedByOwn'
  BY DEF InitedByOwn
<1>2. OneUnderWay'
  BY DEF OneUnderWay, UnderWay
<1>3. FilesAreNamed'
  BY DEF FilesAreNamed
<1>4. FilesOfTheLiving'
  BY DEF FilesOfTheLiving
<1>5. InstanceIsTaken'
  BY DEF InstanceIsTaken, Alive
<1>6. Settled'
  BY DEF Settled, Waiting, Alive
<1>7. NoneFails'
  BY DEF NoneFails
<1> QED BY <1>1, <1>2, <1>3, <1>4, <1>5, <1>6, <1>7

LEMMA RebindStep ==
    ASSUME TypeOK, NotSpawned, InOrder, ~raced', NEW k \in Starts, Rebind(k)
    PROVE  InOrder'
<1> USE DEF TypeOK, InOrder, Rebind
<1>1. InitedByOwn'
  BY DEF InitedByOwn
<1>2. OneUnderWay'
  BY DEF OneUnderWay, UnderWay
<1>3. FilesAreNamed'
  BY DEF FilesAreNamed, Unbound
<1>4. FilesOfTheLiving'
  BY DEF FilesOfTheLiving
<1>5. InstanceIsTaken'
  BY DEF InstanceIsTaken, Alive
<1>6. Settled'
  BY DEF Settled, Waiting, Alive
<1>7. NoneFails'
  BY DEF NoneFails
<1> QED BY <1>1, <1>2, <1>3, <1>4, <1>5, <1>6, <1>7

LEMMA ChmodStep ==
    ASSUME TypeOK, NotSpawned, InOrder, ~raced', NEW k \in Starts, Chmod(k)
    PROVE  InOrder'
<1> USE DEF TypeOK, InOrder, Chmod, Go
<1>1. InitedByOwn'
  BY DEF InitedByOwn
<1>2. OneUnderWay'
  BY DEF OneUnderWay, UnderWay
<1>3. FilesAreNamed'
  BY DEF FilesAreNamed, Unbound
<1>4. FilesOfTheLiving'
  BY DEF FilesOfTheLiving
<1>5. InstanceIsTaken'
  BY DEF InstanceIsTaken, Alive
<1>6. Settled'
  BY DEF Settled, Waiting, Alive
<1>7. NoneFails'
  BY ZeroIsNoStart DEF FilesOfTheLiving, NoneFails
<1> QED BY <1>1, <1>2, <1>3, <1>4, <1>5, <1>6, <1>7

LEMMA CleanupStep ==
    ASSUME TypeOK, NotSpawned, InOrder, ~raced', NEW k \in Starts, Cleanup(k)
    PROVE  InOrder'
<1> USE DEF TypeOK, InOrder, Cleanup, Go
<1>1. InitedByOwn'
  BY DEF InitedByOwn
<1>2. OneUnderWay'
  BY DEF NoneFails
<1>3. FilesAreNamed'
  BY DEF FilesAreNamed
<1>4. FilesOfTheLiving'
  BY DEF NoneFails
<1>5. InstanceIsTaken'
  BY DEF NoneFails
<1>6. Settled'
  BY DEF NoneFails
<1>7. NoneFails'
  BY DEF NoneFails
<1> QED BY <1>1, <1>2, <1>3, <1>4, <1>5, <1>6, <1>7

LEMMA ListenStep ==
    ASSUME TypeOK, NotSpawned, InOrder, ~raced', NEW k \in Starts, Listen(k)
    PROVE  InOrder'
<1> USE DEF TypeOK, InOrder, Listen, Go
<1>1. InitedByOwn'
  BY DEF InitedByOwn
<1>2. OneUnderWay'
  BY DEF OneUnderWay, UnderWay
<1>3. FilesAreNamed'
  BY DEF FilesAreNamed, Unbound
<1>4. FilesOfTheLiving'
  BY DEF FilesOfTheLiving
<1>5. InstanceIsTaken'
  BY DEF InstanceIsTaken, Alive
<1>6. Settled'
  BY DEF Settled, Waiting, Alive
<1>7. NoneFails'
  BY DEF NoneFails
<1> QED BY <1>1, <1>2, <1>3, <1>4, <1>5, <1>6, <1>7

LEMMA HandleInitializeStep ==
    ASSUME TypeOK, NotSpawned, InOrder, ~raced', NEW k \in Starts, HandleInitialize(k)
    PROVE  InOrder'
<1> USE DEF TypeOK, InOrder
<1>0. /\ inited' = [inited EXCEPT ![k] = TRUE] /\ dm' = dm
      /\ Step(k, "asked", "handled")
  <2>1. PICK j \in Starts : /\ peer[j] = k /\ st[j] = "asked"
                            /\ IF inited[k] THEN UNCHANGED st
                               ELSE Step(j, "asked", "handled")
    BY DEF HandleInitialize, Step
  <2>2. j = k
    BY <2>1 DEF Settled, Waiting
  <2>3. ~inited[k]
    BY <2>1, <2>2 DEF InitedByOwn
  <2> QED BY <2>1, <2>2, <2>3 DEF HandleInitialize
<1>1. InitedByOwn'
  BY <1>0 DEF HandleInitialize, Step, InitedByOwn
<1>2. OneUnderWay'
  BY <1>0 DEF HandleInitialize, Step, OneUnderWay, UnderWay
<1>3. FilesAreNamed'
  BY <1>0 DEF HandleInitialize, Step, FilesAreNamed, Unbound
<1>4. FilesOfTheLiving'
  BY <1>0 DEF HandleInitialize, Step, FilesOfTheLiving
<1>5. InstanceIsTaken'
  BY <1>0 DEF HandleInitialize, Step, InstanceIsTaken, Alive
<1>6. Settled'
  BY <1>0 DEF HandleInitialize, Step, Settled, Waiting, Alive
<1>7. NoneFails'
  BY <1>0 DEF HandleInitialize, Step, NoneFails
<1> QED BY <1>1, <1>2, <1>3, <1>4, <1>5, <1>6, <1>7

LEMMA SendReplyStep ==
    ASSUME TypeOK, NotSpawned, InOrder, ~raced', NEW k \in Starts, SendReply(k)
    PROVE  InOrder'
<1> USE DEF TypeOK, InOrder
<1>0. Step(k, "handled", "answered")
  BY DEF Settled, Waiting, SendReply, Step
<1>1. InitedByOwn'
  BY <1>0 DEF SendReply, Step, InitedByOwn
<1>2. OneUnderWay'
  BY <1>0 DEF SendReply, Step, OneUnderWay, UnderWay
<1>3. FilesAreNamed'
  BY <1>0 DEF SendReply, Step, FilesAreNamed, Unbound
<1>4. FilesOfTheLiving'
  BY <1>0 DEF SendReply, Step, FilesOfTheLiving
<1>5. InstanceIsTaken'
  BY <1>0 DEF SendReply, Step, InstanceIsTaken, Alive
<1>6. Settled'
  BY <1>0 DEF SendReply, Step, Settled, Waiting, Alive
<1>7. NoneFails'
  BY <1>0 DEF SendReply, Step, NoneFails
<1> QED BY <1>1, <1>2, <1>3, <1>4, <1>5, <1>6, <1>7

-----------------------------------------------------------------------------
\* No step but LoadPid and Begin looks at races, and a race is never forgotten.
LEMMA InOrderStep == IInv /\ [Next]_vars /\ ~raced' => InOrder'
<1> SUFFICES ASSUME IInv, [Next]_vars, ~raced' PROVE InOrder'
  OBVIOUS
<1>1. TypeOK /\ NotSpawned
  BY DEF IInv
<1>2. CASE UNCHANGED vars
  <2>1. InOrder
    BY <1>2 DEF IInv, vars
  <2> QED BY <1>2, <2>1 DEF vars, InOrder, InitedByOwn, OneUnderWay, FilesAreNamed,
             FilesOfTheLiving, InstanceIsTaken, Settled, Waiting, NoneFails, Alive, UnderWay
<1>3. CASE Next
  <2>1. ~raced
    BY <1>3 DEF Next, Framework, Daemon, Begin, Probe, RemovePidFile, Spawn, LoadPid,
       Connect, ReceiveReply, Stop, Kill, WritePidFile, Bind, CheckLive, Unlink, Rebind,
       Chmod, Cleanup, Listen, HandleInitialize, SendReply
  <2>2. InOrder
    BY <2>1 DEF IInv
  <2>3. PICK k \in Starts : Begin(k) \/ Framework(k) \/ Stop(k) \/ Kill(k) \/ Daemon(k)
    BY <1>3 DEF Next
  <2>4. CASE Begin(k)
    BY <1>1, <2>2, <2>4, BeginStep
  <2>5. CASE Probe(k)
    BY <1>1, <2>2, <2>5, ProbeStep
  <2>6. CASE RemovePidFile(k)
    BY <1>1, <2>2, <2>6, RemovePidFileStep
  <2>7. CASE Spawn(k)
    BY <1>1, <2>2, <2>7, SpawnStep
  <2>8. CASE LoadPid(k)
    BY <1>1, <2>2, <2>8, LoadPidStep
  <2>9. CASE Connect(k)
    BY <1>1, <2>2, <2>9, ConnectStep
  <2>10. CASE ReceiveReply(k)
    BY <1>1, <2>2, <2>10, ReceiveReplyStep
  <2>11. CASE Stop(k)
    BY <1>1, <2>2, <2>11, StopStep
  <2>12. CASE Kill(k)
    BY <1>1, <2>2, <2>12, KillStep
  <2>13. CASE WritePidFile(k)
    BY <1>1, <2>2, <2>13, WritePidFileStep
  <2>14. CASE Bind(k)
    BY <1>1, <2>2, <2>14, BindStep
  <2>15. CASE CheckLive(k)
    BY <1>1, <2>2, <2>15, CheckLiveStep
  <2>16. CASE Unlink(k)
    BY <1>1, <2>2, <2>16, UnlinkStep
  <2>17. CASE Rebind(k)
    BY <1>1, <2>2, <2>17, RebindStep
  <2>18. CASE Chmod(k)
    BY <1>1, <2>2, <2>18, ChmodStep
  <2>19. CASE Cleanup(k)
    BY <1>1, <2>2, <2>19, CleanupStep
  <2>20. CASE Listen(k)
    BY <1>1, <2>2, <2>20, ListenStep
  <2>21. CASE HandleInitialize(k)
    BY <1>1, <2>2, <2>21, HandleInitializeStep
  <2>22. CASE SendReply(k)
    BY <1>1, <2>2, <2>22, SendReplyStep
  <2> QED BY <2>3, <2>4, <2>5, <2>6, <2>7, <2>8, <2>9, <2>10, <2>11, <2>12, <2>13,
             <2>14, <2>15, <2>16, <2>17, <2>18, <2>19, <2>20, <2>21, <2>22
             DEF Framework, Daemon
<1> QED BY <1>2, <1>3

\* What the theorems rest on.
LEMMA Invariance == Spec => []IInv
<1>1. Init => IInv
  <2> SUFFICES ASSUME Init PROVE IInv
    OBVIOUS
  <2>1. TypeOK
    <3>1. 1 \in Ids
      BY StartAssumption DEF Ids
    <3> QED BY <3>1 DEF Init, TypeOK, StartPcs, DaemonPcs
  <2>2. NotSpawned /\ InOrder
    BY DEF Init, NotSpawned, InOrder, InitedByOwn, OneUnderWay, FilesAreNamed,
       FilesOfTheLiving, InstanceIsTaken, Settled, Waiting, NoneFails, UnderWay
  <2> QED BY <2>1, <2>2 DEF IInv
<1>2. IInv /\ [Next]_vars => IInv'
  <2> SUFFICES ASSUME IInv, [Next]_vars PROVE IInv'
    OBVIOUS
  <2>1. raced' \/ InOrder'
    BY InOrderStep
  <2> QED BY <2>1, TypeStep, NotSpawnedStep DEF IInv
<1> QED BY <1>1, <1>2, PTL DEF Spec

\* The files name daemons of this run, and a start looks at no instance there is not,
\* however many starts overlap (driver_utils.c:47-100, SAFTestDriver.rb:265-326).
THEOREM StartTypes == Spec => []TypeOK
<1>1. IInv => TypeOK
  BY DEF IInv
<1> QED BY <1>1, Invariance, PTL

\* Without races a driver that is up can be reached, is the one its files name, and the
\* one that its stop() kills (SAFTestDriver.rb:265-326).
THEOREM Control == Spec => []StartedIsInControl
<1>1. IInv => StartedIsInControl
  BY DEF IInv, InOrder, FilesOfTheLiving, Settled, Waiting, StartedIsInControl
<1> QED BY <1>1, Invariance, PTL

\* Without races the framework never trips an assertion of a daemon, neither by its
\* probes nor by initialising one twice (saftest_main_lib.c:449-450, 479-480).
THEOREM NoAborts == Spec => []NoDaemonAborts
<1>1. IInv => NoDaemonAborts
  BY DEF IInv, InOrder, NoneFails, NoDaemonAborts
<1> QED BY <1>1, Invariance, PTL

-----------------------------------------------------------------------------
\* Without races no daemon takes the socket file of one that is alive: what the
\* comment at saftest_comm.c:524-527 promises, and what races break.
LiveFileIsKeptInOrder ==
    [][~raced' => \A i \in Ids : sock[i] # 0 /\ sock'[i] # sock[i] => ~Alive(sock[i])]_vars

THEOREM LiveFiles == Spec => LiveFileIsKeptInOrder
<1>1. IInv /\ [Next]_vars
         => [~raced' => \A i \in Ids : sock[i] # 0 /\ sock'[i] # sock[i]
                                           => ~Alive(sock[i])]_vars
  <2> SUFFICES ASSUME IInv, Next, ~raced', NEW i \in Ids, sock[i] # 0, sock'[i] # sock[i]
               PROVE  ~Alive(sock[i])
    OBVIOUS
  <2>1. TypeOK /\ InOrder /\ InOrder'
    <3>1. ~raced
      BY DEF Next, Framework, Daemon, Begin, Probe, RemovePidFile, Spawn, LoadPid,
         Connect, ReceiveReply, Stop, Kill, WritePidFile, Bind, CheckLive, Unlink,
         Rebind, Chmod, Cleanup, Listen, HandleInitialize, SendReply
    <3> QED BY <3>1, InOrderStep DEF IInv
  <2>2. PICK k \in Starts : Bind(k) \/ Unlink(k) \/ Rebind(k) \/ Cleanup(k)
    BY DEF Next, Framework, Daemon, Begin, Probe, RemovePidFile, Spawn, LoadPid,
       Connect, ReceiveReply, Stop, Kill, WritePidFile, CheckLive, Chmod, Listen,
       HandleInitialize, SendReply
  <2>3. CASE Bind(k) \/ Rebind(k)
    BY <2>1, <2>3 DEF TypeOK, Bind, Rebind
  <2>4. CASE Cleanup(k)
    BY <2>1, <2>4 DEF InOrder, NoneFails, Cleanup, Go
  <2>5. CASE Unlink(k)
    <3>1. dm[k] = "unlink" /\ id[k] = i
      BY <2>1, <2>5 DEF Unlink, Go
    <3>2. st[k] = "sleep"
      BY <3>1, <2>1 DEF IInv, NotSpawned, InOrder, Settled, Waiting, Alive, TypeOK, StartPcs
    <3>3. sock[i] # k /\ id[sock[i]] = i /\ sock[i] \in Starts
      BY <3>1, <2>1 DEF InOrder, FilesAreNamed, Unbound, TypeOK
    <3> QED BY <3>1, <3>2, <3>3, <2>1 DEF InOrder, InstanceIsTaken
  <2> QED BY <2>2, <2>3, <2>4, <2>5
<1> QED BY <1>1, Invariance, PTL DEF Spec, LiveFileIsKeptInOrder

-----------------------------------------------------------------------------
\* A start whose request a daemon has noted, whatever became of the reply.
Accepted == {k \in Starts : st[k] \in {"handled", "answered", "running", "stopped"}}

\* Each of them has an initialised daemon to itself; a daemon is initialised only once
\* it listens; and one that is still alive belongs to one of them.
Paired ==
    /\ \A k \in Accepted : /\ peer[k] \in Starts /\ inited[peer[k]]
                          /\ \A j \in Accepted \ {k} : peer[j] # peer[k]
    /\ \A d \in Starts : inited[d] => dm[d] \in {"up", "aborted", "killed"}
    /\ \A d \in Starts : inited[d] /\ Alive(d) => \E k \in Accepted : peer[k] = d

\* Only the handler adds to either side, and a start leaves with its daemon dead.
LEMMA PairedStep ==
    ASSUME TypeOK, NotSpawned, Paired, [Next]_vars
    PROVE  Paired'
<1> USE DEF TypeOK
<1>1. ASSUME NEW d \in Starts, HandleInitialize(d) PROVE Paired'
  <2>1. CASE inited[d]
    <3>1. UNCHANGED <<st, peer, inited>> /\ dm' = [dm EXCEPT ![d] = "aborted"]
      BY <1>1, <2>1 DEF HandleInitialize
    <3> QED BY <3>1 DEF Paired, Accepted, Alive
  <2>2. CASE ~inited[d]
    <3>1. PICK k \in Starts : peer[k] = d /\ Step(k, "asked", "handled")
      BY <1>1, <2>2 DEF HandleInitialize
    <3>2. Accepted' = Accepted \cup {k} /\ k \notin Accepted
      BY <3>1 DEF Accepted, Step
    <3>3. /\ UNCHANGED <<peer, dm>> /\ inited' = [inited EXCEPT ![d] = TRUE]
          /\ dm[d] = "up"
      BY <1>1, <2>2 DEF HandleInitialize
    <3>4. \A j \in Accepted : peer[j] # d
      BY <2>2 DEF Paired
    <3> QED BY <3>1, <3>2, <3>3, <3>4 DEF Paired, Alive
  <2> QED BY <2>1, <2>2
<1>2. ASSUME NEW k \in Starts, ReceiveReply(k) PROVE Paired'
  <2>1. UNCHANGED <<peer, dm, inited>>
    BY <1>2 DEF ReceiveReply
  <2>2. CASE Step(k, "answered", "running") \/ Step(k, "asked", "failed")
    <3>1. Accepted' = Accepted
      BY <2>2 DEF Accepted, Step
    <3> QED BY <2>1, <3>1 DEF Paired, Alive
  <2>3. CASE Step(k, "handled", "failed") /\ dm[peer[k]] # "up"
    <3>1. Accepted' = Accepted \ {k} /\ k \in Accepted
      BY <2>3 DEF Accepted, Step
    <3>2. ~Alive(peer[k])
      BY <2>3, <3>1 DEF Paired, Alive
    <3> QED BY <2>1, <3>1, <3>2 DEF Paired, Alive
  <2> QED BY <1>2, <2>2, <2>3 DEF ReceiveReply
<1>3. ASSUME NEW k \in Starts, Connect(k) PROVE Paired'
  <2>1. Accepted' = Accepted /\ k \notin Accepted /\ UNCHANGED <<dm, inited>>
    BY <1>3 DEF Connect, Step, Accepted
  <2>2. \A j \in Accepted : peer'[j] = peer[j]
    BY <1>3, <2>1 DEF Connect, Accepted
  <2> QED BY <2>1, <2>2 DEF Paired, Alive
<1>4. ASSUME NEW k \in Starts,
             Begin(k) \/ Probe(k) \/ RemovePidFile(k) \/ LoadPid(k) \/ Stop(k) \/ SendReply(k)
      PROVE  Paired'
  <2>1. Accepted' = Accepted /\ UNCHANGED <<peer, inited>>
    BY <1>4 DEF Begin, Probe, RemovePidFile, LoadPid, Stop, SendReply, Step, Accepted
  <2>2. \A d \in Starts : \/ dm'[d] = dm[d]
                          \/ dm[d] = "writepid" /\ dm'[d] = "bind"
                          \/ dm[d] = "up" /\ dm'[d] = "aborted"
                          \/ Alive(d) /\ dm'[d] = "killed"
    BY <1>4 DEF Begin, Probe, RemovePidFile, LoadPid, Stop, SendReply, Answers, Alive
  <2> QED BY <2>1, <2>2 DEF Paired, Alive
<1>5. ASSUME NEW k \in Starts, Spawn(k) \/ Kill(k) PROVE Paired'
  <2>1. Accepted' = Accepted /\ UNCHANGED <<peer, inited>>
    BY <1>5 DEF Spawn, Kill, Step, Accepted
  <2>2. \A d \in Starts : \/ dm'[d] = dm[d] \/ dm[d] = "none" \/ dm'[d] = "killed"
    BY <1>5 DEF Spawn, Kill, Step, NotSpawned
  <2> QED BY <2>1, <2>2 DEF Paired, Alive
<1>6. ASSUME NEW k \in Starts,
             \/ WritePidFile(k) \/ Bind(k) \/ CheckLive(k) \/ Unlink(k) \/ Rebind(k)
             \/ Chmod(k) \/ Cleanup(k) \/ Listen(k)
      PROVE  Paired'
  <2>1. UNCHANGED <<st, peer, inited>>
    BY <1>6 DEF WritePidFile, Bind, CheckLive, Unlink, Rebind, Chmod, Cleanup, Listen
  <2>2. \A d \in Starts : dm'[d] = dm[d] \/ dm[d] \notin {"up", "aborted", "killed"}
    BY <1>6 DEF WritePidFile, Bind, CheckLive, Unlink, Rebind, Chmod, Cleanup, Listen, Go
  <2> QED BY <2>1, <2>2 DEF Paired, Accepted, Alive
<1>7. CASE UNCHANGED vars
  BY <1>7 DEF vars, Paired, Accepted, Alive
<1> QED BY <1>1, <1>2, <1>3, <1>4, <1>5, <1>6, <1>7 DEF Next, Framework, Daemon

\* Two starts never share the success of one initialisation, none succeeds without one,
\* and a daemon that was initialised is not left behind alive by a start that failed:
\* races or not, and killed at any step between the request and its reply
\* (saftest_main_lib.c:302-304, 449-470, SAFTestDriver.rb:523-529).
THEOREM SuccessIsReal == Spec => []SuccessHasItsDaemon
<1>1. Init => Paired
  BY DEF Init, Paired, Accepted
<1>2. IInv /\ Paired /\ [Next]_vars => Paired'
  BY PairedStep DEF IInv
<1>3. Paired => SuccessHasItsDaemon
  BY DEF Paired, Accepted, SuccessHasItsDaemon, Successful, OnTheWay
<1> QED BY <1>1, <1>2, <1>3, Invariance, PTL DEF Spec
=============================================================================
