---------------------------- MODULE ImagesProofs ----------------------------
(***************************************************************************)
(* Proofs about Images: readers never see a partial or unchecked image, an *)
(* installer reports only what fits its checkout, and what fails is        *)
(* cleaned up, for any number of installers, commits and runs.             *)
(***************************************************************************)
EXTENDS Images, TLAPS

-----------------------------------------------------------------------------
(* What the variables hold *)

Commits == {task.commit : task \in Tasks}
Tools == {identity(task) : task \in Tasks}
Downloads == {task.source : task \in Tasks} \cup {none, "partial", "pinned"}
Settings == Commits \cup {task.config : task \in Tasks} \cup {none}
Flaw == Flaws \cup {none}
KindSet == {Kinds[n] : n \in DOMAIN Kinds}

\* A disk with the tools of some task, and an image built on one.
CacheDisk == [identity : Tools, flaw : Flaw]
MainDisk == [commit : Commits, base : Tools, mark : Marks, flaw : Flaw]
Image == MainDisk \cup {none}

Steps == CacheSteps \cup MainSteps \cup LockedSteps
         \cup {"ended", "validate", "resolve", "verify", "lock", "cache_cleanup", "cleanup",
               "file", "copy", "move", "restart"}

Job == [pc : Steps, task : Tasks \cup {none}, base : CacheDisk \cup {none},
        disk : CacheDisk \cup Image, file : 0 .. 6, replace : BOOLEAN, report : Image]

ImagesTypeOK ==
    /\ job \in [Installers -> Job]
    /\ lock \in BOOLEAN
    /\ build \in [Names -> [dir : BOOLEAN, domain : BOOLEAN]]
    /\ imgs \in [source : Downloads, byobu : Downloads,
                 image : CacheDisk \cup {none}, manifest : CacheDisk \cup {none}, new : BOOLEAN]
    /\ images \in [generations : SUBSET MainDisk,
                   staged : [image : MainDisk, whole : BOOLEAN] \cup {none},
                   current : Image, link : Image]
    /\ probe \in BOOLEAN
    /\ files \in [installed : [KindSet -> Settings], temporary : [KindSet -> Settings]]
    /\ server \in [pc : {"off", "starting", "resolving", "up"}, there : BOOLEAN, image : Image]
    /\ probed \subseteq MainDisk
    /\ left \subseteq {"lock"} \cup Names
    /\ met \subseteq Installers
    /\ bounds \in [runs : Nat, crashes : Nat, damage : Nat, starts : Nat]

-----------------------------------------------------------------------------
(* What an installer has in hand at each of its steps *)

CacheBuilt == {"cache_guest", "cache_wait", "cache_finish", "cache_publish", "cache_manifest",
               "cache_done"}
Finalized == {"stage", "stage_files", "probe", "probing", "discard"}
Proven == {"remove_dir", "publish", "link", "current"}
ImageBuilt == {"packages", "finalize"} \cup Finalized \cup Proven
Installing == {"file", "copy", "move", "restart"}

\* The checks that the disk at step pc has passed.
Cleared(pc, flaw) ==
    /\ flaw # "result"
    /\ pc # "packages" => flaw # "packages"
    /\ pc \in Finalized \cup Proven => flaw \notin {"unsanitized", "contract", "changed"}
    /\ pc \in Proven => flaw # "boot"

\* Steps before an installer has any tools to build on.
Baseless == {"validate", "lock", "clean", "source", "byobu", "installed", "dir", "cache", "resolve",
             "verify"}

\* A report is of the commit at hand, and on its tools if they were built on.
Reported(r) ==
    r.report # none => /\ r.task \in Tasks /\ r.report \in MainDisk
                       /\ r.report.commit = r.task.commit
                       /\ r.base # none => r.report.base = identity(r.task)

JobOK(r) ==
    /\ r.pc # "ended" => r.task \in Tasks
    /\ r.pc \in CacheBuilt \cup {"guest", "wait"} =>
          r.disk \in CacheDisk /\ r.disk.identity = identity(r.task)
    /\ r.pc = "inputs" => r.base \in CacheDisk /\ r.base.identity = identity(r.task)
    /\ r.pc \in ImageBuilt =>
          /\ r.disk \in MainDisk
          /\ r.disk.commit = r.task.commit /\ r.disk.base = identity(r.task)
          /\ Cleared(r.pc, r.disk.flaw)
    /\ r.pc = "verify" => r.disk \in Image
    /\ r.pc \in Baseless => r.base = none
    /\ r.pc \notin {"unlock", "ended"} \cup Installing => r.report = none
    /\ Reported(r)
    /\ r.pc \in Installing => r.task.op = "install"
    /\ r.pc \in {"file", "copy", "move"} => r.file \in 1 .. 5
    /\ r.pc \notin {"ended", "restart"} \cup {"file", "copy", "move"} => r.file = 1

JobsInv == \A i \in Installers : JobOK(job[i])

\* Whoever is inside the lock has it, and is alone.
LockInv ==
    /\ \A i \in Installers : Locking(i) => lock
    /\ \A i, j \in Installers : Locking(i) /\ Locking(j) => i = j

\* What the pointers name, and where the image of a publisher is.
PublishInv ==
    /\ images.current # none => Published(images.current)
    /\ server.pc = "up" /\ server.there => Published(server.image)
    /\ server.pc = "resolving" /\ server.there => Published(images.current)
    /\ \A i \in Installers :
          /\ job[i].pc = "stage_files" => images.staged \in [image : MainDisk, whole : BOOLEAN]
          /\ job[i].pc \in Proven => job[i].disk \in probed
          /\ job[i].pc \in {"link", "current"} => job[i].disk \in images.generations
          /\ job[i].pc = "current" => images.link = job[i].disk

\* What is built is somebody's who will clean it up, or was left behind.
BuildInv ==
    /\ lock => "lock" \in left \/ \E i \in Installers : Locking(i)
    /\ (\A i \in Installers : ~Building(i)) => \A n \in Names : build[n] # NoBuild => n \in left
    /\ \A i \in Installers :
          /\ job[i].pc \in MainSteps \cup {"cleanup"} /\ build["cache"] # NoBuild => "cache" \in left
          /\ job[i].pc \in ImageBuilt => ~build["main"].domain
          /\ job[i].pc \in {"publish", "link", "current"} => build["main"] = NoBuild

\* The files that an installation alone on the host has gone over are its own.
FilesDone(i) ==
    /\ job[i].pc \in {"file", "copy", "move"} =>
          \A n \in 1 .. job[i].file - 1 : files.installed[Kinds[n]] = Wanted(i, Kinds[n])
    /\ job[i].pc = "move" => files.temporary[Kind(i)] = Wanted(i, Kind(i))
    /\ job[i].pc = "restart" => \A n \in 1 .. 5 : files.installed[Kinds[n]] = Wanted(i, Kinds[n])

FilesInv ==
    /\ \A i, j \in InstallsNow : i # j => i \in met
    /\ \A i \in Installers \ met : FilesDone(i)

ImagesInv == ImagesTypeOK /\ JobsInv /\ LockInv /\ PublishInv /\ BuildInv /\ FilesInv

-----------------------------------------------------------------------------
(* The job of an installer *)

\* A step of i changes the job of i only.
Mine(i) == /\ job' \in [Installers -> Job]
           /\ \A j \in Installers \ {i} : job'[j] = job[j]

LEMMA GoesTo ==
    ASSUME ImagesTypeOK, NEW i \in Installers, NEW p \in Steps, Goes(i, p)
    PROVE  /\ Mine(i)
           /\ job'[i].pc = p /\ job'[i].task = job[i].task /\ job'[i].base = job[i].base
           /\ job'[i].disk = job[i].disk /\ job'[i].file = job[i].file
           /\ job'[i].replace = job[i].replace /\ job'[i].report = job[i].report
<1>1. job \in [Installers -> Job] /\ job[i] \in Job
  BY DEF ImagesTypeOK
<1>2. job' = [job EXCEPT ![i] = [job[i] EXCEPT !.pc = p]]
  BY DEF Goes
<1>3. [job[i] EXCEPT !.pc = p] \in Job
  BY <1>1 DEF Job
<1>4. job'[i] = [job[i] EXCEPT !.pc = p]
  BY <1>1, <1>2
<1> QED BY <1>1, <1>2, <1>3, <1>4 DEF Mine, Job

LEMMA KeepsBase ==
    ASSUME ImagesTypeOK, NEW i \in Installers, NEW p \in Steps, NEW v \in CacheDisk \cup {none},
           Keeps(i, p, "base", v)
    PROVE  /\ Mine(i)
           /\ job'[i].pc = p /\ job'[i].task = job[i].task /\ job'[i].base = v
           /\ job'[i].disk = job[i].disk /\ job'[i].file = job[i].file
           /\ job'[i].report = job[i].report
<1>1. job \in [Installers -> Job] /\ job[i] \in Job
  BY DEF ImagesTypeOK
<1>2. job' = [job EXCEPT ![i] = [job[i] EXCEPT !.pc = p, !.base = v]]
  BY DEF Keeps
<1>3. [job[i] EXCEPT !.pc = p, !.base = v] \in Job
  BY <1>1 DEF Job
<1>4. job'[i] = [job[i] EXCEPT !.pc = p, !.base = v]
  BY <1>1, <1>2
<1> QED BY <1>1, <1>2, <1>3, <1>4 DEF Mine, Job

LEMMA KeepsDisk ==
    ASSUME ImagesTypeOK, NEW i \in Installers, NEW p \in Steps, NEW v \in CacheDisk \cup Image,
           Keeps(i, p, "disk", v)
    PROVE  /\ Mine(i)
           /\ job'[i].pc = p /\ job'[i].task = job[i].task /\ job'[i].disk = v
           /\ job'[i].base = job[i].base /\ job'[i].file = job[i].file
           /\ job'[i].report = job[i].report
<1>1. job \in [Installers -> Job] /\ job[i] \in Job
  BY DEF ImagesTypeOK
<1>2. job' = [job EXCEPT ![i] = [job[i] EXCEPT !.pc = p, !.disk = v]]
  BY DEF Keeps
<1>3. [job[i] EXCEPT !.pc = p, !.disk = v] \in Job
  BY <1>1 DEF Job
<1>4. job'[i] = [job[i] EXCEPT !.pc = p, !.disk = v]
  BY <1>1, <1>2
<1> QED BY <1>1, <1>2, <1>3, <1>4 DEF Mine, Job

LEMMA KeepsReport ==
    ASSUME ImagesTypeOK, NEW i \in Installers, NEW p \in Steps, NEW v \in Image,
           Keeps(i, p, "report", v)
    PROVE  /\ Mine(i)
           /\ job'[i].pc = p /\ job'[i].task = job[i].task /\ job'[i].report = v
           /\ job'[i].base = job[i].base /\ job'[i].file = job[i].file
           /\ job'[i].disk = job[i].disk
<1>1. job \in [Installers -> Job] /\ job[i] \in Job
  BY DEF ImagesTypeOK
<1>2. job' = [job EXCEPT ![i] = [job[i] EXCEPT !.pc = p, !.report = v]]
  BY DEF Keeps
<1>3. [job[i] EXCEPT !.pc = p, !.report = v] \in Job
  BY <1>1 DEF Job
<1>4. job'[i] = [job[i] EXCEPT !.pc = p, !.report = v]
  BY <1>1, <1>2
<1> QED BY <1>1, <1>2, <1>3, <1>4 DEF Mine, Job

LEMMA KeepsReplace ==
    ASSUME ImagesTypeOK, NEW i \in Installers, NEW p \in Steps, NEW v \in BOOLEAN,
           Keeps(i, p, "replace", v)
    PROVE  /\ Mine(i)
           /\ job'[i].pc = p /\ job'[i].task = job[i].task /\ job'[i].report = job[i].report
           /\ job'[i].base = job[i].base /\ job'[i].file = job[i].file
           /\ job'[i].disk = job[i].disk
<1>1. job \in [Installers -> Job] /\ job[i] \in Job
  BY DEF ImagesTypeOK
<1>2. job' = [job EXCEPT ![i] = [job[i] EXCEPT !.pc = p, !.replace = v]]
  BY DEF Keeps
<1>3. [job[i] EXCEPT !.pc = p, !.replace = v] \in Job
  BY <1>1 DEF Job
<1>4. job'[i] = [job[i] EXCEPT !.pc = p, !.replace = v]
  BY <1>1, <1>2
<1> QED BY <1>1, <1>2, <1>3, <1>4 DEF Mine, Job

LEMMA StepNames ==
    /\ {"clean", "source", "byobu", "installed", "dir", "unlock", "cache_inputs", "cache_guest",
        "cache_wait", "cache_finish", "cache_publish", "cache_manifest", "cache_done", "cache",
        "cache_clear", "inputs", "guest", "wait", "packages", "finalize", "stage", "stage_files",
        "probe", "probing", "discard", "remove_dir", "publish", "link", "current", "ended",
        "validate", "resolve", "verify", "lock", "cache_cleanup", "cleanup", "file", "copy", "move",
        "restart"} \subseteq Steps
    /\ CacheBuilt \cup {"guest", "wait"} \cup ImageBuilt \subseteq CacheSteps \cup MainSteps
BY DEF Steps, LockedSteps, CacheSteps, MainSteps, CacheBuilt, ImageBuilt, Finalized, Proven

\* A failure leads to a cleanup, or ends the run and drops the lock.
LEMMA FailsTo ==
    ASSUME ImagesTypeOK, NEW i \in Installers, Fail(i)
    PROVE  \E p \in {"cache_cleanup", "cleanup", "ended"} :
              /\ Goes(i, p)
              /\ p = "cache_cleanup" => job[i].pc \in CacheSteps /\ UNCHANGED lock
              /\ p = "cleanup" => job[i].pc \in MainSteps /\ UNCHANGED lock
              /\ p = "ended" => \/ job[i].pc \in LockedSteps /\ lock' = FALSE
                                \/ ~Locking(i) /\ UNCHANGED lock
BY DEF Fail

\* Steps at which a job has nothing in hand.
Bare == Steps \ (CacheBuilt \cup ImageBuilt \cup Installing
                 \cup {"guest", "wait", "inputs", "verify", "ended"})

LEMMA BareNames ==
    {"clean", "source", "byobu", "installed", "dir", "unlock", "cache_inputs", "cache",
     "cache_clear", "resolve", "lock", "cache_cleanup", "cleanup"} \subseteq Bare
BY StepNames DEF Bare, CacheBuilt, ImageBuilt, Finalized, Proven, Installing

LEMMA BareOK ==
    ASSUME NEW r, r.pc \in Bare, r.task \in Tasks, r.file = 1, r.pc \in Baseless => r.base = none,
           r.pc # "unlock" => r.report = none, Reported(r)
    PROVE  JobOK(r)
BY DEF JobOK, Bare

LEMMA EndOK ==
    ASSUME NEW r, r.pc = "ended", Reported(r)
    PROVE  JobOK(r)
BY DEF JobOK, CacheBuilt, ImageBuilt, Finalized, Proven, Installing, Baseless

LEMMA FailOK ==
    ASSUME ImagesTypeOK, NEW i \in Installers, JobOK(job[i]), Fail(i), Active(i)
    PROVE  Mine(i) /\ JobOK(job'[i])
<1>1. PICK p \in {"cache_cleanup", "cleanup", "ended"} :
         Goes(i, p) /\ (p # "ended" => job[i].pc \in CacheSteps \cup MainSteps)
  BY FailsTo
<1>2. p \in Steps
  BY StepNames
<1>3. /\ Mine(i) /\ job'[i].pc = p /\ job'[i].task = job[i].task /\ job'[i].base = job[i].base
      /\ job'[i].file = job[i].file /\ job'[i].report = job[i].report
  BY <1>1, <1>2, GoesTo
<1>4. job[i].task \in Tasks /\ Reported(job'[i])
  BY <1>3 DEF JobOK, Active, At, Reported
<1>5. CASE p = "ended"
  BY <1>3, <1>4, <1>5, EndOK
<1>6. CASE p # "ended"
  <2>1. job[i].file = 1 /\ job[i].report = none
    BY <1>1, <1>6 DEF JobOK, CacheSteps, MainSteps, Installing
  <2>2. p \notin Baseless
    BY <1>1, <1>6 DEF Baseless
  <2> QED BY <1>3, <1>4, <1>6, <2>1, <2>2, BareOK, BareNames
<1> QED BY <1>5, <1>6

Early == Steps \ ({"ended"} \cup Installing)

LEMMA BareGoes ==
    ASSUME ImagesTypeOK, NEW i \in Installers, JobOK(job[i]), job[i].pc \in Early \ {"unlock"},
           NEW p \in Bare, p \in Baseless => job[i].pc \in Baseless, Goes(i, p)
    PROVE  Mine(i) /\ JobOK(job'[i])
<1>1. p \in Steps
  BY DEF Bare
<1>2. /\ Mine(i) /\ job'[i].pc = p /\ job'[i].task = job[i].task /\ job'[i].base = job[i].base
      /\ job'[i].file = job[i].file /\ job'[i].report = job[i].report
  BY <1>1, GoesTo
<1>3. job[i].task \in Tasks /\ job[i].file = 1 /\ job[i].report = none
  BY DEF JobOK, Early, Installing
<1>4. (p \in Baseless => job[i].base = none) /\ Reported(job'[i])
  BY <1>2, <1>3 DEF JobOK, Reported
<1> QED BY <1>2, <1>3, <1>4, BareOK

LEMMA CacheGoes ==
    ASSUME ImagesTypeOK, NEW i \in Installers, JobOK(job[i]),
           job[i].pc \in CacheBuilt \cup {"guest", "wait"},
           NEW p \in CacheBuilt \cup {"guest", "wait"}, Goes(i, p)
    PROVE  Mine(i) /\ JobOK(job'[i])
<1>1. p \in Steps
  BY StepNames DEF CacheBuilt
<1>2. /\ Mine(i) /\ job'[i].pc = p /\ job'[i].task = job[i].task /\ job'[i].disk = job[i].disk
      /\ job'[i].file = job[i].file /\ job'[i].report = job[i].report
  BY <1>1, GoesTo
<1> QED BY <1>2 DEF JobOK, Reported, Baseless, CacheBuilt, ImageBuilt, Finalized, Proven, Installing

LEMMA BuiltGoes ==
    ASSUME ImagesTypeOK, NEW i \in Installers, JobOK(job[i]), job[i].pc \in ImageBuilt,
           NEW p \in ImageBuilt, Cleared(p, job[i].disk.flaw), Goes(i, p)
    PROVE  Mine(i) /\ JobOK(job'[i])
<1>1. p \in Steps
  BY StepNames DEF Steps
<1>2. /\ Mine(i) /\ job'[i].pc = p /\ job'[i].task = job[i].task /\ job'[i].disk = job[i].disk
      /\ job'[i].file = job[i].file /\ job'[i].report = job[i].report
  BY <1>1, GoesTo
<1>3. /\ p \notin CacheBuilt \cup {"guest", "wait", "inputs", "verify", "ended"} \cup Installing
      /\ p \notin Baseless /\ job[i].pc \notin {"unlock", "ended"} \cup Installing
  BY DEF CacheBuilt, ImageBuilt, Finalized, Proven, Installing, Baseless
<1> QED BY <1>2, <1>3 DEF JobOK, Reported, Installing

LEMMA JobsInstall ==
    ASSUME ImagesTypeOK, JobsInv, PublishInv, NEW i \in Installers, Install(i)
    PROVE  Mine(i) /\ JobOK(job'[i])
<1> USE StepNames
<1>0. job \in [Installers -> Job] /\ job[i] \in Job /\ JobOK(job[i])
  BY DEF ImagesTypeOK, JobsInv
<1>a. {"validate", "lock", "clean", "source", "byobu", "installed", "resolve", "verify"}
         \subseteq Early \ {"unlock"}
  BY DEF Early, Installing
<1>b. images.current \in Image /\ (images.current # none => images.current \in MainDisk)
  BY DEF ImagesTypeOK, Image
<1>1. ASSUME NEW task \in Tasks, Start(i, task) PROVE Mine(i) /\ JobOK(job'[i])
  <2> DEFINE r == [pc |-> CASE task.op = "install" -> "validate"
                            [] task.op = "verify" -> "resolve"
                            [] OTHER -> "lock",
                   task |-> task, base |-> none, disk |-> none, file |-> 1,
                   replace |-> FALSE, report |-> none]
  <2>1. job' = [job EXCEPT ![i] = r]
    BY <1>1 DEF Start
  <2>2. r.pc \in {"validate", "resolve", "lock"}
    OBVIOUS
  <2>3. r \in Job
    BY <2>2 DEF Job, Image
  <2>4. JobOK(r)
    BY <2>2 DEF JobOK, Reported, CacheBuilt, ImageBuilt, Finalized, Proven, Installing
  <2> HIDE DEF r
  <2> QED BY <1>0, <2>1, <2>3, <2>4 DEF Mine
<1>2. CASE require_installed_compatible(i)
  <2>1. CASE Fail(i)
    BY <1>0, <1>2, <2>1, FailOK DEF require_installed_compatible, Active, At
  <2>2. CASE Keeps(i, "lock", "replace", files.installed["config"] = none)
    <3>1. /\ Mine(i) /\ job'[i].pc = "lock" /\ job'[i].task = job[i].task /\ job'[i].base = job[i].base
          /\ job'[i].file = job[i].file /\ job'[i].report = job[i].report
      BY <2>2, KeepsReplace
    <3>2. job[i].task \in Tasks /\ job[i].file = 1 /\ job[i].base = none /\ job[i].report = none
      BY <1>0, <1>2 DEF require_installed_compatible, At, JobOK, Baseless, Installing
    <3> QED BY <3>1, <3>2, BareOK, BareNames DEF Reported
  <2> QED BY <1>2, <2>1, <2>2 DEF require_installed_compatible
<1>3. CASE acquire(i) \/ Clean(i) \/ source_image(i) \/ byobu_package(i)
  <2>1. job[i].pc \in {"lock", "clean", "source", "byobu"}
    BY <1>3 DEF acquire, Clean, source_image, byobu_package, At
  <2>2. Fail(i) \/ \E p \in Bare : Goes(i, p)
    BY <1>3, BareNames DEF acquire, Clean, source_image, byobu_package, Download
  <2>3. job[i].pc \in Baseless
    BY <2>1 DEF Baseless
  <2> QED BY <1>0, <1>a, <2>1, <2>2, <2>3, FailOK, BareGoes DEF Active, At
<1>4. CASE installed_image_state(i)
  <2>1. CASE Goes(i, "dir")
    BY <1>0, <1>4, <1>a, <2>1, BareGoes, BareNames DEF installed_image_state, At, Baseless
  <2>2. CASE verify_installed_image(i, images.current) /\ Keeps(i, "unlock", "report", images.current)
    <3>1. /\ Mine(i) /\ job'[i].pc = "unlock" /\ job'[i].task = job[i].task
          /\ job'[i].file = job[i].file /\ job'[i].report = images.current
          /\ job'[i].base = job[i].base
      BY <1>b, <2>2, KeepsReport
    <3>2. job[i].task \in Tasks /\ job[i].file = 1 /\ job[i].base = none
      BY <1>0, <1>4 DEF installed_image_state, At, JobOK, Baseless
    <3>3. Reported(job'[i])
      BY <1>b, <2>2, <3>1, <3>2 DEF Reported, verify_installed_image, Task
    <3> QED BY <3>1, <3>2, <3>3, BareOK, BareNames
  <2> QED BY <1>4, <2>1, <2>2 DEF installed_image_state
<1>5. CASE resolve_to_verify(i)
  <2>1. /\ Mine(i) /\ job'[i].pc = "verify" /\ job'[i].task = job[i].task
        /\ job'[i].file = job[i].file /\ job'[i].disk = images.current
        /\ job'[i].report = job[i].report /\ job'[i].base = job[i].base
    BY <1>5, <1>b, KeepsDisk DEF resolve_to_verify
  <2>2. job[i].base = none /\ job[i].report = none
    BY <1>0, <1>5 DEF resolve_to_verify, At, JobOK, Baseless, Installing
  <2> QED BY <1>0, <1>5, <1>b, <2>1, <2>2
          DEF resolve_to_verify, At, JobOK, Reported, CacheBuilt, ImageBuilt, Finalized, Proven, Installing
<1>6. CASE verify(i)
  <2>1. CASE Goes(i, "ended")
    BY <1>0, <2>1, GoesTo, EndOK DEF JobOK, Reported
  <2>2. CASE verify_installed_image(i, job[i].disk) /\ Keeps(i, "ended", "report", job[i].disk)
    <3>1. job[i].disk \in MainDisk /\ job[i].task \in Tasks /\ job[i].base = none
      BY <1>0, <1>6, <2>2 DEF verify, verify_installed_image, At, JobOK, Image, Baseless
    <3>2. /\ Mine(i) /\ job'[i].pc = "ended" /\ job'[i].task = job[i].task /\ job'[i].report = job[i].disk
          /\ job'[i].base = job[i].base
      BY <2>2, <3>1, KeepsReport DEF Image
    <3>3. Reported(job'[i])
      BY <2>2, <3>1, <3>2 DEF Reported, verify_installed_image, Task
    <3> QED BY <3>2, <3>3, EndOK
  <2> QED BY <1>6, <2>1, <2>2 DEF verify
<1>7. CASE unlock(i)
  <2>1. CASE Task(i).op # "install"
    BY <1>0, <1>7, <2>1, GoesTo, EndOK DEF unlock, JobOK, Reported
  <2>2. CASE Task(i).op = "install"
    <3>1. /\ Mine(i) /\ job'[i].pc = "file" /\ job'[i].task = job[i].task /\ job'[i].base = job[i].base
          /\ job'[i].file = job[i].file /\ job'[i].report = job[i].report
      BY <1>7, <2>2, GoesTo DEF unlock
    <3> QED BY <1>0, <1>7, <2>2, <3>1
            DEF unlock, At, Task, JobOK, Reported, Baseless, CacheBuilt, ImageBuilt, Finalized, Proven,
                Installing
  <2> QED BY <2>1, <2>2
<1>8. CASE install_file(i) \/ sudo_install(i) \/ sudo_move(i)
  <2>0. job[i].pc \in {"file", "copy", "move"} /\ job[i].file \in 1 .. 5 /\ job[i].task \in Tasks
        /\ job[i].task.op = "install"
    BY <1>0, <1>8 DEF install_file, sudo_install, sudo_move, At, JobOK, Installing
  <2>1. CASE Goes(i, "ended")
    BY <1>0, <2>1, GoesTo, EndOK DEF JobOK, Reported
  <2>2. ASSUME NEW p \in {"copy", "move"}, Goes(i, p) PROVE Mine(i) /\ JobOK(job'[i])
    <3>1. /\ Mine(i) /\ job'[i].pc = p /\ job'[i].task = job[i].task /\ job'[i].base = job[i].base
          /\ job'[i].file = job[i].file /\ job'[i].report = job[i].report
      BY <2>2, GoesTo
    <3> QED BY <1>0, <2>0, <3>1 DEF JobOK, Reported, Baseless, CacheBuilt, ImageBuilt, Finalized,
            Proven, Installing
  <2>3. CASE AfterFile(i)
    <3> DEFINE r == [job[i] EXCEPT !.file = @ + 1,
                                   !.pc = IF job[i].file = 5 THEN "restart" ELSE "file"]
    <3>1. Len(Kinds) = 5
      BY DEF Kinds
    <3>2. job' = [job EXCEPT ![i] = r]
      BY <1>0, <2>3, <3>1 DEF AfterFile
    <3>3. r \in Job
      <4>1. \A n \in 0 .. 6, p \in Steps : [job[i] EXCEPT !.file = n, !.pc = p] \in Job
        BY <1>0 DEF Job
      <4>2. job[i].file + 1 \in 0 .. 6
        BY <2>0
      <4>3. (IF job[i].file = 5 THEN "restart" ELSE "file") \in Steps
        OBVIOUS
      <4> QED BY <4>1, <4>2, <4>3
    <3>4. /\ r.pc = IF job[i].file = 5 THEN "restart" ELSE "file"
          /\ r.file = job[i].file + 1 /\ r.task = job[i].task /\ r.report = job[i].report
          /\ r.base = job[i].base
      BY <1>0, <2>0 DEF Job
    <3>5. JobOK(r)
      BY <1>0, <2>0, <3>4 DEF JobOK, Reported, Baseless, CacheBuilt, ImageBuilt, Finalized, Proven,
         Installing
    <3> HIDE DEF r
    <3> QED BY <1>0, <3>2, <3>3, <3>5 DEF Mine
  <2> QED BY <1>8, <2>1, <2>2, <2>3 DEF install_file, sudo_install, sudo_move
<1>9. CASE restart(i) \/ Crash(i)
  BY <1>0, <1>9, GoesTo, EndOK DEF restart, Crash, JobOK, Reported
<1>10. CASE CommandFails(i)
  BY <1>0, <1>10, FailOK DEF CommandFails
<1> QED BY <1>1, <1>2, <1>3, <1>4, <1>5, <1>6, <1>7, <1>8, <1>9, <1>10 DEF Install

LEMMA JobsBuild ==
    ASSUME ImagesTypeOK, JobsInv, NEW i \in Installers, Build(i)
    PROVE  Mine(i) /\ JobOK(job'[i])
<1> USE StepNames
<1>0. job \in [Installers -> Job] /\ job[i] \in Job /\ JobOK(job[i])
  BY DEF ImagesTypeOK, JobsInv
<1>a. {"dir", "cache", "cache_clear", "cache_inputs", "inputs", "cache_cleanup", "cleanup"}
         \cup CacheBuilt \cup {"guest", "wait"} \subseteq Early \ {"unlock"}
  BY DEF Early, Installing, CacheBuilt
<1>1. CASE build_image(i) \/ cache_clear(i)
  <2>1. /\ job[i].pc \in {"dir", "cache_clear"}
        /\ Fail(i) \/ \E p \in Bare : Goes(i, p) /\ (p \in Baseless => job[i].pc = "dir")
    BY <1>1, BareNames DEF build_image, cache_clear, At, Baseless
  <2> QED BY <1>0, <1>a, <2>1, FailOK, BareGoes DEF Active, At, Baseless
<1>2. CASE cache_ensure(i)
  <2>1. CASE Goes(i, "cache_clear")
    BY <1>0, <1>2, <1>a, <2>1, BareGoes, BareNames DEF cache_ensure, At, Baseless
  <2>2. CASE cached(i) /\ Keeps(i, "inputs", "base", imgs.image)
    <3>1. imgs.image \in CacheDisk /\ imgs.image.identity = identity(job[i].task)
      BY <2>2 DEF cached, ImagesTypeOK, Task
    <3>2. /\ Mine(i) /\ job'[i].pc = "inputs" /\ job'[i].task = job[i].task
          /\ job'[i].file = job[i].file /\ job'[i].base = imgs.image
          /\ job'[i].report = job[i].report
      BY <2>2, <3>1, KeepsBase
    <3> QED BY <1>0, <1>2, <3>1, <3>2
            DEF cache_ensure, At, JobOK, Reported, Baseless, CacheBuilt, ImageBuilt, Finalized, Proven, Installing
  <2> QED BY <1>2, <2>1, <2>2 DEF cache_ensure
<1>3. CASE cache_inputs(i)
  <2>0. At(i, "cache_inputs") /\ job[i].task \in Tasks /\ job[i].file = 1
    BY <1>0, <1>3 DEF cache_inputs, At, JobOK
  <2> DEFINE d == [identity |-> identity(job[i].task), flaw |-> none]
  <2>1. d \in CacheDisk /\ d.identity = identity(job[i].task)
    BY <2>0 DEF CacheDisk, Flaw, Tools
  <2>2. Keeps(i, "cache_guest", "disk", d)
    BY <1>3 DEF cache_inputs, run_kvm_build, Task
  <2> HIDE DEF d
  <2>3. /\ Mine(i) /\ job'[i].pc = "cache_guest" /\ job'[i].task = job[i].task
        /\ job'[i].file = job[i].file /\ job'[i].disk = d /\ job'[i].report = job[i].report
    BY <2>1, <2>2, KeepsDisk
  <2> QED BY <1>0, <2>0, <2>1, <2>3
          DEF At, JobOK, Reported, Baseless, CacheBuilt, ImageBuilt, Finalized, Proven, Installing
<1>4. CASE cache_guest(i) \/ guest(i) \/ finalize_development_tools_cache(i) \/ cache_publish(i)
           \/ cache_manifest(i)
  <2>1. job[i].pc \in CacheBuilt \cup {"guest", "wait"}
    BY <1>4 DEF cache_guest, guest, finalize_development_tools_cache, cache_publish, cache_manifest,
       At, CacheBuilt
  <2>2. Fail(i) \/ \E p \in CacheBuilt \cup {"guest", "wait"} : Goes(i, p)
    BY <1>4 DEF cache_guest, guest, start_kvm_build_guest, finalize_development_tools_cache,
       cache_publish, cache_manifest, CacheBuilt
  <2> QED BY <1>0, <2>1, <2>2, FailOK, CacheGoes DEF Active, At, CacheBuilt
<1>5. CASE cache_wait(i)
  <2>1. PICK flaw \in Flaw :
          wait_for_shutdown(i, "cache", [job[i].disk EXCEPT !.flaw = flaw], "cache_finish")
    BY <1>5 DEF cache_wait, Flaw
  <2>2. CASE Fail(i)
    BY <1>0, <1>5, <2>2, FailOK DEF cache_wait, Active, At
  <2>3. CASE Keeps(i, "cache_finish", "disk", [job[i].disk EXCEPT !.flaw = flaw])
    <3>0. /\ At(i, "cache_wait") /\ job[i].task \in Tasks /\ job[i].file = 1
          /\ job[i].disk \in CacheDisk /\ job[i].disk.identity = identity(job[i].task)
      BY <1>0, <1>5 DEF cache_wait, At, JobOK, CacheBuilt
    <3>1. PICK d : d = [job[i].disk EXCEPT !.flaw = flaw]
      OBVIOUS
    <3>2. d \in CacheDisk /\ d.identity = identity(job[i].task)
      BY <3>0, <3>1 DEF CacheDisk
    <3>3. /\ Mine(i) /\ job'[i].pc = "cache_finish" /\ job'[i].task = job[i].task
          /\ job'[i].file = job[i].file /\ job'[i].disk = d /\ job'[i].report = job[i].report
      BY <2>3, <3>1, <3>2, KeepsDisk
    <3> QED BY <1>0, <3>0, <3>2, <3>3
            DEF At, JobOK, Reported, Baseless, CacheBuilt, ImageBuilt, Finalized, Proven, Installing
  <2> QED BY <2>1, <2>2, <2>3 DEF wait_for_shutdown
<1>6. CASE cache_done(i)
  <2>0. /\ At(i, "cache_done") /\ job[i].task \in Tasks /\ job[i].file = 1
        /\ job[i].disk \in CacheDisk /\ job[i].disk.identity = identity(job[i].task)
    BY <1>0, <1>6 DEF cache_done, At, JobOK, CacheBuilt
  <2>1. /\ Mine(i) /\ job'[i].pc = "inputs" /\ job'[i].task = job[i].task
        /\ job'[i].file = job[i].file /\ job'[i].base = job[i].disk
        /\ job'[i].report = job[i].report
    BY <1>6, <2>0, KeepsBase DEF cache_done
  <2> QED BY <1>0, <2>0, <2>1 DEF At, JobOK, Reported, Baseless, CacheBuilt, ImageBuilt, Finalized, Proven, Installing
<1>7. CASE cache_cleanup(i) \/ cleanup(i)
  <2>1. job[i].pc \in {"cache_cleanup", "cleanup"} /\ (Goes(i, "cleanup") \/ Goes(i, "ended"))
    BY <1>7 DEF cache_cleanup, cleanup, At
  <2>2. CASE Goes(i, "ended")
    BY <1>0, <2>2, GoesTo, EndOK DEF JobOK, Reported
  <2> QED BY <1>0, <1>a, <2>1, <2>2, BareGoes, BareNames DEF Baseless
<1>8. CASE inputs(i)
  <2>0. /\ At(i, "inputs") /\ job[i].task \in Tasks /\ job[i].file = 1
        /\ job[i].base \in CacheDisk /\ job[i].base.identity = identity(job[i].task)
    BY <1>0, <1>8 DEF inputs, At, JobOK
  <2>1. /\ Mine(i) /\ job'[i].pc = "guest" /\ job'[i].task = job[i].task
        /\ job'[i].file = job[i].file /\ job'[i].disk = job[i].base
        /\ job'[i].report = job[i].report
    BY <1>8, <2>0, KeepsDisk DEF inputs, run_kvm_build
  <2> QED BY <1>0, <2>0, <2>1 DEF At, JobOK, Reported, Baseless, CacheBuilt, ImageBuilt, Finalized, Proven, Installing
<1>9. CASE wait(i)
  <2>0. /\ At(i, "wait") /\ job[i].task \in Tasks /\ job[i].file = 1
        /\ job[i].disk \in CacheDisk /\ job[i].disk.identity = identity(job[i].task)
    BY <1>0, <1>9 DEF wait, At, JobOK
  <2>a. PICK mark \in Marks, flaw \in Flaw :
          wait_for_shutdown(i, "main",
              [commit |-> Task(i).commit, base |-> job[i].disk.identity, mark |-> mark,
               flaw |-> IF job[i].disk.flaw = none THEN flaw ELSE job[i].disk.flaw], "packages")
    BY <1>9 DEF wait, Flaw
  <2>1. PICK d :
          /\ d = [commit |-> Task(i).commit, base |-> job[i].disk.identity, mark |-> mark,
                  flaw |-> IF job[i].disk.flaw = none THEN flaw ELSE job[i].disk.flaw]
          /\ wait_for_shutdown(i, "main", d, "packages")
    BY <2>a
  <2>2. CASE Fail(i)
    BY <1>0, <2>0, <2>2, FailOK DEF Active, At
  <2>3. CASE validate_result(d) /\ Keeps(i, "packages", "disk", d)
    <3>1. /\ d \in MainDisk /\ d.commit = job[i].task.commit /\ d.base = identity(job[i].task)
      <4>1. (IF job[i].disk.flaw = none THEN flaw ELSE job[i].disk.flaw) \in Flaw
        BY <2>0 DEF CacheDisk
      <4> QED BY <2>0, <2>1, <4>1 DEF MainDisk, CacheDisk, Commits, Tools, Task
    <3>2. /\ Mine(i) /\ job'[i].pc = "packages" /\ job'[i].task = job[i].task
          /\ job'[i].file = job[i].file /\ job'[i].disk = d /\ job'[i].report = job[i].report
      BY <2>3, <3>1, KeepsDisk DEF Image
    <3>3. Cleared("packages", d.flaw)
      BY <2>3 DEF validate_result, Cleared, Finalized, Proven
    <3> QED BY <1>0, <2>0, <3>1, <3>2, <3>3
            DEF At, JobOK, Reported, Baseless, CacheBuilt, ImageBuilt, Finalized, Proven, Installing
  <2> QED BY <2>1, <2>2, <2>3 DEF wait_for_shutdown
<1>10. CASE read_versions(i) \/ finalize_reusable_image(i)
  <2>0. job[i].pc \in ImageBuilt /\ Cleared(job[i].pc, job[i].disk.flaw)
    BY <1>0, <1>10 DEF read_versions, finalize_reusable_image, At, JobOK, ImageBuilt
  <2>1. CASE Fail(i)
    BY <1>0, <1>10, <2>1, FailOK DEF read_versions, finalize_reusable_image, Active, At
  <2>2. CASE read_versions(i) /\ ~Fail(i)
    <3>1. /\ Goes(i, "finalize") /\ job[i].disk.flaw # "packages" /\ job[i].pc = "packages"
      BY <2>2 DEF read_versions, parse_package_versions, At
    <3>2. Cleared("finalize", job[i].disk.flaw) /\ "finalize" \in ImageBuilt
      BY <2>0, <3>1 DEF Cleared, ImageBuilt, Finalized, Proven
    <3> QED BY <1>0, <2>0, <3>1, <3>2, BuiltGoes
  <2>3. CASE finalize_reusable_image(i) /\ ~Fail(i)
    <3>1. /\ Goes(i, "stage") /\ job[i].disk.flaw \notin {"unsanitized", "contract", "changed"}
          /\ job[i].pc = "finalize"
      BY <2>3 DEF finalize_reusable_image, verify_reusable_image_sanitization,
         verify_guest_contract, FinalVersions, At
    <3>2. Cleared("stage", job[i].disk.flaw) /\ "stage" \in ImageBuilt
      BY <2>0, <3>1 DEF Cleared, ImageBuilt, Finalized, Proven
    <3> QED BY <1>0, <2>0, <3>1, <3>2, BuiltGoes
  <2> QED BY <1>10, <2>1, <2>2, <2>3
<1> QED BY <1>1, <1>2, <1>3, <1>4, <1>5, <1>6, <1>7, <1>8, <1>9, <1>10 DEF Build

LEMMA JobsPublish ==
    ASSUME ImagesTypeOK, JobsInv, PublishInv, NEW i \in Installers, Publish(i)
    PROVE  Mine(i) /\ JobOK(job'[i])
<1> USE StepNames
<1>0. job \in [Installers -> Job] /\ job[i] \in Job /\ JobOK(job[i])
  BY DEF ImagesTypeOK, JobsInv
<1>a. Finalized \cup Proven \subseteq ImageBuilt /\ ImageBuilt \subseteq Early \ {"unlock"}
  BY DEF ImageBuilt, Finalized, Proven, Early, Installing
<1>b. \A p, q \in Finalized : \A flaw : Cleared(p, flaw) => Cleared(q, flaw)
  BY DEF Cleared, Finalized, Proven
<1>c. \A p, q \in Proven : \A flaw : Cleared(p, flaw) => Cleared(q, flaw)
  BY DEF Cleared, Finalized, Proven
<1>d. "stage" \in Finalized
  BY DEF Finalized
<1>1. CASE stage_generation(i) \/ stage_publication(i) \/ verify_publication(i)
  <2>1. job[i].pc \in Finalized
    BY <1>1 DEF stage_generation, stage_publication, verify_publication, At, Finalized
  <2>2. Fail(i) \/ \E p \in Finalized : Goes(i, p)
    BY <1>1 DEF stage_generation, stage_publication, verify_publication, Finalized
  <2>3. Cleared("stage", job[i].disk.flaw)
    BY <1>0, <1>a, <1>b, <1>d, <2>1 DEF JobOK
  <2> QED BY <1>0, <1>a, <1>b, <1>d, <2>1, <2>2, <2>3, FailOK, BuiltGoes DEF Active, At, Finalized
<1>2. CASE probe_cleanup(i)
  <2>0. job[i].pc \in Finalized /\ Cleared("stage", job[i].disk.flaw)
    BY <1>0, <1>2, <1>a, <1>b, <1>d DEF probe_cleanup, At, JobOK, Finalized
  <2>1. PICK booted \in BOOLEAN, cleaned \in BOOLEAN :
          /\ booted => job[i].disk.flaw # "boot"
          /\ Goes(i, IF booted /\ cleaned THEN "remove_dir" ELSE "discard")
    BY <1>2 DEF probe_cleanup
  <2>2. CASE booted /\ cleaned
    <3>1. Cleared("remove_dir", job[i].disk.flaw) /\ "remove_dir" \in ImageBuilt
      BY <1>a, <2>0, <2>1, <2>2 DEF Cleared, Finalized, Proven
    <3> QED BY <1>0, <1>a, <2>0, <2>1, <2>2, <3>1, BuiltGoes
  <2>3. CASE ~(booted /\ cleaned)
    <3>1. "discard" \in Finalized
      BY DEF Finalized
    <3> QED BY <1>0, <1>a, <1>b, <1>d, <2>0, <2>1, <2>3, <3>1, BuiltGoes
  <2> QED BY <2>2, <2>3
<1>3. CASE discard(i)
  BY <1>0, <1>3, <1>a, BareGoes, BareNames DEF discard, At, Finalized, Baseless
<1>4. CASE remove_build_dir(i) \/ publish(i) \/ publish_link(i)
  <2>1. job[i].pc \in Proven /\ \E p \in Proven : Goes(i, p)
    BY <1>4 DEF remove_build_dir, publish, publish_link, At, Proven
  <2>2. \A p \in Proven : Cleared(p, job[i].disk.flaw)
    BY <1>0, <1>a, <1>c, <2>1 DEF JobOK
  <2> QED BY <1>0, <1>a, <2>1, <2>2, BuiltGoes
<1>5. CASE publish_current(i)
  <2>0. /\ job[i].task \in Tasks /\ job[i].file = 1 /\ job[i].disk \in MainDisk
        /\ job[i].disk.commit = job[i].task.commit
        /\ job[i].disk.base = identity(job[i].task)
    BY <1>0, <1>5 DEF publish_current, At, JobOK, ImageBuilt, Proven
  <2>1. /\ Mine(i) /\ job'[i].pc = "unlock" /\ job'[i].task = job[i].task
        /\ job'[i].file = job[i].file /\ job'[i].report = job[i].disk
    BY <1>5, <2>0, KeepsReport DEF publish_current, Image
  <2>2. Reported(job'[i]) /\ "unlock" \notin Baseless
    BY <2>0, <2>1 DEF Reported, Baseless
  <2> QED BY <2>0, <2>1, <2>2, BareOK, BareNames
<1> QED BY <1>1, <1>2, <1>3, <1>4, <1>5 DEF Publish

-----------------------------------------------------------------------------
(* Where an installer goes from each of its steps *)

LEMMA PcGoes ==
    ASSUME ImagesTypeOK, NEW i \in Installers, NEW p,
           Goes(i, p) \/ \E f \in {"base", "disk", "replace", "report"} : \E v : Keeps(i, p, f, v)
    PROVE  job'[i].pc = p
<1>1. job \in [Installers -> Job] /\ job[i] \in Job
  BY DEF ImagesTypeOK
<1>2. CASE Goes(i, p)
  BY <1>1, <1>2 DEF Goes, Job
<1>3. ASSUME NEW f \in {"base", "disk", "replace", "report"}, NEW v, Keeps(i, p, f, v)
      PROVE  job'[i].pc = p
  <2>1. job'[i] = [job[i] EXCEPT !.pc = p, ![f] = v]
    BY <1>1, <1>3 DEF Keeps
  <2>2. f # "pc"
    OBVIOUS
  <2> QED BY <1>1, <2>1, <2>2 DEF Job
<1> QED BY <1>2, <1>3

LEMMA Targets ==
    ASSUME ImagesTypeOK, NEW i \in Installers
    PROVE  /\ require_installed_compatible(i) => At(i, "validate") /\ job'[i].pc \in {"lock", "ended"}
           /\ acquire(i) => At(i, "lock") /\ job'[i].pc \in {"clean", "ended"}
           /\ Clean(i) => At(i, "clean") /\ job'[i].pc \in {"source", "ended"}
           /\ source_image(i) => At(i, "source") /\ job'[i].pc \in {"byobu", "ended"}
           /\ byobu_package(i) => At(i, "byobu") /\ job'[i].pc \in {"installed", "ended"}
           /\ installed_image_state(i) => At(i, "installed") /\ job'[i].pc \in {"unlock", "dir"}
           /\ resolve_to_verify(i) => At(i, "resolve") /\ job'[i].pc \in {"verify"}
           /\ verify(i) => At(i, "verify") /\ job'[i].pc \in {"ended"}
           /\ unlock(i) => At(i, "unlock") /\ job'[i].pc \in {"file", "ended"}
           /\ install_file(i) => At(i, "file") /\ job'[i].pc \in {"file", "restart", "ended", "copy"}
           /\ sudo_install(i) => At(i, "copy") /\ job'[i].pc \in {"move"}
           /\ sudo_move(i) => At(i, "move") /\ job'[i].pc \in {"file", "restart", "ended"}
           /\ restart(i) => At(i, "restart") /\ job'[i].pc \in {"ended"}
           /\ build_image(i) => At(i, "dir") /\ job'[i].pc \in {"cache", "ended"}
           /\ cache_ensure(i) => At(i, "cache") /\ job'[i].pc \in {"inputs", "cache_clear"}
           /\ cache_clear(i) => At(i, "cache_clear") /\ job'[i].pc \in {"cache_inputs", "cleanup"}
           /\ cache_inputs(i) => At(i, "cache_inputs") /\ job'[i].pc \in {"cache_guest"}
           /\ cache_guest(i) => At(i, "cache_guest") /\ job'[i].pc \in {"cache_wait", "cache_cleanup"}
           /\ cache_wait(i) => At(i, "cache_wait") /\ job'[i].pc \in {"cache_finish", "cache_cleanup"}
           /\ finalize_development_tools_cache(i) => At(i, "cache_finish")
              /\ job'[i].pc \in {"cache_publish", "cache_cleanup"}
           /\ cache_publish(i) => At(i, "cache_publish") /\ job'[i].pc \in {"cache_manifest"}
           /\ cache_manifest(i) => At(i, "cache_manifest") /\ job'[i].pc \in {"cache_done"}
           /\ cache_done(i) => At(i, "cache_done") /\ job'[i].pc \in {"inputs"}
           /\ cache_cleanup(i) => At(i, "cache_cleanup") /\ job'[i].pc \in {"cleanup"}
           /\ inputs(i) => At(i, "inputs") /\ job'[i].pc \in {"guest"}
           /\ guest(i) => At(i, "guest") /\ job'[i].pc \in {"wait", "cleanup"}
           /\ wait(i) => At(i, "wait") /\ job'[i].pc \in {"packages", "cleanup"}
           /\ read_versions(i) => At(i, "packages") /\ job'[i].pc \in {"finalize", "cleanup"}
           /\ finalize_reusable_image(i) => At(i, "finalize") /\ job'[i].pc \in {"stage", "cleanup"}
           /\ cleanup(i) => At(i, "cleanup") /\ job'[i].pc \in {"ended"}
           /\ stage_generation(i) => At(i, "stage") /\ job'[i].pc \in {"probe", "stage_files", "cleanup"}
           /\ stage_publication(i) => At(i, "stage_files") /\ job'[i].pc \in {"probe"}
           /\ verify_publication(i) => At(i, "probe") /\ job'[i].pc \in {"discard", "probing"}
           /\ probe_cleanup(i) => At(i, "probing") /\ job'[i].pc \in {"remove_dir", "discard"}
           /\ discard(i) => At(i, "discard") /\ job'[i].pc \in {"cleanup"}
           /\ remove_build_dir(i) => At(i, "remove_dir") /\ job'[i].pc \in {"publish"}
           /\ publish(i) => At(i, "publish") /\ job'[i].pc \in {"link"}
           /\ publish_link(i) => At(i, "link") /\ job'[i].pc \in {"current"}
           /\ publish_current(i) => At(i, "current") /\ job'[i].pc \in {"unlock"}
<1> USE PcGoes DEF At
<1>0. job \in [Installers -> Job] /\ job[i] \in Job
  BY DEF ImagesTypeOK
<1>f. Fail(i) => /\ job[i].pc \in CacheSteps => job'[i].pc = "cache_cleanup"
                 /\ job[i].pc \in MainSteps => job'[i].pc = "cleanup"
                 /\ job[i].pc \in LockedSteps \cup {"validate", "lock"} => job'[i].pc = "ended"
  BY DEF Fail, Locking, Building, CacheSteps, MainSteps, LockedSteps
<1> USE DEF CacheSteps, MainSteps, LockedSteps
<1>1. require_installed_compatible(i) => At(i, "validate") /\ job'[i].pc \in {"lock", "ended"}
  BY <1>f DEF require_installed_compatible
<1>2. acquire(i) => At(i, "lock") /\ job'[i].pc \in {"clean", "ended"}
  BY <1>f DEF acquire
<1>3. Clean(i) => At(i, "clean") /\ job'[i].pc \in {"source", "ended"}
  BY <1>f DEF Clean
<1>4. source_image(i) => At(i, "source") /\ job'[i].pc \in {"byobu", "ended"}
  BY <1>f DEF source_image, Download
<1>5. byobu_package(i) => At(i, "byobu") /\ job'[i].pc \in {"installed", "ended"}
  BY <1>f DEF byobu_package, Download
<1>6. installed_image_state(i) => At(i, "installed") /\ job'[i].pc \in {"unlock", "dir"}
  BY <1>f DEF installed_image_state
<1>7. resolve_to_verify(i) => At(i, "resolve") /\ job'[i].pc \in {"verify"}
  BY <1>f DEF resolve_to_verify
<1>8. verify(i) => At(i, "verify") /\ job'[i].pc \in {"ended"}
  BY <1>f DEF verify
<1>9. unlock(i) => At(i, "unlock") /\ job'[i].pc \in {"file", "ended"}
  BY <1>f DEF unlock
<1>10. install_file(i) => At(i, "file") /\ job'[i].pc \in {"file", "restart", "ended", "copy"}
  <2>1. AfterFile(i) => job'[i].pc \in {"file", "restart"}
    BY <1>0 DEF AfterFile, Job
  <2> QED BY <2>1 DEF install_file
<1>40. sudo_install(i) => At(i, "copy") /\ job'[i].pc \in {"move"}
  BY DEF sudo_install
<1>11. sudo_move(i) => At(i, "move") /\ job'[i].pc \in {"file", "restart", "ended"}
  <2>1. AfterFile(i) => job'[i].pc \in {"file", "restart"}
    BY <1>0 DEF AfterFile, Job
  <2> QED BY <2>1 DEF sudo_move
<1>12. restart(i) => At(i, "restart") /\ job'[i].pc \in {"ended"}
  BY <1>f DEF restart
<1>13. build_image(i) => At(i, "dir") /\ job'[i].pc \in {"cache", "ended"}
  BY <1>f DEF build_image
<1>14. cache_ensure(i) => At(i, "cache") /\ job'[i].pc \in {"inputs", "cache_clear"}
  BY <1>f DEF cache_ensure
<1>15. cache_clear(i) => At(i, "cache_clear") /\ job'[i].pc \in {"cache_inputs", "cleanup"}
  BY <1>f DEF cache_clear
<1>16. cache_inputs(i) => At(i, "cache_inputs") /\ job'[i].pc \in {"cache_guest"}
  BY <1>f DEF cache_inputs, run_kvm_build
<1>17. cache_guest(i) => At(i, "cache_guest") /\ job'[i].pc \in {"cache_wait", "cache_cleanup"}
  BY <1>f DEF cache_guest, start_kvm_build_guest
<1>18. cache_wait(i) => At(i, "cache_wait") /\ job'[i].pc \in {"cache_finish", "cache_cleanup"}
  BY <1>f DEF cache_wait, wait_for_shutdown
<1>19. finalize_development_tools_cache(i) => At(i, "cache_finish")
              /\ job'[i].pc \in {"cache_publish", "cache_cleanup"}
  BY <1>f DEF finalize_development_tools_cache
<1>20. cache_publish(i) => At(i, "cache_publish") /\ job'[i].pc \in {"cache_manifest"}
  BY <1>f DEF cache_publish
<1>21. cache_manifest(i) => At(i, "cache_manifest") /\ job'[i].pc \in {"cache_done"}
  BY <1>f DEF cache_manifest
<1>22. cache_done(i) => At(i, "cache_done") /\ job'[i].pc \in {"inputs"}
  BY <1>f DEF cache_done
<1>23. cache_cleanup(i) => At(i, "cache_cleanup") /\ job'[i].pc \in {"cleanup"}
  BY <1>f DEF cache_cleanup
<1>24. inputs(i) => At(i, "inputs") /\ job'[i].pc \in {"guest"}
  BY <1>f DEF inputs, run_kvm_build
<1>25. guest(i) => At(i, "guest") /\ job'[i].pc \in {"wait", "cleanup"}
  BY <1>f DEF guest, start_kvm_build_guest
<1>26. wait(i) => At(i, "wait") /\ job'[i].pc \in {"packages", "cleanup"}
  BY <1>f DEF wait, wait_for_shutdown
<1>27. read_versions(i) => At(i, "packages") /\ job'[i].pc \in {"finalize", "cleanup"}
  BY <1>f DEF read_versions
<1>28. finalize_reusable_image(i) => At(i, "finalize") /\ job'[i].pc \in {"stage", "cleanup"}
  BY <1>f DEF finalize_reusable_image
<1>29. cleanup(i) => At(i, "cleanup") /\ job'[i].pc \in {"ended"}
  BY <1>f DEF cleanup
<1>30. stage_generation(i) => At(i, "stage") /\ job'[i].pc \in {"probe", "stage_files", "cleanup"}
  BY <1>f DEF stage_generation
<1>31. stage_publication(i) => At(i, "stage_files") /\ job'[i].pc \in {"probe"}
  BY <1>f DEF stage_publication
<1>32. verify_publication(i) => At(i, "probe") /\ job'[i].pc \in {"discard", "probing"}
  BY <1>f DEF verify_publication
<1>33. probe_cleanup(i) => At(i, "probing") /\ job'[i].pc \in {"remove_dir", "discard"}
  BY <1>f DEF probe_cleanup
<1>34. discard(i) => At(i, "discard") /\ job'[i].pc \in {"cleanup"}
  BY <1>f DEF discard
<1>35. remove_build_dir(i) => At(i, "remove_dir") /\ job'[i].pc \in {"publish"}
  BY <1>f DEF remove_build_dir
<1>36. publish(i) => At(i, "publish") /\ job'[i].pc \in {"link"}
  BY <1>f DEF publish
<1>37. publish_link(i) => At(i, "link") /\ job'[i].pc \in {"current"}
  BY <1>f DEF publish_link
<1>38. publish_current(i) => At(i, "current") /\ job'[i].pc \in {"unlock"}
  BY <1>f DEF publish_current
<1> QED BY <1>1, <1>2, <1>3, <1>4, <1>5, <1>6, <1>7, <1>8, <1>9, <1>10, <1>11, <1>12, <1>13,
         <1>14, <1>15, <1>16, <1>17, <1>18, <1>19, <1>20, <1>21, <1>22, <1>23, <1>24,
         <1>25, <1>26, <1>27, <1>28, <1>29, <1>30, <1>31, <1>32, <1>33, <1>34, <1>35,
         <1>36, <1>37, <1>38, <1>40

-----------------------------------------------------------------------------
(* What each step of an installer leaves alone *)

Works(i) == Install(i) \/ Build(i) \/ Publish(i)

LEMMA Untouched ==
    ASSUME NEW i \in Installers, Works(i)
    PROVE  /\ \/ UNCHANGED build
              \/ build_image(i) \/ cache_clear(i) \/ cache_guest(i) \/ cache_wait(i) \/ cache_done(i)
              \/ cache_cleanup(i) \/ guest(i) \/ wait(i) \/ remove_build_dir(i) \/ cleanup(i)
           /\ \/ UNCHANGED imgs
              \/ source_image(i) \/ byobu_package(i) \/ cache_ensure(i) \/ cache_clear(i)
              \/ finalize_development_tools_cache(i) \/ cache_publish(i) \/ cache_manifest(i)
              \/ cache_cleanup(i)
           /\ \/ UNCHANGED images
              \/ stage_generation(i) \/ stage_publication(i) \/ discard(i) \/ publish(i)
              \/ publish_link(i) \/ publish_current(i)
           /\ UNCHANGED probe \/ verify_publication(i) \/ probe_cleanup(i)
           /\ UNCHANGED files \/ sudo_install(i) \/ sudo_move(i)
           /\ UNCHANGED server \/ restart(i)
           /\ UNCHANGED probed \/ probe_cleanup(i)
           /\ UNCHANGED left \/ cache_cleanup(i) \/ cleanup(i) \/ Crash(i)
           /\ UNCHANGED bounds \/ Crash(i) \/ \E task \in Tasks : Start(i, task)
           /\ UNCHANGED met \/ \E task \in Tasks : Start(i, task)
<1> USE DEF Works, Install, Build, Publish, installer, environment, OnlyJob, OnlyImgs,
       OnlyImages, OnlyBuild,
       require_installed_compatible, acquire, Clean, source_image, byobu_package, Download,
       installed_image_state, resolve_to_verify, verify, unlock, install_file, sudo_install, sudo_move, restart,
       CommandFails, Crash, Start, build_image, cache_ensure, cache_clear, cache_inputs,
       run_kvm_build, cache_guest, start_kvm_build_guest, cache_wait, wait_for_shutdown,
       finalize_development_tools_cache, cache_publish, cache_manifest, cache_done, cache_cleanup,
       inputs, guest, wait, read_versions, finalize_reusable_image, cleanup, stage_generation,
       stage_publication, verify_publication, probe_cleanup, discard, remove_build_dir, publish,
       publish_link, publish_current
<1>1. \/ UNCHANGED build
      \/ build_image(i) \/ cache_clear(i) \/ cache_guest(i) \/ cache_wait(i) \/ cache_done(i)
      \/ cache_cleanup(i) \/ guest(i) \/ wait(i) \/ remove_build_dir(i) \/ cleanup(i)
  OBVIOUS
<1>2. \/ UNCHANGED imgs
      \/ source_image(i) \/ byobu_package(i) \/ cache_ensure(i) \/ cache_clear(i)
      \/ finalize_development_tools_cache(i) \/ cache_publish(i) \/ cache_manifest(i)
      \/ cache_cleanup(i)
  OBVIOUS
<1>3. \/ UNCHANGED images
      \/ stage_generation(i) \/ stage_publication(i) \/ discard(i) \/ publish(i)
      \/ publish_link(i) \/ publish_current(i)
  OBVIOUS
<1>4. UNCHANGED probe \/ verify_publication(i) \/ probe_cleanup(i)
  OBVIOUS
<1>5. UNCHANGED files \/ sudo_install(i) \/ sudo_move(i)
  OBVIOUS
<1>6. UNCHANGED server \/ restart(i)
  OBVIOUS
<1>7. UNCHANGED probed \/ probe_cleanup(i)
  OBVIOUS
<1>8. UNCHANGED left \/ cache_cleanup(i) \/ cleanup(i) \/ Crash(i)
  OBVIOUS
<1>9. UNCHANGED bounds \/ Crash(i) \/ \E task \in Tasks : Start(i, task)
  OBVIOUS
<1>10. UNCHANGED met \/ \E task \in Tasks : Start(i, task)
  OBVIOUS
<1> QED BY <1>1, <1>2, <1>3, <1>4, <1>5, <1>6, <1>7, <1>8, <1>9, <1>10

\* The lock is taken by a step that goes to "clean", and dropped by the step
\* that leaves the locked part; only a crash leaves it there.
LEMMA LockEffect ==
    ASSUME ImagesTypeOK, NEW i \in Installers, Works(i)
    PROVE  \/ UNCHANGED lock /\ (Locking(i)' <=> Locking(i))
           \/ ~Locking(i) /\ lock = FALSE /\ lock' = TRUE /\ job'[i].pc = "clean"
           \/ Locking(i) /\ ~Locking(i)' /\ lock' = FALSE
           \/ Crash(i) /\ UNCHANGED lock /\ ~Locking(i)'
<1> USE Targets DEF At, Locking, Building, CacheSteps, MainSteps, LockedSteps
<1>f. ASSUME Fail(i)
      PROVE  \/ UNCHANGED lock /\ (Locking(i)' <=> Locking(i))
             \/ Locking(i) /\ ~Locking(i)' /\ lock' = FALSE
  BY <1>f, PcGoes DEF Fail
<1>1. CASE acquire(i)
  <2>1. lock \in BOOLEAN
    BY DEF ImagesTypeOK
  <2>2. CASE Goes(i, "clean") /\ lock # TRUE /\ lock' = TRUE
    BY <1>1, <2>1, <2>2, PcGoes DEF acquire
  <2> QED BY <1>1, <1>f, <2>1, <2>2 DEF acquire
<1>2. CASE unlock(i) \/ cleanup(i)
  BY <1>2 DEF unlock, cleanup
<1>3. CASE Crash(i)
  BY <1>3, PcGoes DEF Crash
<1>4. CASE \E task \in Tasks : Start(i, task)
  <2>1. PICK task \in Tasks : Start(i, task)
    BY <1>4
  <2>2. job'[i].pc \in {"validate", "resolve", "lock"}
    BY <2>1 DEF Start, ImagesTypeOK
  <2>3. job[i].pc = "ended" /\ UNCHANGED lock
    BY <2>1 DEF Start, Active, installer
  <2> QED BY <2>2, <2>3
<1>5. CASE CommandFails(i)
  BY <1>5, <1>f DEF CommandFails
<1>6. CASE require_installed_compatible(i) \/ Clean(i) \/ source_image(i) \/ byobu_package(i)
           \/ build_image(i) \/ cache_clear(i) \/ cache_guest(i) \/ cache_wait(i)
           \/ finalize_development_tools_cache(i) \/ guest(i) \/ wait(i) \/ read_versions(i)
           \/ finalize_reusable_image(i) \/ stage_generation(i)
  <2>1. Fail(i) \/ UNCHANGED lock
    BY <1>6 DEF require_installed_compatible, Clean, source_image, byobu_package, Download,
       build_image, cache_clear, cache_guest, start_kvm_build_guest, cache_wait, wait_for_shutdown,
       finalize_development_tools_cache, guest, wait, read_versions, finalize_reusable_image,
       stage_generation
  <2>2. CASE UNCHANGED lock /\ ~Fail(i)
    <3>1. CASE require_installed_compatible(i)
      BY <2>2, <3>1, PcGoes DEF require_installed_compatible
    <3>2. CASE Clean(i) \/ source_image(i) \/ byobu_package(i) \/ build_image(i)
      <4>1. job'[i].pc \in {"source", "byobu", "installed", "cache"}
        BY <2>2, <3>2, PcGoes DEF Clean, source_image, byobu_package, Download, build_image
      <4> QED BY <2>2, <3>2, <4>1
    <3>3. CASE ~(require_installed_compatible(i) \/ Clean(i) \/ source_image(i) \/ byobu_package(i)
                 \/ build_image(i))
      BY <1>6, <2>2, <3>3
    <3> QED BY <3>1, <3>2, <3>3
  <2> QED BY <1>f, <2>1, <2>2
<1>7. CASE installed_image_state(i) \/ resolve_to_verify(i) \/ verify(i) \/ install_file(i)
           \/ sudo_install(i) \/ sudo_move(i) \/ restart(i) \/ cache_ensure(i) \/ cache_inputs(i) \/ cache_publish(i)
           \/ cache_manifest(i) \/ cache_done(i) \/ cache_cleanup(i) \/ inputs(i)
           \/ stage_publication(i) \/ verify_publication(i) \/ probe_cleanup(i) \/ discard(i)
           \/ remove_build_dir(i) \/ publish(i) \/ publish_link(i) \/ publish_current(i)
  <2>1. UNCHANGED lock
    BY <1>7 DEF installed_image_state, resolve_to_verify, verify, install_file, sudo_install, sudo_move, restart,
       cache_ensure, cache_inputs, run_kvm_build, cache_publish, cache_manifest, cache_done,
       cache_cleanup, inputs, stage_publication, verify_publication, probe_cleanup, discard,
       remove_build_dir, publish, publish_link, publish_current, OnlyJob, OnlyImgs, OnlyImages,
       OnlyBuild, installer
  <2> QED BY <1>7, <2>1
<1> QED BY <1>1, <1>2, <1>3, <1>4, <1>5, <1>6, <1>7 DEF Works, Install, Build, Publish

LEMMA TypeRest ==
    ASSUME ImagesTypeOK, JobsInv, PublishInv, NEW i \in Installers, Works(i), Mine(i)
    PROVE  ImagesTypeOK'
<1> USE DEF At
<1>0. job \in [Installers -> Job] /\ job[i] \in Job /\ JobOK(job[i])
  BY DEF ImagesTypeOK, JobsInv
<1>c. job[i].pc \in CacheBuilt => job[i].disk \in CacheDisk
  BY <1>0 DEF JobOK
<1>m. job[i].pc \in ImageBuilt => job[i].disk \in MainDisk
  BY <1>0 DEF JobOK
<1>1. build' \in [Names -> [dir : BOOLEAN, domain : BOOLEAN]]
  <2>0. build \in [Names -> [dir : BOOLEAN, domain : BOOLEAN]]
    BY DEF ImagesTypeOK
  <2>1. /\ NoBuild \in [dir : BOOLEAN, domain : BOOLEAN]
        /\ \A b \in [dir : BOOLEAN, domain : BOOLEAN], v \in BOOLEAN :
              /\ [b EXCEPT !.dir = v] \in [dir : BOOLEAN, domain : BOOLEAN]
              /\ [b EXCEPT !.domain = v] \in [dir : BOOLEAN, domain : BOOLEAN]
    BY DEF NoBuild
  <2>2. \/ UNCHANGED build
        \/ \E n \in Names, v \in BOOLEAN :
              \/ build' = [build EXCEPT ![n] = NoBuild]
              \/ build' = [build EXCEPT ![n] = [build[n] EXCEPT !.dir = v]]
              \/ build' = [build EXCEPT ![n] = [build[n] EXCEPT !.domain = v]]
    BY Untouched DEF build_image, cache_clear, cache_guest, start_kvm_build_guest, cache_wait,
       wait_for_shutdown, cache_done, cache_cleanup, cleanup_failed_build, guest, wait,
       remove_build_dir, cleanup, Names
  <2> QED BY <2>0, <2>1, <2>2
<1>2. imgs' \in [source : Downloads, byobu : Downloads,
                 image : CacheDisk \cup {none}, manifest : CacheDisk \cup {none}, new : BOOLEAN]
  <2>0. imgs \in [source : Downloads, byobu : Downloads,
                  image : CacheDisk \cup {none}, manifest : CacheDisk \cup {none}, new : BOOLEAN]
    BY DEF ImagesTypeOK
  <2>1. CASE UNCHANGED imgs
    BY <2>0, <2>1
  <2>2. CASE source_image(i) \/ byobu_package(i)
    <3>1. CASE source_image(i)
      <4>1. Task(i).source \in Downloads /\ "partial" \in Downloads
        BY <1>0, <3>1 DEF source_image, JobOK, Downloads, Task
      <4> QED BY <2>0, <3>1, <4>1 DEF source_image, Download
    <3>2. CASE byobu_package(i)
      BY <2>0, <3>2 DEF byobu_package, Download, Downloads
    <3> QED BY <2>2, <3>1, <3>2
  <2>3. CASE cache_ensure(i) \/ cache_clear(i) \/ finalize_development_tools_cache(i)
             \/ cache_cleanup(i)
    BY <2>0, <2>3 DEF cache_ensure, cache_clear, finalize_development_tools_cache, cache_cleanup
  <2>4. CASE cache_publish(i) \/ cache_manifest(i)
    BY <1>c, <2>0, <2>4 DEF cache_publish, cache_manifest, CacheBuilt
  <2> QED BY <2>1, <2>2, <2>3, <2>4, Untouched
<1>3. images' \in [generations : SUBSET MainDisk,
                   staged : [image : MainDisk, whole : BOOLEAN] \cup {none},
                   current : Image, link : Image]
  <2>0. images \in [generations : SUBSET MainDisk,
                    staged : [image : MainDisk, whole : BOOLEAN] \cup {none},
                    current : Image, link : Image]
    BY DEF ImagesTypeOK
  <2>1. CASE UNCHANGED images
    BY <2>0, <2>1
  <2>2. CASE stage_generation(i)
    <3>1. [image |-> job[i].disk, whole |-> FALSE] \in [image : MainDisk, whole : BOOLEAN]
      BY <1>m, <2>2 DEF stage_generation, ImageBuilt, Finalized
    <3> QED BY <2>0, <2>2, <3>1 DEF stage_generation
  <2>3. CASE stage_publication(i)
    <3>1. images.staged \in [image : MainDisk, whole : BOOLEAN]
      BY <2>3 DEF stage_publication, PublishInv
    <3>2. [images.staged EXCEPT !.whole = TRUE] \in [image : MainDisk, whole : BOOLEAN]
      BY <3>1
    <3>3. images' = [images EXCEPT !.staged = [images.staged EXCEPT !.whole = TRUE]]
      BY <2>0, <2>3 DEF stage_publication
    <3> QED BY <2>0, <3>2, <3>3
  <2>4. CASE discard(i)
    BY <2>0, <2>4 DEF discard
  <2>5. CASE publish(i) \/ publish_link(i) \/ publish_current(i)
    <3>1. job[i].disk \in MainDisk
      BY <1>m, <2>5 DEF publish, publish_link, publish_current, ImageBuilt, Proven
    <3>2. \/ images' = [images EXCEPT !.generations = @ \cup {job[i].disk}, !.staged = none]
          \/ images' = [images EXCEPT !.link = job[i].disk]
          \/ images' = [images EXCEPT !.current = images.link, !.link = none]
      BY <2>5 DEF publish, publish_link, publish_current
    <3>3. none \in Image /\ job[i].disk \in Image /\ images.link \in Image
          /\ images.generations \cup {job[i].disk} \in SUBSET MainDisk
      BY <2>0, <3>1 DEF Image
    <3>4. none \in [image : MainDisk, whole : BOOLEAN] \cup {none}
      OBVIOUS
    <3> QED BY <2>0, <3>2, <3>3, <3>4
  <2> QED BY <2>1, <2>2, <2>3, <2>4, <2>5, Untouched
<1>4. probe' \in BOOLEAN
  BY Untouched DEF ImagesTypeOK, verify_publication, probe_cleanup
<1>5. files' \in [installed : [KindSet -> Settings], temporary : [KindSet -> Settings]]
  <2>0. files \in [installed : [KindSet -> Settings], temporary : [KindSet -> Settings]]
    BY DEF ImagesTypeOK
  <2>1. CASE UNCHANGED files
    BY <2>0, <2>1
  <2>2. CASE sudo_install(i) \/ sudo_move(i)
    <3>1. Kind(i) \in KindSet
      BY <1>0, <2>2 DEF sudo_install, sudo_move, JobOK, Kind, KindSet, Kinds
    <3>2. Wanted(i, Kind(i)) \in Settings /\ none \in Settings
      BY <1>0, <2>2 DEF sudo_install, sudo_move, JobOK, Wanted, Settings, Commits, Task
    <3>3. \A f \in [KindSet -> Settings], v \in Settings : [f EXCEPT ![Kind(i)] = v] \in [KindSet -> Settings]
      OBVIOUS
    <3>4. files.temporary[Kind(i)] \in Settings
      BY <2>0, <3>1
    <3>5. CASE sudo_install(i)
      <4>1. files' = [files EXCEPT !.temporary = [files.temporary EXCEPT ![Kind(i)] = Wanted(i, Kind(i))]]
        BY <2>0, <3>5 DEF sudo_install
      <4> QED BY <2>0, <3>2, <3>3, <4>1
    <3>6. CASE sudo_move(i) /\ ~UNCHANGED files
      <4>1. files' = [files EXCEPT !.installed = [files.installed EXCEPT ![Kind(i)] = files.temporary[Kind(i)]],
                                   !.temporary = [files.temporary EXCEPT ![Kind(i)] = none]]
        BY <2>0, <3>6 DEF sudo_move
      <4> QED BY <2>0, <3>2, <3>3, <3>4, <4>1
    <3> QED BY <2>1, <2>2, <3>5, <3>6
  <2> QED BY <2>1, <2>2, Untouched
<1>6. server' \in [pc : {"off", "starting", "resolving", "up"}, there : BOOLEAN, image : Image]
  <2>1. [pc |-> "starting", there |-> FALSE, image |-> none]
           \in [pc : {"off", "starting", "resolving", "up"}, there : BOOLEAN, image : Image]
    BY DEF Image
  <2>2. UNCHANGED server \/ server' = [pc |-> "starting", there |-> FALSE, image |-> none]
    BY Untouched DEF restart
  <2> QED BY <2>1, <2>2 DEF ImagesTypeOK
<1>7. probed' \subseteq MainDisk
  <2>1. CASE probe_cleanup(i)
    BY <1>m, <2>1 DEF probe_cleanup, ImagesTypeOK, ImageBuilt, Finalized
  <2> QED BY <2>1, Untouched DEF ImagesTypeOK
<1>8. left' \subseteq {"lock"} \cup Names
  BY Untouched DEF ImagesTypeOK, cache_cleanup, cleanup, cleanup_failed_build, Crash, Names
<1>9. bounds' \in [runs : Nat, crashes : Nat, damage : Nat, starts : Nat]
  <2>0. bounds \in [runs : Nat, crashes : Nat, damage : Nat, starts : Nat]
    BY DEF ImagesTypeOK
  <2> QED BY <2>0, Untouched DEF Crash, Start
<1>10. lock' \in BOOLEAN
  BY LockEffect DEF ImagesTypeOK
<1>11. met' \subseteq Installers
  BY Untouched DEF ImagesTypeOK, Start, InstallsNow
<1> QED BY <1>1, <1>2, <1>3, <1>4, <1>5, <1>6, <1>7, <1>8, <1>9, <1>10, <1>11 DEF ImagesTypeOK, Mine

-----------------------------------------------------------------------------
(* How an installer comes to a step *)

LEMMA Whence ==
    ASSUME ImagesTypeOK, NEW i \in Installers, Works(i)
    PROVE  /\ job'[i].pc = "stage_files" => stage_generation(i)
           /\ job'[i].pc = "remove_dir" => probe_cleanup(i)
           /\ job'[i].pc = "publish" => remove_build_dir(i)
           /\ job'[i].pc = "link" => publish(i)
           /\ job'[i].pc = "current" => publish_link(i)
           /\ job'[i].pc = "file" => unlock(i) \/ install_file(i) \/ sudo_move(i)
           /\ job'[i].pc = "copy" => install_file(i)
           /\ job'[i].pc = "move" => sudo_install(i)
           /\ job'[i].pc = "restart" => install_file(i) \/ sudo_move(i)
<1>1. CASE CommandFails(i) \/ Crash(i)
  <2>1. job'[i].pc \in {"cache_cleanup", "cleanup", "ended"}
    BY <1>1, PcGoes DEF CommandFails, Fail, Crash
  <2> QED BY <2>1
<1>2. CASE \E task \in Tasks : Start(i, task)
  <2>1. job'[i].pc \in {"validate", "resolve", "lock"}
    BY <1>2 DEF Start, ImagesTypeOK
  <2> QED BY <2>1
<1>3. CASE Install(i) /\ ~(CommandFails(i) \/ Crash(i) \/ \E task \in Tasks : Start(i, task))
  BY <1>3, Targets DEF Install
<1>4. CASE Build(i)
  BY <1>4, Targets DEF Build
<1>5. CASE Publish(i)
  BY <1>5, Targets DEF Publish
<1> QED BY <1>1, <1>2, <1>3, <1>4, <1>5 DEF Works

-----------------------------------------------------------------------------
(* The steps of an installer keep the invariants *)

LEMMA LockWorks ==
    ASSUME ImagesTypeOK, LockInv, NEW i \in Installers, Works(i), Mine(i)
    PROVE  LockInv'
<1>1. \A j \in Installers \ {i} : Locking(j)' <=> Locking(j)
  BY DEF Mine, Locking, Building
<1>2. Locking(i)' => \/ Locking(i) /\ UNCHANGED lock
                     \/ ~lock /\ lock'
  BY LockEffect DEF LockInv
<1>3. lock => lock' \/ (Locking(i) /\ ~Locking(i)')
  BY LockEffect
<1> QED BY <1>1, <1>2, <1>3 DEF LockInv

LEMMA AloneInLock ==
    ASSUME LockInv, NEW i \in Installers, Locking(i), NEW j \in Installers \ {i}
    PROVE  /\ ~Locking(j) /\ ~Building(j)
           /\ job[j].pc \notin CacheSteps \cup MainSteps \cup LockedSteps
                               \cup {"cache_cleanup", "cleanup"} \cup ImageBuilt
BY StepNames DEF LockInv, Locking, Building, ImageBuilt, Finalized, Proven, MainSteps

\* A publisher is inside the lock, so nobody else touches what it publishes.
LEMMA PublishWorks ==
    ASSUME ImagesTypeOK, JobsInv, LockInv, PublishInv, NEW i \in Installers, Works(i), Mine(i)
    PROVE  PublishInv'
<1> USE DEF At
<1>0. /\ images \in [generations : SUBSET MainDisk,
                     staged : [image : MainDisk, whole : BOOLEAN] \cup {none},
                     current : Image, link : Image]
      /\ JobOK(job[i]) /\ job[i] \in Job
  BY DEF ImagesTypeOK, JobsInv
<1>l. images' # images => Locking(i)
  BY Untouched DEF stage_generation, stage_publication, discard, publish, publish_link,
     publish_current, Locking, Building, MainSteps
<1>p. probed \subseteq probed'
  BY Untouched DEF probe_cleanup
<1>g. images.generations \subseteq images'.generations
  BY <1>0, Untouched DEF stage_generation, stage_publication, discard, publish, publish_link,
     publish_current
<1>2. \A image : Published(image) => Published(image)'
  BY <1>p, <1>g DEF Published
<1>c. Published(images.current) => Published(images.current)'
  <2>1. CASE publish_current(i)
    <3>1. images'.current = images.link /\ images.link = job[i].disk
      BY <1>0, <2>1 DEF publish_current, PublishInv
    <3>2. job[i].disk \in images.generations /\ job[i].disk \in probed
      BY <2>1 DEF publish_current, PublishInv, Proven
    <3>3. job[i].disk.flaw = none
      <4>1. job[i].disk \in MainDisk /\ Cleared("current", job[i].disk.flaw)
        BY <1>0, <2>1 DEF publish_current, JobOK, ImageBuilt, Proven
      <4> QED BY <4>1, ImagesAssumption DEF MainDisk, Flaw, Cleared, Proven
    <3> QED BY <1>p, <1>g, <3>1, <3>2, <3>3 DEF Published
  <2>2. CASE ~publish_current(i)
    <3>1. images'.current = images.current
      BY <1>0, <2>2, Untouched DEF stage_generation, stage_publication, discard, publish,
         publish_link
    <3> QED BY <1>2, <3>1 DEF Published
  <2> QED BY <2>1, <2>2
<1>3. images'.current # none => Published(images.current)'
  <2>1. CASE publish_current(i)
    <3>1. images'.current = images.link /\ images.link = job[i].disk
      BY <1>0, <2>1 DEF publish_current, PublishInv
    <3>2. job[i].disk \in images.generations /\ job[i].disk \in probed
      BY <2>1 DEF publish_current, PublishInv, Proven
    <3>3. job[i].disk.flaw = none
      <4>1. job[i].disk \in MainDisk /\ Cleared("current", job[i].disk.flaw)
        BY <1>0, <2>1 DEF publish_current, JobOK, ImageBuilt, Proven
      <4> QED BY <4>1, ImagesAssumption DEF MainDisk, Flaw, Cleared, Proven
    <3> QED BY <1>p, <1>g, <3>1, <3>2, <3>3 DEF Published
  <2>2. CASE ~publish_current(i)
    <3>1. images'.current = images.current
      BY <1>0, <2>2, Untouched DEF stage_generation, stage_publication, discard, publish,
         publish_link
    <3> QED BY <1>c, <3>1 DEF PublishInv
  <2> QED BY <2>1, <2>2
<1>4. /\ server'.pc = "up" /\ server'.there => Published(server.image)'
      /\ server'.pc = "resolving" /\ server'.there => Published(images.current)'
  <2>1. CASE UNCHANGED server
    BY <1>2, <1>c, <2>1 DEF PublishInv, Published
  <2>2. CASE restart(i)
    BY <2>2 DEF restart
  <2> QED BY <2>1, <2>2, Untouched
<1>5. ASSUME NEW j \in Installers
      PROVE  /\ job'[j].pc = "stage_files" => images'.staged \in [image : MainDisk, whole : BOOLEAN]
             /\ job'[j].pc \in Proven => job'[j].disk \in probed'
             /\ job'[j].pc \in {"link", "current"} => job'[j].disk \in images'.generations
             /\ job'[j].pc = "current" => images'.link = job'[j].disk
  <2>1. CASE j # i
    <3>1. job'[j] = job[j]
      BY <2>1 DEF Mine
    <3>2. CASE images' = images
      BY <1>p, <3>1, <3>2 DEF PublishInv
    <3>3. CASE Locking(i)
      <4>1. job[j].pc \notin ImageBuilt
        BY <2>1, <3>3, AloneInLock
      <4> QED BY <3>1, <4>1 DEF ImageBuilt, Finalized, Proven
    <3> QED BY <1>l, <3>2, <3>3
  <2>2. CASE j = i
    <3>0. /\ job'[i] \in Job
          /\ job[i].pc \in ImageBuilt => job[i].disk \in MainDisk
      BY <1>0 DEF Mine, JobOK
    <3>1. CASE job'[i].pc = "stage_files"
      <4>1. stage_generation(i) /\ job[i].pc = "stage"
        BY <3>1, Whence DEF stage_generation
      <4>2. images'.staged = [image |-> job[i].disk, whole |-> FALSE]
        BY <1>0, <3>1, <4>1, PcGoes DEF stage_generation, Fail
      <4>3. images'.staged \in [image : MainDisk, whole : BOOLEAN]
        BY <3>0, <4>1, <4>2 DEF ImageBuilt, Finalized
      <4> QED BY <2>2, <3>1, <4>3 DEF Proven
    <3>2. CASE job'[i].pc = "remove_dir"
      <4>1. probe_cleanup(i) /\ job'[i].disk = job[i].disk
        BY <3>2, Whence, GoesTo, StepNames DEF probe_cleanup
      <4>2. job[i].disk \in probed'
        BY <3>2, <4>1, PcGoes DEF probe_cleanup
      <4> QED BY <2>2, <3>2, <4>1, <4>2
    <3>3. CASE job'[i].pc \in {"publish", "link", "current"}
      <4>1. /\ remove_build_dir(i) \/ publish(i) \/ publish_link(i)
            /\ job'[i].disk = job[i].disk /\ job[i].pc \in {"remove_dir", "publish", "link"}
        BY <3>3, Whence, GoesTo, StepNames DEF remove_build_dir, publish, publish_link
      <4>2. job[i].disk \in probed'
        BY <1>p, <4>1 DEF PublishInv, Proven
      <4>3. job'[i].pc = "link" => job[i].disk \in images'.generations
        <5>1. publish(i) => images'.generations = images.generations \cup {job[i].disk}
          BY <1>0 DEF publish
        <5> QED BY <5>1, Whence
      <4>4. job'[i].pc = "current" => /\ job[i].disk \in images'.generations
                                      /\ images'.link = job[i].disk
        BY <1>0, <1>g, Whence DEF publish_link, PublishInv
      <4> QED BY <2>2, <3>3, <4>1, <4>2, <4>3, <4>4
    <3> QED BY <2>2, <3>1, <3>2, <3>3 DEF Proven
  <2> QED BY <2>1, <2>2
<1> QED BY <1>3, <1>4, <1>5 DEF PublishInv

\* What an installer builds is cleaned up by it, or noted in left.
LEMMA BuildWorks ==
    ASSUME ImagesTypeOK, JobsInv, LockInv, BuildInv, NEW i \in Installers, Works(i), Mine(i)
    PROVE  BuildInv'
<1> USE DEF At
<1>0. /\ build \in [Names -> [dir : BOOLEAN, domain : BOOLEAN]] /\ "main" \in Names /\ "cache" \in Names
      /\ \A n \in Names : n = "main" \/ n = "cache"
  BY DEF ImagesTypeOK, Names
<1>a. \A j \in Installers \ {i} : job'[j] = job[j] /\ (Locking(j)' <=> Locking(j))
                                  /\ (Building(j)' <=> Building(j))
  BY DEF Mine, Locking, Building
<1>l. left \subseteq left'
  BY Untouched DEF cache_cleanup, cleanup, cleanup_failed_build, Crash
<1>m. ImageBuilt \subseteq MainSteps /\ {"publish", "link", "current"} \subseteq ImageBuilt
  BY DEF MainSteps, ImageBuilt, Finalized, Proven
<1>1. lock' => "lock" \in left' \/ \E j \in Installers : Locking(j)'
  <2>1. CASE UNCHANGED lock /\ (Locking(i)' <=> Locking(i))
    BY <1>a, <1>l, <2>1 DEF BuildInv
  <2>2. CASE job'[i].pc = "clean"
    BY <2>2 DEF Locking, LockedSteps
  <2>3. CASE Crash(i) /\ UNCHANGED lock
    <3>1. CASE Locking(i)
      BY <2>3, <3>1 DEF Crash
    <3>2. CASE ~Locking(i)
      BY <1>a, <1>l, <2>3, <3>2 DEF BuildInv
    <3> QED BY <3>1, <3>2
  <2> QED BY <2>1, <2>2, <2>3, LockEffect
\* Outside the lock nothing is built.
<1>2. CASE ~Locking(i)
  <2>1. UNCHANGED build
    BY <1>2, Untouched DEF build_image, cache_clear, cache_guest, cache_wait, cache_done,
       cache_cleanup, guest, wait, remove_build_dir, cleanup, Locking, Building, MainSteps,
       CacheSteps, LockedSteps
  <2>2. ~Building(i)' /\ ~Building(i) /\ job'[i].pc \notin MainSteps \cup {"cleanup"}
    <3>1. ~Locking(i)' \/ job'[i].pc = "clean"
      BY <1>2, LockEffect
    <3> QED BY <1>2, <3>1 DEF Locking, Building, MainSteps, CacheSteps
  <2> QED BY <1>1, <1>a, <1>l, <1>m, <2>1, <2>2 DEF BuildInv
\* Inside it, the other installers are out, and build nothing.
<1>3. CASE Locking(i)
  <2>0. \A j \in Installers \ {i} : ~Building(j)' /\ job'[j].pc \notin MainSteps \cup {"cleanup"}
    BY <1>a, <1>3, AloneInLock
  <2>1. SUFFICES
          /\ ~Building(i)' => \A n \in Names : build'[n] # NoBuild => n \in left'
          /\ job'[i].pc \in MainSteps \cup {"cleanup"} /\ build'["cache"] # NoBuild => "cache" \in left'
          /\ job'[i].pc \in ImageBuilt => ~build'["main"].domain
          /\ job'[i].pc \in {"publish", "link", "current"} => build'["main"] = NoBuild
    BY <1>1, <1>m, <2>0, <2>1 DEF BuildInv
  <2>b. ~Building(i) => \A n \in Names : build[n] # NoBuild => n \in left
    BY <1>3, AloneInLock DEF BuildInv
  <2>2. CASE Crash(i)
    <3>1. Names \subseteq left' /\ job'[i].pc = "ended"
      BY <1>3, <2>2, PcGoes DEF Crash
    <3> QED BY <1>0, <3>1 DEF MainSteps, ImageBuilt, Finalized, Proven
  <2>f. ASSUME Fail(i)
        PROVE  /\ job[i].pc \in CacheSteps => job'[i].pc = "cache_cleanup"
               /\ job[i].pc \in MainSteps => job'[i].pc = "cleanup"
               /\ job[i].pc \in LockedSteps => job'[i].pc = "ended"
    BY <2>f, PcGoes DEF Fail, Locking, Building, CacheSteps, MainSteps, LockedSteps
  <2>3. CASE CommandFails(i)
    <3>1. Fail(i) /\ job[i].pc \in CacheSteps \cup MainSteps \cup LockedSteps
          /\ UNCHANGED <<build, left>>
      BY <1>3, <2>3 DEF CommandFails, Locking, Building
    <3> QED BY <2>b, <2>f, <3>1 DEF BuildInv, Building, MainSteps, CacheSteps, LockedSteps,
            ImageBuilt, Finalized, Proven
  <2>4. CASE Clean(i) \/ source_image(i) \/ byobu_package(i) \/ installed_image_state(i) \/ unlock(i)
    <3>1. job[i].pc \in LockedSteps /\ job'[i].pc \in LockedSteps \cup {"file", "ended"}
      BY <2>4, Targets DEF LockedSteps
    <3>2. UNCHANGED <<build, left>>
      BY <2>4 DEF Clean, source_image, byobu_package, Download, installed_image_state, unlock,
         OnlyJob, installer
    <3> QED BY <2>b, <3>1, <3>2 DEF Building, MainSteps, CacheSteps, LockedSteps, ImageBuilt,
            Finalized, Proven
  <2>5. CASE build_image(i)
    <3>1. CASE Fail(i) /\ UNCHANGED build
      BY <1>l, <2>5, <2>b, <2>f, <3>1 DEF build_image, Building, MainSteps, CacheSteps, LockedSteps,
         ImageBuilt, Finalized, Proven
    <3>2. CASE Goes(i, "cache") /\ build["cache"] = NoBuild
               /\ build' = [build EXCEPT !["main"].dir = TRUE]
      <4>1. job'[i].pc = "cache" /\ build'["cache"] = NoBuild
        BY <1>0, <3>2, PcGoes
      <4> QED BY <4>1 DEF Building, MainSteps, ImageBuilt, Finalized, Proven
    <3> QED BY <1>0, <2>5, <3>1, <3>2 DEF build_image
  <2>6. CASE cache_ensure(i) \/ inputs(i) \/ guest(i)
    <3>1. /\ job[i].pc \in {"cache", "inputs", "guest"}
          /\ job'[i].pc \in {"inputs", "cache_clear", "guest", "wait", "cleanup"}
      BY <2>6, Targets
    <3>2. build'["cache"] = build["cache"]
      BY <1>0, <2>6 DEF cache_ensure, inputs, run_kvm_build, OnlyJob, installer, guest,
         start_kvm_build_guest
    <3> QED BY <1>l, <3>1, <3>2 DEF BuildInv, Building, MainSteps, CacheSteps, ImageBuilt, Finalized,
            Proven
  <2>7. CASE cache_clear(i)
    <3>1. CASE Fail(i) /\ UNCHANGED build
      BY <1>l, <2>7, <2>f, <3>1 DEF cache_clear, BuildInv, Building, MainSteps, ImageBuilt, Finalized,
         Proven
    <3>2. CASE Goes(i, "cache_inputs")
      BY <3>2, PcGoes DEF Building, MainSteps, CacheSteps, ImageBuilt, Finalized, Proven
    <3> QED BY <2>7, <3>1, <3>2 DEF cache_clear
  <2>8. CASE cache_inputs(i) \/ cache_guest(i) \/ cache_wait(i) \/ finalize_development_tools_cache(i)
             \/ cache_publish(i) \/ cache_manifest(i)
    <3>1. job'[i].pc \in CacheSteps \cup {"cache_cleanup"}
      BY <2>8, Targets DEF CacheSteps
    <3> QED BY <3>1 DEF Building, MainSteps, CacheSteps, ImageBuilt, Finalized, Proven
  <2>9. CASE cache_done(i) \/ cache_cleanup(i)
    <3>1. job'[i].pc \in {"inputs", "cleanup"}
      BY <2>9, Targets
    <3>2. build'["cache"] = NoBuild \/ "cache" \in left'
      BY <1>0, <2>9 DEF cache_done, cache_cleanup, cleanup_failed_build
    <3> QED BY <3>1, <3>2 DEF Building, MainSteps, ImageBuilt, Finalized, Proven
  <2>10. CASE wait(i)
    <3>1. job[i].pc = "wait" /\ job'[i].pc \in {"packages", "cleanup"}
      BY <2>10, Targets
    <3>2. build' = [build EXCEPT !["main"].domain = FALSE]
      BY <2>10 DEF wait, wait_for_shutdown
    <3>3. build'["cache"] = build["cache"] /\ ~build'["main"].domain
      BY <1>0, <3>2
    <3> QED BY <1>l, <3>1, <3>3 DEF BuildInv, Building, MainSteps, ImageBuilt, Finalized, Proven
  <2>11. CASE read_versions(i) \/ finalize_reusable_image(i) \/ stage_generation(i)
              \/ stage_publication(i) \/ verify_publication(i) \/ probe_cleanup(i) \/ discard(i)
              \/ publish(i) \/ publish_link(i)
    <3>1. /\ job[i].pc \in ImageBuilt /\ job'[i].pc \in ImageBuilt \cup {"cleanup"}
          /\ job'[i].pc \in {"publish", "link", "current"} => job[i].pc \in {"publish", "link"}
      BY <2>11, Targets DEF ImageBuilt, Finalized, Proven
    <3>2. UNCHANGED <<build, left>>
      BY <2>11 DEF read_versions, finalize_reusable_image, stage_generation, stage_publication,
         verify_publication, probe_cleanup, discard, publish, publish_link, OnlyImages
    <3> QED BY <1>m, <3>1, <3>2 DEF BuildInv, Building
  <2>12. CASE remove_build_dir(i)
    <3>1. job[i].pc = "remove_dir" /\ job'[i].pc = "publish"
      BY <2>12, Targets
    <3>2. build' = [build EXCEPT !["main"].dir = FALSE] /\ UNCHANGED left
      BY <2>12 DEF remove_build_dir, OnlyBuild
    <3>3. ~build["main"].domain
      BY <3>1 DEF BuildInv, ImageBuilt, Proven
    <3>4. build'["cache"] = build["cache"] /\ build'["main"] = NoBuild
      BY <1>0, <3>2, <3>3 DEF NoBuild
    <3> QED BY <3>1, <3>2, <3>4 DEF BuildInv, Building, MainSteps, NoBuild
  <2>13. CASE publish_current(i)
    <3>1. job[i].pc = "current" /\ job'[i].pc = "unlock" /\ UNCHANGED <<build, left>>
      BY <2>13, Targets DEF publish_current, OnlyImages
    <3> QED BY <1>0, <3>1 DEF BuildInv, MainSteps, ImageBuilt, Finalized, Proven
  <2>14. CASE cleanup(i)
    <3>1. job[i].pc = "cleanup" /\ job'[i].pc = "ended"
      BY <2>14, Targets
    <3>2. build'["main"] = NoBuild \/ "main" \in left'
      BY <1>0, <2>14 DEF cleanup, cleanup_failed_build
    <3>3. build'["cache"] = build["cache"]
      BY <1>0, <2>14 DEF cleanup, cleanup_failed_build
    <3> QED BY <1>0, <1>l, <3>1, <3>2, <3>3 DEF BuildInv, MainSteps, ImageBuilt, Finalized, Proven
  <2>15. Works(i) => \/ Crash(i) \/ CommandFails(i) \/ Clean(i) \/ source_image(i) \/ byobu_package(i)
                     \/ installed_image_state(i) \/ unlock(i) \/ Build(i) \/ Publish(i)
    <3>1. ASSUME NEW task \in Tasks, Start(i, task) PROVE FALSE
      BY <1>3, <3>1 DEF Start, Active, Locking, Building, MainSteps, CacheSteps, LockedSteps
    <3>2. job[i].pc \notin {"validate", "lock", "resolve", "verify", "file", "copy", "move", "restart"}
      BY <1>3 DEF Locking, Building, MainSteps, CacheSteps, LockedSteps
    <3> QED BY <3>1, <3>2 DEF Works, Install, require_installed_compatible, acquire,
            resolve_to_verify, verify, install_file, sudo_install, sudo_move, restart
  <2> QED BY <2>2, <2>3, <2>4, <2>5, <2>6, <2>7, <2>8, <2>9, <2>10, <2>11, <2>12, <2>13, <2>14, <2>15
          DEF Build, Publish
<1> QED BY <1>2, <1>3

\* No step but the start of a run changes what an installer was asked for.
LEMMA TaskKept ==
    ASSUME ImagesTypeOK, NEW i \in Installers, Works(i), \A task \in Tasks : ~Start(i, task)
    PROVE  job'[i].task = job[i].task /\ Active(i)
<1>1. job \in [Installers -> Job] /\ job[i] \in Job
  BY DEF ImagesTypeOK
<1>2. ASSUME NEW p, Goes(i, p) PROVE job'[i].task = job[i].task
  <2>1. job'[i] = [job[i] EXCEPT !.pc = p]
    BY <1>1, <1>2 DEF Goes
  <2> QED BY <1>1, <2>1 DEF Job
<1>3. ASSUME NEW p, NEW f \in {"base", "disk", "replace", "report"}, NEW v, Keeps(i, p, f, v)
      PROVE  job'[i].task = job[i].task
  <2>1. job'[i] = [[job[i] EXCEPT !.pc = p] EXCEPT ![f] = v]
    BY <1>1, <1>3 DEF Keeps
  <2> QED BY <1>1, <2>1 DEF Job
<1>4. AfterFile(i) => job'[i].task = job[i].task
  BY <1>1 DEF AfterFile, Job
<1>5. Fail(i) => job'[i].task = job[i].task
  BY <1>2 DEF Fail
<1>6. CASE Install(i)
  <2>1. Active(i)
    BY <1>6 DEF Install, require_installed_compatible, acquire, Clean, source_image, byobu_package,
       installed_image_state, resolve_to_verify, verify, unlock, install_file, sudo_install, sudo_move, restart,
       CommandFails, Crash, Active, At
  <2>2. \/ Fail(i) \/ AfterFile(i) \/ (\E p : Goes(i, p))
        \/ \E p : \E f \in {"base", "disk", "replace", "report"} : \E v : Keeps(i, p, f, v)
    BY <1>6 DEF Install, require_installed_compatible, acquire, Clean, source_image, byobu_package,
       Download, installed_image_state, resolve_to_verify, verify, unlock, install_file, sudo_install, sudo_move,
       restart, CommandFails, Crash
  <2> QED BY <1>2, <1>3, <1>4, <1>5, <2>1, <2>2
<1>7. CASE Build(i)
  <2>1. Active(i)
    BY <1>7 DEF Build, build_image, cache_ensure, cache_clear, cache_inputs, cache_guest, cache_wait,
       finalize_development_tools_cache, cache_publish, cache_manifest, cache_done, cache_cleanup,
       inputs, guest, wait, read_versions, finalize_reusable_image, cleanup, Active, At
  <2>2. \/ Fail(i) \/ (\E p : Goes(i, p))
        \/ \E p : \E f \in {"base", "disk", "replace", "report"} : \E v : Keeps(i, p, f, v)
    BY <1>7 DEF Build, build_image, cache_ensure, cache_clear, cache_inputs, cache_guest, cache_wait,
       finalize_development_tools_cache, cache_publish, cache_manifest, cache_done, cache_cleanup,
       inputs, guest, wait, read_versions, finalize_reusable_image, cleanup, run_kvm_build,
       start_kvm_build_guest, wait_for_shutdown
  <2> QED BY <1>2, <1>3, <1>5, <2>1, <2>2
<1>8. CASE Publish(i)
  <2>1. Active(i)
    BY <1>8 DEF Publish, stage_generation, stage_publication, verify_publication, probe_cleanup,
       discard, remove_build_dir, publish, publish_link, publish_current, Active, At
  <2>2. \/ Fail(i) \/ (\E p : Goes(i, p))
        \/ \E p : \E f \in {"base", "disk", "replace", "report"} : \E v : Keeps(i, p, f, v)
    BY <1>8 DEF Publish, stage_generation, stage_publication, verify_publication, probe_cleanup,
       discard, remove_build_dir, publish, publish_link, publish_current
  <2> QED BY <1>2, <1>3, <1>5, <2>1, <2>2
<1> QED BY <1>6, <1>7, <1>8 DEF Works

LEMMA StartedJob ==
    ASSUME ImagesTypeOK, NEW i \in Installers, NEW task \in Tasks, Start(i, task)
    PROVE  job'[i].task = task /\ job'[i].pc \in {"validate", "resolve", "lock"}
BY DEF Start, ImagesTypeOK

\* A step over a file leaves it as the installation wants it, if what it moves
\* is its own.
LEMMA FileDone ==
    ASSUME ImagesTypeOK, JobsInv, NEW i \in Installers, FilesDone(i), AfterFile(i),
           install_file(i) \/ sudo_move(i)
    PROVE  /\ job[i].file \in 1 .. 5 /\ job'[i].file = job[i].file + 1
           /\ job'[i].pc = IF job[i].file = 5 THEN "restart" ELSE "file"
           /\ \A n \in 1 .. job[i].file : files'.installed[Kinds[n]] = Wanted(i, Kinds[n])
<1>0. job \in [Installers -> Job] /\ job[i] \in Job /\ JobOK(job[i])
  BY DEF ImagesTypeOK, JobsInv
<1>1. job[i].pc \in {"file", "move"} /\ job[i].file \in 1 .. 5
  BY <1>0 DEF install_file, sudo_move, At, JobOK
<1>2. job'[i].file = job[i].file + 1 /\ job'[i].pc = IF job[i].file = 5 THEN "restart" ELSE "file"
  BY <1>0 DEF AfterFile, Job, Kinds
<1>3. /\ DOMAIN Kinds = 1 .. 5
      /\ \A m, n \in 1 .. 5 : Kinds[m] = Kinds[n] => m = n
      /\ \A n \in 1 .. 5 : Kinds[n] \in KindSet
  BY DEF Kinds, KindSet
<1>4. \A n \in 1 .. job[i].file - 1 : files.installed[Kinds[n]] = Wanted(i, Kinds[n])
  BY <1>1 DEF FilesDone
<1>5. files \in [installed : [KindSet -> Settings], temporary : [KindSet -> Settings]]
  BY DEF ImagesTypeOK
<1>6. CASE install_file(i)
  <2>1. job'[i].pc \in {"file", "restart"}
    BY <1>0 DEF AfterFile, Job
  <2>2. kept(i, Kind(i)) /\ UNCHANGED files
    BY <1>6, <2>1, PcGoes DEF install_file, OnlyJob, installer
  <2>3. files.installed[Kinds[job[i].file]] = Wanted(i, Kinds[job[i].file])
    BY <2>2 DEF kept, Kind
  <2> QED BY <1>1, <1>2, <1>4, <2>2, <2>3
<1>7. CASE sudo_move(i)
  <2>a. files.temporary[Kind(i)] = Wanted(i, Kind(i))
    BY <1>7 DEF sudo_move, At, FilesDone
  <2>b. job'[i].pc # "ended"
    BY <1>2
  <2>c. files' = [files EXCEPT !.installed[Kind(i)] = files.temporary[Kind(i)],
                               !.temporary[Kind(i)] = none]
    BY <1>7, <2>b, PcGoes DEF sudo_move
  <2>1. files'.installed = [files.installed EXCEPT ![Kinds[job[i].file]] = Wanted(i, Kinds[job[i].file])]
    BY <1>5, <2>a, <2>c DEF Kind
  <2>2. ASSUME NEW n \in 1 .. job[i].file
        PROVE  files'.installed[Kinds[n]] = Wanted(i, Kinds[n])
    <3>1. n \in 1 .. 5
      BY <1>1
    <3>2. CASE n = job[i].file
      BY <1>3, <1>5, <2>1, <3>1, <3>2
    <3>3. CASE n # job[i].file
      <4>1. n \in 1 .. job[i].file - 1 /\ Kinds[n] # Kinds[job[i].file]
        BY <1>1, <1>3, <3>1, <3>3
      <4> QED BY <1>3, <1>4, <1>5, <2>1, <3>1, <4>1
    <3> QED BY <3>2, <3>3
  <2> QED BY <1>1, <1>2, <2>2
<1> QED BY <1>6, <1>7

\* Two installations that are at work have met, and one that met no other is
\* the only one that touches the server's files.
LEMMA FilesWorks ==
    ASSUME ImagesTypeOK, JobsInv, FilesInv, NEW i \in Installers, Works(i), Mine(i)
    PROVE  FilesInv'
<1> USE DEF At, Task
<1>0. job \in [Installers -> Job] /\ job[i] \in Job /\ \A j \in Installers : JobOK(job[j])
  BY DEF ImagesTypeOK, JobsInv
<1>a. \A j \in Installers \ {i} : job'[j] = job[j]
  BY DEF Mine
<1>b. InstallsNow \subseteq Installers /\ met \subseteq Installers
  BY DEF InstallsNow, ImagesTypeOK
<1>1. ASSUME NEW j \in InstallsNow', NEW k \in InstallsNow', j # k
      PROVE  j \in met'
  <2>0. /\ j \in Installers /\ k \in Installers
        /\ j # i => j \in InstallsNow
        /\ k # i => k \in InstallsNow
    BY <1>a DEF InstallsNow, Active
  <2>1. CASE \A task \in Tasks : ~Start(i, task)
    <3>1. job'[i].task = job[i].task /\ Active(i)
      BY <2>1, TaskKept
    <3>2. j \in InstallsNow /\ k \in InstallsNow
      BY <1>1, <2>0, <3>1 DEF InstallsNow
    <3> QED BY <1>1, <2>1, <3>2, Untouched DEF FilesInv
  <2>2. ASSUME NEW task \in Tasks, Start(i, task) PROVE j \in met'
    <3>1. job'[i].task = task /\ i \notin InstallsNow
      BY <2>2, StartedJob DEF Start, InstallsNow
    <3>2. met' = IF task.op = "install" /\ InstallsNow # {} THEN met \cup InstallsNow \cup {i} ELSE met \ {i}
      BY <2>2 DEF Start
    <3>3. CASE j # i /\ k # i
      <4>1. j \in met /\ j # i
        BY <1>1, <2>0, <3>3 DEF FilesInv
      <4> QED BY <3>2, <4>1
    <3>4. CASE j = i \/ k = i
      <4>1. task.op = "install" /\ InstallsNow # {}
        BY <1>1, <2>0, <3>1, <3>4 DEF InstallsNow
      <4> QED BY <1>1, <2>0, <3>2, <4>1
    <3> QED BY <3>3, <3>4
  <2> QED BY <2>1, <2>2
<1>2. ASSUME NEW j \in Installers \ met', j # i
      PROVE  FilesDone(j)'
  <2>1. /\ job'[j] = job[j] /\ \A kind : Wanted(j, kind)' = Wanted(j, kind)
        /\ Kind(j)' = Kind(j)
    BY <1>2, <1>a DEF Wanted, Kind
  <2>2. j \notin met
    BY <1>2, Untouched DEF Start
  <2>3. CASE UNCHANGED files
    BY <2>1, <2>2, <2>3 DEF FilesInv, FilesDone
  <2>4. CASE sudo_install(i) \/ sudo_move(i)
    <3>1. i \in InstallsNow
      BY <1>0, <2>4 DEF sudo_install, sudo_move, Active, JobOK, Installing, InstallsNow
    <3>2. job[j].pc \in Installing => j \in InstallsNow
      BY <1>0 DEF JobOK, Installing, Active, InstallsNow
    <3>3. job[j].pc \notin Installing
      BY <1>2, <2>2, <3>1, <3>2 DEF FilesInv
    <3> QED BY <2>1, <3>3 DEF Installing, FilesDone
  <2> QED BY <2>3, <2>4, Untouched
<1>3. ASSUME i \notin met' PROVE FilesDone(i)'
  <2>0. SUFFICES ASSUME job'[i].pc \in Installing
        PROVE  FilesDone(i)'
    BY DEF Installing, FilesDone
  <2>1. unlock(i) \/ install_file(i) \/ sudo_install(i) \/ sudo_move(i)
    BY <2>0, Whence DEF Installing
  <2>2. job'[i].task = job[i].task /\ i \notin met
    <3>1. \A task \in Tasks : ~Start(i, task)
      BY <2>1 DEF Start, Active, unlock, install_file, sudo_install, sudo_move
    <3> QED BY <1>3, <3>1, TaskKept, Untouched
  <2>3. (\A kind : Wanted(i, kind)' = Wanted(i, kind)) /\ FilesDone(i)
    BY <2>2 DEF Wanted, FilesInv
  <2>4. CASE AfterFile(i) /\ (install_file(i) \/ sudo_move(i))
    <3>1. /\ job[i].file \in 1 .. 5 /\ job'[i].file = job[i].file + 1
          /\ job'[i].pc = IF job[i].file = 5 THEN "restart" ELSE "file"
          /\ \A n \in 1 .. job[i].file : files'.installed[Kinds[n]] = Wanted(i, Kinds[n])
      BY <2>3, <2>4, FileDone
    <3>2. CASE job[i].file = 5
      BY <2>3, <3>1, <3>2 DEF FilesDone
    <3>3. CASE job[i].file # 5
      BY <2>3, <3>1, <3>3 DEF FilesDone
    <3> QED BY <3>2, <3>3
  <2>5. CASE unlock(i)
    <3>1. job'[i].pc \in {"file", "ended"} /\ job'[i].file = job[i].file
      BY <2>5, GoesTo, StepNames DEF unlock
    <3>2. job[i].file = 1
      BY <1>0, <2>5 DEF unlock, JobOK
    <3> QED BY <3>1, <3>2 DEF FilesDone
  <2>6. CASE install_file(i) /\ Goes(i, "copy")
    <3>1. job'[i].pc = "copy" /\ job'[i].file = job[i].file /\ job[i].pc = "file"
      BY <2>6, GoesTo, StepNames DEF install_file
    <3>2. UNCHANGED files
      BY <2>6 DEF install_file, OnlyJob, installer
    <3> QED BY <2>3, <3>1, <3>2 DEF FilesDone
  <2>7. CASE sudo_install(i)
    <3>1. job'[i].pc = "move" /\ job'[i].file = job[i].file /\ job[i].pc = "copy"
      BY <2>7, GoesTo, StepNames DEF sudo_install
    <3>2. files \in [installed : [KindSet -> Settings], temporary : [KindSet -> Settings]]
      BY DEF ImagesTypeOK
    <3>3. Kind(i) \in KindSet /\ Kind(i)' = Kind(i)
      BY <1>0, <3>1 DEF JobOK, Kind, KindSet, Kinds
    <3>4. files'.installed = files.installed /\ files'.temporary[Kind(i)] = Wanted(i, Kind(i))
      BY <2>7, <3>2, <3>3 DEF sudo_install
    <3> QED BY <2>3, <3>1, <3>3, <3>4 DEF FilesDone
  <2>8. CASE Goes(i, "ended")
    BY <2>0, <2>8, PcGoes DEF Installing
  <2> QED BY <2>1, <2>4, <2>5, <2>6, <2>7, <2>8 DEF install_file, sudo_move
<1> QED BY <1>1, <1>2, <1>3 DEF FilesInv

-----------------------------------------------------------------------------
(* The server, the operator, and the theorems *)

\* A step that no installer takes.
Outside == \/ ServerStarts \/ resolve \/ load_runtime_from
           \/ Damage \/ RemoveStaleLock \/ clear \/ nuke \/ UNCHANGED vars

LEMMA OutsideKeeps ==
    ASSUME ImagesInv, Outside
    PROVE  ImagesInv'
<1> USE DEF At, Task
<1>0. ImagesTypeOK /\ JobsInv /\ LockInv /\ PublishInv /\ BuildInv /\ FilesInv
  BY DEF ImagesInv
<1>j. job' = job /\ \A i \in Installers : /\ Locking(i)' <=> Locking(i)
                                          /\ Building(i)' <=> Building(i)
                                          /\ Active(i)' <=> Active(i)
                                          /\ \A kind : Wanted(i, kind)' = Wanted(i, kind)
  BY DEF Outside, ServerStarts, resolve, load_runtime_from, Damage, RemoveStaleLock, clear, nuke, vars,
     Locking, Building, Active, Wanted
<1>k. UNCHANGED met /\ InstallsNow' = InstallsNow /\ \A i \in Installers : Kind(i)' = Kind(i)
  BY <1>j DEF Outside, ServerStarts, resolve, load_runtime_from, Damage, RemoveStaleLock, clear, nuke,
     vars, environment, InstallsNow, Kind, Active
<1>i. clear \/ nuke => \A i \in Installers : job[i].pc = "ended" /\ ~Locking(i) /\ ~Building(i)
  BY DEF clear, nuke, Idle, Active, Locking, Building, MainSteps, CacheSteps, LockedSteps
<1>1. ImagesTypeOK'
  <2>1. CASE ServerStarts
    <3>1. bounds' \in [runs : Nat, crashes : Nat, damage : Nat, starts : Nat]
      BY <1>0, <2>1 DEF ServerStarts, ImagesTypeOK
    <3>2. server' \in [pc : {"off", "starting", "resolving", "up"}, there : BOOLEAN, image : Image]
      BY <2>1 DEF ServerStarts, Image
    <3> QED BY <1>0, <2>1, <3>1, <3>2 DEF ServerStarts, ImagesTypeOK, installer
  <2>2. CASE resolve
    <3>1. server' \in [pc : {"off", "starting", "resolving", "up"}, there : BOOLEAN, image : Image]
      BY <1>0, <2>2 DEF resolve, ImagesTypeOK
    <3> QED BY <1>0, <2>2, <3>1 DEF resolve, ImagesTypeOK, installer
  <2>3. CASE load_runtime_from
    <3>1. server' \in [pc : {"off", "starting", "resolving", "up"}, there : BOOLEAN, image : Image]
      BY <1>0, <2>3 DEF load_runtime_from, ImagesTypeOK, Image
    <3> QED BY <1>0, <2>3, <3>1 DEF load_runtime_from, ImagesTypeOK, installer
  <2>4. CASE Damage
    <3>1. bounds' \in [runs : Nat, crashes : Nat, damage : Nat, starts : Nat]
      BY <1>0, <2>4 DEF Damage, ImagesTypeOK
    <3> QED BY <1>0, <2>4, <3>1 DEF Damage, ImagesTypeOK, installer
  <2>5. CASE RemoveStaleLock
    BY <1>0, <2>5 DEF RemoveStaleLock, ImagesTypeOK, environment
  <2>6. CASE clear \/ nuke
    <3>1. server' \in [pc : {"off", "starting", "resolving", "up"}, there : BOOLEAN, image : Image]
      <4>1. server' = [pc |-> "off", there |-> FALSE, image |-> none]
        BY <2>6 DEF clear, nuke
      <4> QED BY <4>1 DEF Image
    <3>2. build' \in [Names -> [dir : BOOLEAN, domain : BOOLEAN]]
      <4>1. build' = [n \in Names |-> NoBuild]
        BY <2>6 DEF clear, nuke
      <4> QED BY <4>1 DEF NoBuild
    <3>3. files' \in [installed : [KindSet -> Settings], temporary : [KindSet -> Settings]]
      <4>1. files.installed \in [KindSet -> Settings] /\ files.temporary \in [KindSet -> Settings]
            /\ none \in Settings
        BY <1>0 DEF ImagesTypeOK, Settings
      <4>2. NoFiles \in [KindSet -> Settings] /\ "wts" \in KindSet
        BY <4>1 DEF NoFiles, KindSet, Kinds
      <4>3. \A f \in [KindSet -> Settings] : WithoutConfig(f) \in [KindSet -> Settings]
        BY <4>1 DEF WithoutConfig
      <4>4. [NoFiles EXCEPT !["wts"] = files.installed["wts"]] \in [KindSet -> Settings]
        BY <4>1, <4>2
      <4> QED BY <2>6, <4>1, <4>3, <4>4 DEF clear, nuke
    <3>4. /\ imgs' \in [source : Downloads, byobu : Downloads,
                 image : CacheDisk \cup {none}, manifest : CacheDisk \cup {none}, new : BOOLEAN]
          /\ images' \in [generations : SUBSET MainDisk,
                   staged : [image : MainDisk, whole : BOOLEAN] \cup {none},
                   current : Image, link : Image]
      <4>1. CASE UNCHANGED <<imgs, images>>
        BY <1>0, <4>1 DEF ImagesTypeOK
      <4>2. CASE imgs' = NoImgs /\ images' = NoImages
        BY <4>2 DEF NoImgs, NoImages, Image, Downloads
      <4> QED BY <2>6, <4>1, <4>2 DEF clear, nuke
    <3>5. /\ job' \in [Installers -> Job] /\ lock' \in BOOLEAN /\ probe' \in BOOLEAN
          /\ met' \subseteq Installers
          /\ probed' \subseteq MainDisk /\ left' \subseteq {"lock"} \cup Names
          /\ bounds' \in [runs : Nat, crashes : Nat, damage : Nat, starts : Nat]
      BY <1>0, <2>6 DEF clear, nuke, ImagesTypeOK
    <3> QED BY <3>1, <3>2, <3>3, <3>4, <3>5 DEF ImagesTypeOK
  <2>7. CASE UNCHANGED vars
    BY <1>0, <2>7 DEF vars, ImagesTypeOK
  <2> QED BY <2>1, <2>2, <2>3, <2>4, <2>5, <2>6, <2>7 DEF Outside
<1>2. JobsInv'
  BY <1>0, <1>j DEF JobsInv
<1>3. LockInv'
  <2>1. CASE UNCHANGED lock
    BY <1>0, <1>j, <2>1 DEF LockInv
  <2>2. CASE \A i \in Installers : ~Locking(i)
    BY <1>0, <1>j, <2>2 DEF LockInv
  <2> QED BY <1>i, <2>1, <2>2 DEF Outside, ServerStarts, resolve, load_runtime_from, Damage,
          RemoveStaleLock, clear, vars, installer
<1>4. PublishInv'
  <2>1. CASE UNCHANGED <<images, probed, server>>
    BY <1>0, <1>j, <2>1 DEF PublishInv, Published
  <2>2. CASE UNCHANGED <<images, probed>> /\ server'.pc \in {"off", "starting"}
    BY <1>0, <1>j, <2>2 DEF PublishInv, Published
  <2>3. CASE resolve
    <3>1. \/ server'.pc = "off"
          \/ server'.pc = "resolving" /\ server'.there = (images.current # none)
      BY <1>0, <2>3 DEF resolve, ImagesTypeOK
    <3>2. UNCHANGED <<images, probed>>
      BY <2>3 DEF resolve, installer
    <3> QED BY <1>0, <1>j, <3>1, <3>2 DEF PublishInv, Published
  <2>4. CASE load_runtime_from
    <3>1. /\ server'.pc = "up" /\ server'.there = server.there
          /\ server.there => server'.image = images.current
      BY <1>0, <2>4 DEF load_runtime_from, ImagesTypeOK
    <3>2. UNCHANGED <<images, probed>> /\ server.pc = "resolving"
      BY <2>4 DEF load_runtime_from, installer
    <3> QED BY <1>0, <1>j, <3>1, <3>2 DEF PublishInv, Published
  <2>5. CASE nuke
    <3>1. images' = NoImages /\ server'.pc = "off"
      BY <2>5 DEF nuke
    <3> QED BY <1>i, <1>j, <2>5, <3>1 DEF PublishInv, NoImages, Proven
  <2> QED BY <2>1, <2>2, <2>3, <2>4, <2>5 DEF Outside, ServerStarts, Damage, RemoveStaleLock, clear,
          vars, installer, environment
<1>5. BuildInv'
  <2>1. CASE UNCHANGED <<build, lock, left>>
    BY <1>0, <1>j, <2>1 DEF BuildInv
  <2>2. CASE RemoveStaleLock
    <3>1. ~lock' /\ UNCHANGED build /\ \A n \in Names : n \in left => n \in left'
      BY <2>2 DEF RemoveStaleLock, Names
    <3> QED BY <1>0, <1>j, <3>1 DEF BuildInv, Names
  <2>3. CASE clear \/ nuke
    <3>1. /\ build' = [n \in Names |-> NoBuild] /\ "cache" \in Names /\ "main" \in Names
          /\ lock' => lock /\ ("lock" \in left => "lock" \in left')
      BY <2>3 DEF clear, nuke, Names
    <3> QED BY <1>0, <1>i, <1>j, <2>3, <3>1 DEF BuildInv, ImageBuilt, Finalized, Proven
  <2> QED BY <2>1, <2>2, <2>3 DEF Outside, ServerStarts, resolve, load_runtime_from, Damage, vars,
          installer
<1>6. FilesInv'
  <2>1. CASE UNCHANGED files
    BY <1>0, <1>j, <1>k, <2>1 DEF FilesInv, FilesDone
  <2>2. CASE \A i \in Installers : job[i].pc = "ended"
    BY <1>0, <1>j, <1>k, <2>2 DEF FilesInv, FilesDone
  <2> QED BY <1>i, <2>1, <2>2 DEF Outside, ServerStarts, resolve, load_runtime_from, Damage,
          RemoveStaleLock, vars, installer
<1> QED BY <1>1, <1>2, <1>3, <1>4, <1>5, <1>6 DEF ImagesInv

LEMMA ImagesInit == Init => ImagesInv
<1> SUFFICES ASSUME Init PROVE ImagesInv
  OBVIOUS
<1> USE DEF At
<1>0. \A i \in Installers : job[i] = [pc |-> "ended", task |-> none, base |-> none, disk |-> none,
                                      file |-> 0, replace |-> FALSE, report |-> none]
  BY DEF Init
<1>1. ImagesTypeOK
  <2>1. job \in [Installers -> Job]
    BY StepNames DEF Init, Job, Image
  <2>2. files \in [installed : [KindSet -> Settings], temporary : [KindSet -> Settings]]
    BY DEF Init, NoFiles, KindSet, Settings
  <2>3. build \in [Names -> [dir : BOOLEAN, domain : BOOLEAN]]
    BY DEF Init, NoBuild
  <2>4. /\ imgs \in [source : Downloads, byobu : Downloads,
                 image : CacheDisk \cup {none}, manifest : CacheDisk \cup {none}, new : BOOLEAN]
        /\ images \in [generations : SUBSET MainDisk,
                   staged : [image : MainDisk, whole : BOOLEAN] \cup {none},
                   current : Image, link : Image]
        /\ server \in [pc : {"off", "starting", "resolving", "up"}, there : BOOLEAN, image : Image]
    BY DEF Init, NoImgs, NoImages, Image, Downloads
  <2> QED BY <2>1, <2>2, <2>3, <2>4 DEF Init, ImagesTypeOK
<1>2. JobsInv
  BY <1>0, EndOK DEF JobsInv, Reported
<1>3. \A i \in Installers : ~Locking(i) /\ ~Active(i)
  BY <1>0 DEF Locking, Building, Active, MainSteps, CacheSteps, LockedSteps
<1>4. LockInv /\ FilesInv
  BY <1>0, <1>3 DEF LockInv, FilesInv, FilesDone, InstallsNow
<1>5. PublishInv
  BY <1>0 DEF Init, PublishInv, NoImages, Proven
<1>6. BuildInv
  BY <1>0 DEF Init, BuildInv, MainSteps, ImageBuilt, Finalized, Proven
<1> QED BY <1>1, <1>2, <1>4, <1>5, <1>6 DEF ImagesInv

LEMMA ImagesStep == ImagesInv /\ [Next]_vars => ImagesInv'
<1> SUFFICES ASSUME ImagesInv, [Next]_vars PROVE ImagesInv'
  OBVIOUS
<1>0. ImagesTypeOK /\ JobsInv /\ LockInv /\ PublishInv /\ BuildInv /\ FilesInv
  BY DEF ImagesInv
<1>1. ASSUME NEW i \in Installers, Works(i) PROVE ImagesInv'
  <2>1. Mine(i) /\ JobOK(job'[i])
    BY <1>0, <1>1, JobsInstall, JobsBuild, JobsPublish DEF Works
  <2>2. JobsInv'
    BY <1>0, <2>1 DEF JobsInv, Mine
  <2>3. ImagesTypeOK' /\ LockInv' /\ PublishInv' /\ BuildInv' /\ FilesInv'
    BY <1>0, <1>1, <2>1, TypeRest, LockWorks, PublishWorks, BuildWorks, FilesWorks
  <2> QED BY <2>2, <2>3 DEF ImagesInv
<1>2. CASE Outside
  BY <1>2, OutsideKeeps
<1> QED BY <1>1, <1>2 DEF Next, Works, Outside

LEMMA ImagesAlways == Spec => []ImagesInv
BY ImagesInit, ImagesStep, PTL DEF Spec

\* What the pointer names at any moment, and what a server that is up
\* resolved, is a generation in place that passed the checks of the builder
\* and was booted by the probe: `publish` renames a whole directory and then
\* the link, inside the lock, whatever crashes, fails or starts meanwhile.
THEOREM PointerNamesWhole == Spec => []ReadersSeeWhole
<1>1. ImagesInv => ReadersSeeWhole
  BY DEF ImagesInv, PublishInv, ReadersSeeWhole
<1> QED BY <1>1, ImagesAlways, PTL

\* An installer reports only an image of its own commit, and on the tools of
\* its own checkout and input if it built it; and an installation that met no
\* other restarts the server over its own files, whatever was left there.
THEOREM ReportsFit == Spec => []ReadyFits
<1>1. ImagesInv => ReadyFits
  <2>1. DOMAIN Kinds = 1 .. 5
    BY DEF Kinds
  <2> QED BY <2>1 DEF ImagesInv, JobsInv, JobOK, Reported, FilesInv, FilesDone, ReadyFits, Task, At
<1> QED BY <1>1, ImagesAlways, PTL

\* With no installer at work, a lock, a build directory or a domain is there
\* only if somebody was killed or a cleanup failed too: every early return of
\* the builder passes through cleanup_failed_build and drops the lock.
THEOREM FailuresCleaned == Spec => []FailuresCleanUp
<1>1. ImagesInv => FailuresCleanUp
  <2>1. (\A i \in Installers : ~Locking(i)) => \A i \in Installers : ~Building(i)
    BY DEF Locking
  <2> QED BY <2>1 DEF ImagesInv, BuildInv, FailuresCleanUp
<1> QED BY <1>1, ImagesAlways, PTL

=============================================================================
