------------------------------- MODULE Images -------------------------------
(***************************************************************************)
(* The installer of a server: golden images built in a guest, published as *)
(* generations behind one pointer, and the files of the server.  Several   *)
(* installers run on a host, any command of theirs may fail, they may be   *)
(* killed, and the server starts when it likes.  Only the image is made    *)
(* under a lock: two installations meet over the files of the server.  The *)
(* content of an image is the commit, the identity of the tools cache it   *)
(* was built on, what is wrong with it, and a mark that tells builds       *)
(* apart; a checksum is the content itself, and so is the name of a        *)
(* generation, which is a checksum of its manifest.                        *)
(***************************************************************************)
EXTENDS Integers, FiniteSets, Sequences

CONSTANTS
    Installers,    \* processes of the installer
    Tasks,         \* what they do: [op, commit, config, source, disk]
    Identity,      \* of a tools cache, by commit, source image and disk size
    Marks,         \* what two builds of one commit may differ in
    Flaws,         \* what may be wrong with a disk that a guest leaves
    MaxRuns,       \* bound: runs of installers
    MaxCrashes,    \* bound: installers killed
    MaxDamage,     \* bound: files damaged on disk
    MaxServerStarts, \* bound: starts of the server
    none

\* The flaws are those that some check of the builder or the probe looks for.
ASSUME ImagesAssumption ==
    /\ Flaws \subseteq {"result", "packages", "unsanitized", "contract", "changed", "boot"}
    /\ \A task \in Tasks : task.source \notin {none, "partial"}

VARIABLES
    job,       \* by installer: step, task, base, disk, file, replace, report
    lock,      \* the file /run/wt-image-build/lock is there
    build,     \* by build name: its directory and its domain
    imgs,      \* downloads, and the tools cache: image, manifest, .new
    images,    \* generations, a temporary one, the pointer, a temporary one
    probe,     \* the probe's machine or marker is there
    files,     \* files of the server that are installed, and temporaries
    server,    \* the server: its step, whether it saw a pointer, its image
    damaged,   \* images on disk whose bytes were damaged
    probed,    \* history: images that were booted and probed
    left,      \* history: what a crash or a failed cleanup may leave
    met,       \* history: installers whose installation met another one
    bounds     \* runs, crashes, damage, starts so far

installer == <<build, imgs, images, probe, files, probed, left, lock>>
environment == <<server, damaged, met, bounds>>
vars == <<job, lock, build, imgs, images, probe, files, server, damaged, probed, left, met, bounds>>

Names == {"main", "cache"}
Kinds == <<"wts", "config", "capacity", "credentials", "service">>
NoFiles == [k \in {Kinds[n] : n \in DOMAIN Kinds} |-> none]
NoImgs == [source |-> none, byobu |-> none, image |-> none, manifest |-> none, new |-> FALSE]
NoImages == [generations |-> {}, staged |-> none, current |-> none, link |-> none]
NoBuild == [dir |-> FALSE, domain |-> FALSE]

Init ==
    /\ job = [i \in Installers |-> [pc |-> "ended", task |-> none, base |-> none, disk |-> none,
                                    file |-> 0, replace |-> FALSE, report |-> none]]
    /\ lock = FALSE
    /\ build = [n \in Names |-> NoBuild]
    /\ imgs = NoImgs
    /\ images = NoImages
    /\ probe = FALSE
    /\ files = [installed |-> NoFiles, temporary |-> NoFiles]
    /\ server = [pc |-> "off", there |-> FALSE, image |-> none]
    /\ damaged = {} /\ probed = {} /\ left = {} /\ met = {}
    /\ bounds = [runs |-> 0, crashes |-> 0, damage |-> 0, starts |-> 0]
-----------------------------------------------------------------------------
Task(i) == job[i].task
At(i, pc) == job[i].pc = pc
Active(i) == ~At(i, "ended")
LockedSteps == {"clean", "source", "byobu", "installed", "dir", "unlock"}
CacheSteps == {"cache_inputs", "cache_guest", "cache_wait", "cache_finish", "cache_publish", "cache_manifest",
               "cache_done"}
MainSteps == {"cache", "cache_clear", "inputs", "guest", "wait", "packages", "finalize", "stage",
              "stage_files", "probe", "probing", "discard", "remove_dir", "publish", "link",
              "current"}
Building(i) == job[i].pc \in CacheSteps \union MainSteps \union {"cache_cleanup", "cleanup"}
Locking(i) == Building(i) \/ job[i].pc \in LockedSteps

Goes(i, pc) == job' = [job EXCEPT ![i].pc = pc]
Keeps(i, pc, field, value) == job' = [job EXCEPT ![i].pc = pc, ![i][field] = value]

\* An error: a build is cleaned up, or the lock is dropped and the run ends.
Fail(i) ==
    \/ job[i].pc \in CacheSteps /\ Goes(i, "cache_cleanup") /\ UNCHANGED lock
    \/ job[i].pc \in MainSteps /\ Goes(i, "cleanup") /\ UNCHANGED lock
    \/ job[i].pc \in LockedSteps /\ Goes(i, "ended") /\ lock' = FALSE
    \/ ~Locking(i) /\ Goes(i, "ended") /\ UNCHANGED lock

\* A command of the step fails and changes nothing.
CommandFails(i) ==
    /\ Active(i) /\ job[i].pc \notin {"cache_cleanup", "cleanup", "unlock"}
    /\ ~At(i, "discard") /\ ~At(i, "probing")
    /\ Fail(i)
    /\ UNCHANGED <<build, imgs, images, probe, files, probed, left, environment>>

\* What a step leaves alone when it changes the job and one thing more.
OnlyJob == UNCHANGED <<installer, environment>>
OnlyImgs == UNCHANGED <<lock, build, images, probe, files, probed, left, environment>>
OnlyImages == UNCHANGED <<lock, build, imgs, probe, files, probed, left, environment>>
OnlyBuild == UNCHANGED <<lock, imgs, images, probe, files, probed, left, environment>>
-----------------------------------------------------------------------------
(* Runs of the installer, up to the image *)

\* The installations at work.
InstallsNow == {j \in Installers : Active(j) /\ Task(j).op = "install"}

Start(i, task) ==
    /\ ~Active(i) /\ bounds.runs < MaxRuns
    /\ met' = IF task.op = "install" /\ InstallsNow # {} THEN met \union InstallsNow \union {i}
              ELSE met \ {i}
    /\ bounds' = [bounds EXCEPT !.runs = @ + 1]
    /\ job' = [job EXCEPT ![i] = [pc |-> CASE task.op = "install" -> "validate"
                                           [] task.op = "verify" -> "resolve"
                                           [] OTHER -> "lock",
                                  task |-> task, base |-> none, disk |-> none, file |-> 1,
                                  replace |-> FALSE, report |-> none]]
    /\ UNCHANGED <<installer, server, damaged>>

Compatible(i, kind) == files.installed[kind] \in {none, Task(i).config}

require_installed_compatible(i) ==
    /\ At(i, "validate")
    /\ \/ /\ Compatible(i, "config") /\ Compatible(i, "capacity")
          /\ Keeps(i, "lock", "replace", files.installed["config"] = none)
          /\ UNCHANGED lock
       \/ ~(Compatible(i, "config") /\ Compatible(i, "capacity")) /\ Fail(i)
    /\ UNCHANGED <<build, imgs, images, probe, files, probed, left, environment>>

acquire(i) ==
    /\ At(i, "lock")
    /\ IF lock THEN Fail(i) ELSE lock' = TRUE /\ Goes(i, "clean")
    /\ UNCHANGED <<build, imgs, images, probe, files, probed, left, environment>>

require_clean_build_state == build["main"] = NoBuild
require_clean_publication_state == images.staged = none /\ images.link = none

Clean(i) ==
    /\ At(i, "clean")
    /\ IF require_clean_build_state /\ require_clean_publication_state
       THEN Goes(i, "source") /\ UNCHANGED lock ELSE Fail(i)
    /\ UNCHANGED <<build, imgs, images, probe, files, probed, left, environment>>

\* A download is a temporary until its checksum fits; one that broke off
\* stays, and a file of another checksum is refused.
Download(i, file, wanted, next) ==
    /\ \/ imgs[file] = wanted /\ Goes(i, next) /\ UNCHANGED <<imgs, lock>>
       \/ imgs[file] \notin {none, wanted} /\ Fail(i) /\ UNCHANGED imgs
       \/ /\ imgs[file] = none
          /\ \/ imgs' = [imgs EXCEPT ![file] = wanted] /\ Goes(i, next) /\ UNCHANGED lock
             \/ imgs' = [imgs EXCEPT ![file] = "partial"] /\ Fail(i)
    /\ UNCHANGED <<build, images, probe, files, probed, left, environment>>

source_image(i) == At(i, "source") /\ Download(i, "source", Task(i).source, "byobu")
byobu_package(i) == At(i, "byobu") /\ Download(i, "byobu", "pinned", "installed")

\* Of the install input and the tools, the manifest of an image says nothing.
verify_installed_image(i, image) ==
    /\ image # none
    /\ image.commit = Task(i).commit
    /\ image \notin damaged

installed_image_state(i) ==
    /\ At(i, "installed")
    /\ IF Task(i).op # "rebuild" /\ verify_installed_image(i, images.current)
       THEN Keeps(i, "unlock", "report", images.current) ELSE Goes(i, "dir")
    /\ OnlyJob

\* `verify` resolves the pointer, then reads what it named; it takes no lock.
resolve_to_verify(i) == At(i, "resolve") /\ Keeps(i, "verify", "disk", images.current) /\ OnlyJob

verify(i) ==
    /\ At(i, "verify")
    /\ IF verify_installed_image(i, job[i].disk)
       THEN Keeps(i, "ended", "report", job[i].disk) ELSE Goes(i, "ended")
    /\ OnlyJob

build_image(i) ==
    /\ At(i, "dir")
    /\ \/ /\ \A n \in Names : build[n] = NoBuild
          /\ build' = [build EXCEPT !["main"].dir = TRUE]
          /\ Goes(i, "cache") /\ UNCHANGED lock
       \/ (\E n \in Names : build[n] # NoBuild) /\ Fail(i) /\ UNCHANGED build
    /\ UNCHANGED <<imgs, images, probe, files, probed, left, environment>>
-----------------------------------------------------------------------------
(* A build in a guest, for the tools cache and for the image *)

\* A disk is made of the source image, or cloned from the cache, and the
\* recipes and inputs are uploaded to it.
run_kvm_build(i, source, next) == Keeps(i, next, "disk", source) /\ OnlyJob

\* The domain is made and started; a failure may leave it.
start_kvm_build_guest(i, name, next) ==
    /\ \/ Goes(i, next) /\ UNCHANGED lock
       \/ Fail(i)
    /\ build' = [build EXCEPT ![name].domain = TRUE]
    /\ UNCHANGED <<imgs, images, probe, files, probed, left, environment>>

validate_result(disk) == disk.flaw # "result"

\* The guest shuts down and its result is read, or it overruns its time.
wait_for_shutdown(i, name, disk, next) ==
    /\ build' = [build EXCEPT ![name].domain = FALSE]
    /\ IF validate_result(disk) THEN Keeps(i, next, "disk", disk) /\ UNCHANGED lock ELSE Fail(i)
    /\ UNCHANGED <<imgs, images, probe, files, probed, left, environment>>

\* The domain goes before the directory; what cannot be removed is left.
cleanup_failed_build(name) ==
    \/ build' = [build EXCEPT ![name] = NoBuild] /\ UNCHANGED left
    \/ left' = left \union {name} /\ UNCHANGED build
    \/ left' = left \union {name} /\ build' = [build EXCEPT ![name].domain = FALSE]

identity(task) == Identity[task.commit, task.source, task.disk]

\* Mutant: the identity in the manifest of the cache is not compared.
cached_any_tools(i) == imgs.image # none /\ imgs.manifest = imgs.image /\ imgs.image \notin damaged

cached(i) ==
    /\ imgs.image # none /\ imgs.manifest = imgs.image /\ imgs.image \notin damaged
    /\ imgs.manifest.identity = identity(Task(i))

cache_ensure(i) ==
    /\ At(i, "cache")
    /\ IF cached(i) THEN Keeps(i, "inputs", "base", imgs.image) /\ UNCHANGED imgs
       ELSE imgs' = [imgs EXCEPT !.image = none] /\ Goes(i, "cache_clear")
    /\ damaged' = IF cached(i) THEN damaged ELSE damaged \ {imgs.image}
    /\ UNCHANGED <<lock, build, images, probe, files, probed, left, server, met, bounds>>

cache_clear(i) ==
    /\ At(i, "cache_clear")
    /\ imgs' = [imgs EXCEPT !.manifest = none, !.new = FALSE]
    /\ IF build["cache"] = NoBuild
       THEN build' = [build EXCEPT !["cache"].dir = TRUE] /\ Goes(i, "cache_inputs") /\ UNCHANGED lock
       ELSE Fail(i) /\ UNCHANGED build
    /\ UNCHANGED <<images, probe, files, probed, left, environment>>

cache_inputs(i) ==
    /\ At(i, "cache_inputs")
    /\ run_kvm_build(i, [identity |-> identity(Task(i)), flaw |-> none], "cache_guest")

cache_guest(i) == At(i, "cache_guest") /\ start_kvm_build_guest(i, "cache", "cache_wait")

cache_wait(i) ==
    /\ At(i, "cache_wait")
    /\ \E flaw \in Flaws \union {none} :
          wait_for_shutdown(i, "cache", [job[i].disk EXCEPT !.flaw = flaw], "cache_finish")

finalize_development_tools_cache(i) ==
    /\ At(i, "cache_finish")
    /\ IF job[i].disk.flaw = "unsanitized" THEN Fail(i) /\ UNCHANGED imgs
       ELSE imgs' = [imgs EXCEPT !.new = TRUE] /\ Goes(i, "cache_publish") /\ UNCHANGED lock
    /\ UNCHANGED <<build, images, probe, files, probed, left, environment>>

cache_publish(i) ==
    /\ At(i, "cache_publish") /\ Goes(i, "cache_manifest")
    /\ imgs' = [imgs EXCEPT !.new = FALSE, !.image = job[i].disk]
    /\ OnlyImgs

cache_manifest(i) ==
    /\ At(i, "cache_manifest") /\ Goes(i, "cache_done")
    /\ imgs' = [imgs EXCEPT !.manifest = job[i].disk]
    /\ OnlyImgs

cache_done(i) ==
    /\ At(i, "cache_done") /\ Keeps(i, "inputs", "base", job[i].disk)
    /\ build' = [build EXCEPT !["cache"] = NoBuild]
    /\ OnlyBuild

\* Mutant: the failure of the cache is returned without cleaning up.
cache_returns(i) ==
    /\ At(i, "cache_cleanup") /\ Goes(i, "cleanup")
    /\ imgs' = [imgs EXCEPT !.new = FALSE]
    /\ UNCHANGED <<lock, build, images, probe, files, probed, left, environment>>

cache_cleanup(i) ==
    /\ At(i, "cache_cleanup") /\ Goes(i, "cleanup")
    /\ imgs' = [imgs EXCEPT !.new = FALSE]
    /\ cleanup_failed_build("cache")
    /\ UNCHANGED <<lock, images, probe, files, probed, environment>>

inputs(i) == At(i, "inputs") /\ run_kvm_build(i, job[i].base, "guest")

guest(i) == At(i, "guest") /\ start_kvm_build_guest(i, "main", "wait")

wait(i) ==
    /\ At(i, "wait")
    /\ \E mark \in Marks, flaw \in Flaws \union {none} :
          wait_for_shutdown(i, "main",
              [commit |-> Task(i).commit, base |-> job[i].disk.identity, mark |-> mark,
               flaw |-> IF job[i].disk.flaw = none THEN flaw ELSE job[i].disk.flaw], "packages")

\* What the guest installed is compared with the recipe.
parse_package_versions(disk) == disk.flaw # "packages"

read_versions(i) ==
    /\ At(i, "packages")
    /\ IF parse_package_versions(job[i].disk) THEN Goes(i, "finalize") /\ UNCHANGED lock ELSE Fail(i)
    /\ UNCHANGED <<build, imgs, images, probe, files, probed, left, environment>>

verify_reusable_image_sanitization(disk) == disk.flaw # "unsanitized"
verify_guest_contract(disk) == disk.flaw # "contract"
\* After sanitization the versions are still those that were read before.
FinalVersions(disk) == disk.flaw # "changed"

finalize_reusable_image(i) ==
    /\ At(i, "finalize")
    /\ IF verify_reusable_image_sanitization(job[i].disk) /\ verify_guest_contract(job[i].disk)
          /\ FinalVersions(job[i].disk)
       THEN Goes(i, "stage") /\ UNCHANGED lock ELSE Fail(i)
    /\ UNCHANGED <<build, imgs, images, probe, files, probed, left, environment>>
-----------------------------------------------------------------------------
(* Publication *)

\* The same image was published before, or its directory is staged.
stage_generation(i) ==
    /\ At(i, "stage")
    /\ IF job[i].disk \in images.generations
       THEN /\ IF job[i].disk \in damaged THEN Fail(i) ELSE Goes(i, "probe") /\ UNCHANGED lock
            /\ UNCHANGED images
       ELSE \/ images.staged # none /\ Fail(i) /\ UNCHANGED images
            \/ /\ images.staged = none
               /\ images' = [images EXCEPT !.staged = [image |-> job[i].disk, whole |-> FALSE]]
               /\ Goes(i, "stage_files") /\ UNCHANGED lock
    /\ UNCHANGED <<build, imgs, probe, files, probed, left, environment>>

stage_publication(i) ==
    /\ At(i, "stage_files") /\ Goes(i, "probe")
    /\ images' = [images EXCEPT !.staged.whole = TRUE]
    /\ OnlyImages

verify_publication(i) ==
    /\ At(i, "probe")
    /\ IF probe THEN Goes(i, "discard") ELSE Goes(i, "probing")
    /\ probe' = TRUE
    /\ UNCHANGED <<lock, build, imgs, images, files, probed, left, environment>>

\* The staged image boots, or not; the probe is cleaned up, or not.
probe_cleanup(i) ==
    /\ At(i, "probing")
    /\ \E booted, cleaned \in BOOLEAN :
          /\ booted => job[i].disk.flaw # "boot"
          /\ probe' = ~cleaned
          /\ Goes(i, IF booted /\ cleaned THEN "remove_dir" ELSE "discard")
          /\ probed' = IF booted THEN probed \union {job[i].disk} ELSE probed
    /\ UNCHANGED <<lock, build, imgs, images, files, left, environment>>

discard(i) ==
    /\ At(i, "discard") /\ Goes(i, "cleanup")
    /\ images' \in {images, [images EXCEPT !.staged = none]}
    /\ OnlyImages

remove_build_dir(i) ==
    /\ At(i, "remove_dir") /\ Goes(i, "publish")
    /\ build' = [build EXCEPT !["main"].dir = FALSE]
    /\ OnlyBuild

\* Mutant: the pointer is staged before the generation is in place.
publish_pointer_first(i) == At(i, "publish") /\ Goes(i, "link") /\ UNCHANGED images /\ OnlyImages

publish(i) ==
    /\ At(i, "publish") /\ Goes(i, "link")
    /\ images' = [images EXCEPT !.generations = @ \union {job[i].disk}, !.staged = none]
    /\ OnlyImages

publish_link(i) ==
    /\ At(i, "link") /\ Goes(i, "current")
    /\ images' = [images EXCEPT !.link = job[i].disk]
    /\ OnlyImages

publish_current(i) ==
    /\ At(i, "current") /\ Keeps(i, "unlock", "report", job[i].disk)
    /\ images' = [images EXCEPT !.current = images.link, !.link = none]
    /\ OnlyImages

cleanup(i) ==
    /\ At(i, "cleanup") /\ Goes(i, "ended") /\ lock' = FALSE
    /\ cleanup_failed_build("main")
    /\ UNCHANGED <<imgs, images, probe, files, probed, environment>>

\* The lock is dropped: an installation goes on with the server's files.
unlock(i) ==
    /\ At(i, "unlock") /\ lock' = FALSE
    /\ Goes(i, IF Task(i).op = "install" THEN "file" ELSE "ended")
    /\ UNCHANGED <<build, imgs, images, probe, files, probed, left, environment>>
-----------------------------------------------------------------------------
(* The files of the server *)

Kind(i) == Kinds[job[i].file]
Wanted(i, kind) == IF kind = "wts" THEN Task(i).commit ELSE Task(i).config
AfterFile(i) ==
    job' = [job EXCEPT ![i].file = @ + 1, ![i].pc = IF job[i].file = Len(Kinds) THEN "restart" ELSE "file"]

\* A file that is there is kept if it is the one wanted, and is refused or
\* replaced if not; the binary and the credentials are always replaced.
kept(i, kind) == kind \in {"config", "capacity", "service"} /\ files.installed[kind] = Wanted(i, kind)
install_config_refused(i, kind) == ~Compatible(i, kind)
install_service_refused(i) == ~Compatible(i, "service") /\ ~job[i].replace
Refused(i, kind) ==
    CASE kind \in {"config", "capacity"} -> install_config_refused(i, kind)
      [] kind = "service" -> install_service_refused(i)
      [] OTHER -> FALSE

install_file(i) ==
    /\ At(i, "file")
    /\ \/ kept(i, Kind(i)) /\ AfterFile(i)
       \/ /\ ~kept(i, Kind(i)) /\ (Refused(i, Kind(i)) \/ files.temporary[Kind(i)] # none)
          /\ Goes(i, "ended")
       \/ ~kept(i, Kind(i)) /\ ~Refused(i, Kind(i)) /\ files.temporary[Kind(i)] = none /\ Goes(i, "copy")
    /\ OnlyJob

\* The copy and the move look at nothing that another installation may have
\* done since: what is moved is whatever the temporary file is then.
sudo_install(i) ==
    /\ At(i, "copy") /\ Goes(i, "move")
    /\ files' = [files EXCEPT !.temporary[Kind(i)] = Wanted(i, Kind(i))]
    /\ UNCHANGED <<lock, build, imgs, images, probe, probed, left, environment>>

sudo_move(i) ==
    /\ At(i, "move")
    /\ \/ /\ files.temporary[Kind(i)] # none /\ AfterFile(i)
          /\ files' = [files EXCEPT !.installed[Kind(i)] = files.temporary[Kind(i)],
                                    !.temporary[Kind(i)] = none]
       \/ files.temporary[Kind(i)] = none /\ Goes(i, "ended") /\ UNCHANGED files
    /\ UNCHANGED <<lock, build, imgs, images, probe, probed, left, environment>>

restart(i) ==
    /\ At(i, "restart") /\ Goes(i, "ended")
    /\ server' = [pc |-> "starting", there |-> FALSE, image |-> none]
    /\ UNCHANGED <<installer, damaged, met, bounds>>
-----------------------------------------------------------------------------
(* The server resolves the pointer once, in two reads, when it starts *)

ServerStarts ==
    /\ server.pc \in {"off", "up"} /\ files.installed["service"] # none
    /\ bounds.starts < MaxServerStarts
    /\ bounds' = [bounds EXCEPT !.starts = @ + 1]
    /\ server' = [pc |-> "starting", there |-> FALSE, image |-> none]
    /\ UNCHANGED <<job, installer, damaged, met>>

\* Whether there is a pointer is one read, what it names another.
resolve ==
    /\ server.pc = "starting"
    /\ server' = IF files.installed["config"] = none THEN [server EXCEPT !.pc = "off"]
                 ELSE [server EXCEPT !.pc = "resolving", !.there = images.current # none]
    /\ UNCHANGED <<job, installer, damaged, met, bounds>>

\* Without a pointer the server goes on with the configured path, where no
\* image is.
load_runtime_from ==
    /\ server.pc = "resolving"
    /\ server' = [server EXCEPT !.pc = "up", !.image = IF server.there THEN images.current ELSE none]
    /\ UNCHANGED <<job, installer, damaged, met, bounds>>
-----------------------------------------------------------------------------
(* Crashes, damage and repair *)

Crash(i) ==
    /\ Active(i) /\ bounds.crashes < MaxCrashes
    /\ bounds' = [bounds EXCEPT !.crashes = @ + 1]
    /\ Goes(i, "ended")
    /\ left' = IF Locking(i) THEN left \union {"lock"} \union Names ELSE left
    /\ UNCHANGED <<lock, build, imgs, images, probe, files, probed, server, damaged, met>>

Damage ==
    /\ bounds.damage < MaxDamage /\ \A i \in Installers : ~Active(i)
    /\ \E image \in images.generations \union ({imgs.image} \ {none}) : damaged' = damaged \union {image}
    /\ bounds' = [bounds EXCEPT !.damage = @ + 1]
    /\ UNCHANGED <<job, installer, server, met>>

RemoveStaleLock ==
    /\ lock /\ \A i \in Installers : ~Locking(i)
    /\ lock' = FALSE /\ left' = left \ {"lock"}
    /\ UNCHANGED <<job, build, imgs, images, probe, files, probed, environment>>

Idle == \A i \in Installers : ~Active(i)

WithoutConfig(held) == [held EXCEPT !["config"] = none, !["capacity"] = none]

\* The scripts for an operator: state goes, or everything but the binary.
clear ==
    /\ Idle
    /\ server' = [pc |-> "off", there |-> FALSE, image |-> none]
    /\ build' = [n \in Names |-> NoBuild] /\ left' = left \ Names /\ probe' = FALSE
    /\ files' = [installed |-> WithoutConfig(files.installed), temporary |-> WithoutConfig(files.temporary)]
    /\ UNCHANGED <<job, lock, imgs, images, probed, damaged, met, bounds>>

nuke ==
    /\ Idle
    /\ server' = [pc |-> "off", there |-> FALSE, image |-> none]
    /\ build' = [n \in Names |-> NoBuild] /\ left' = {} /\ lock' = FALSE /\ probe' = FALSE
    /\ files' = [installed |-> [NoFiles EXCEPT !["wts"] = files.installed["wts"]],
                 temporary |-> WithoutConfig(files.temporary)]
    /\ imgs' = NoImgs /\ images' = NoImages /\ damaged' = {}
    /\ UNCHANGED <<job, probed, met, bounds>>

Build(i) ==
    \/ build_image(i) \/ cache_ensure(i) \/ cache_clear(i) \/ cache_inputs(i) \/ cache_guest(i)
    \/ cache_wait(i)
    \/ finalize_development_tools_cache(i) \/ cache_publish(i) \/ cache_manifest(i)
    \/ cache_done(i) \/ cache_cleanup(i) \/ inputs(i) \/ guest(i) \/ wait(i) \/ read_versions(i)
    \/ finalize_reusable_image(i) \/ cleanup(i)

Publish(i) ==
    \/ stage_generation(i) \/ stage_publication(i) \/ verify_publication(i) \/ probe_cleanup(i)
    \/ discard(i) \/ remove_build_dir(i) \/ publish(i) \/ publish_link(i) \/ publish_current(i)

Install(i) ==
    \/ \E task \in Tasks : Start(i, task)
    \/ require_installed_compatible(i) \/ acquire(i) \/ Clean(i) \/ source_image(i)
    \/ byobu_package(i) \/ installed_image_state(i) \/ resolve_to_verify(i) \/ verify(i)
    \/ unlock(i) \/ install_file(i) \/ sudo_install(i) \/ sudo_move(i) \/ restart(i) \/ CommandFails(i) \/ Crash(i)

Next ==
    \/ \E i \in Installers : Install(i) \/ Build(i) \/ Publish(i)
    \/ ServerStarts \/ resolve \/ load_runtime_from
    \/ Damage \/ RemoveStaleLock \/ clear \/ nuke

Spec == Init /\ [][Next]_vars
-----------------------------------------------------------------------------
(* Properties *)

Published(image) == image \in images.generations /\ image \in probed /\ image.flaw = none

\* What the pointer names, at any moment, and what a server resolved when it
\* started, is a generation that is in place, passed every check of the
\* builder and was booted by the probe (ADR 0026).
ReadersSeeWhole ==
    /\ images.current # none => Published(images.current)
    /\ server.pc = "up" /\ server.there => Published(server.image)

\* An image that an installer reports as ready is of its own commit, reused
\* or not, and one it built itself stands on the tools of its own checkout
\* and install input; and when an installation that met no other one restarts
\* the server, every file is the one it asked for, whatever earlier runs
\* left behind (ADR 0046, ADR 0071).
ReadyFits ==
    \A i \in Installers :
        /\ job[i].report # none =>
              /\ job[i].report.commit = Task(i).commit
              /\ job[i].base # none => job[i].report.base = identity(Task(i))
        /\ At(i, "restart") /\ i \notin met =>
              \A n \in DOMAIN Kinds : files.installed[Kinds[n]] = Wanted(i, Kinds[n])

\* When no installer is at work, a lock, a build directory or a domain is
\* there only after a crash or after a cleanup that failed as well.
FailuresCleanUp ==
    (\A i \in Installers : ~Locking(i)) =>
        /\ lock => "lock" \in left
        /\ \A n \in Names : build[n] # NoBuild => n \in left
=============================================================================
