---------------------------- MODULE SharedFiles ----------------------------
(***************************************************************************)
(* The files of the host that every world sees: Codex authentication and   *)
(* the authorized SSH keys.  One thread of the server publishes each when  *)
(* it starts and then, every two seconds, if its version changed; an       *)
(* administrator edits them at any moment.  A version is what the metadata *)
(* tell apart (device, inode, size, modification time): every edit gives a *)
(* new one.  Reads and writes of the host's disk succeed: a publication    *)
(* only fails because the file is refused.                                 *)
(***************************************************************************)
EXTENDS Integers, Sequences

CONSTANTS
    Contents,      \* contents a file may have
    Invalid,       \* contents the check of SSH keys refuses
    MaxEdits       \* bound: edits of the host's files

VARIABLES
    source,        \* by file: its contents and its version
    published,     \* by file: the contents worlds see, or none yet
    known,         \* by file: the version recorded when it was published
    thread,        \* the publisher: its step, whether it started, file, contents
    edits

vars == <<source, published, known, thread, edits>>

Files == <<"auth", "keys">>
Names == {"auth", "keys"}
Unpublished == <<>>

\* Keys are checked by ssh-keygen and must not be empty; authentication is
\* only required to be a regular file.
Valid(file) == file = "keys" => source[file].contents \notin Invalid

Init ==
    /\ source \in [Names -> [contents : Contents, version : {0}]]
    /\ published = [f \in Names |-> Unpublished]
    /\ known = [f \in Names |-> -1]
    /\ thread = [pc |-> "prepare", started |-> FALSE, at |-> 1, contents |-> Unpublished]
    /\ edits = 0

File == Files[thread.at]
Goes(pc) == thread' = [thread EXCEPT !.pc = pc]
At(pc) == thread.pc = pc

\* The next file; after the last one the server is up and its thread loops.
NextFile ==
    thread' = [thread EXCEPT !.at = IF @ = Len(Files) THEN 1 ELSE @ + 1,
                             !.started = @ \/ thread.at = Len(Files),
                             !.pc = IF thread.started \/ thread.at = Len(Files) THEN "check"
                                    ELSE "prepare"]

\* A failure ends a server that is starting; later the file is skipped.
Failed == IF thread.started THEN NextFile ELSE Goes("failed")

publish_if_changed ==
    /\ At("check")
    /\ IF ~Valid(File) THEN Failed
       ELSE IF known[File] = source[File].version THEN NextFile ELSE Goes("prepare")
    /\ UNCHANGED <<source, published, known, edits>>

prepare ==
    /\ At("prepare")
    /\ IF Valid(File) THEN Goes("read") ELSE Failed
    /\ UNCHANGED <<source, published, known, edits>>

publish_read ==
    /\ At("read")
    /\ thread' = [thread EXCEPT !.pc = "rename", !.contents = <<source[File].contents>>]
    /\ UNCHANGED <<source, published, known, edits>>

publish_rename ==
    /\ At("rename") /\ Goes("compare")
    /\ published' = [published EXCEPT ![File] = thread.contents]
    /\ UNCHANGED <<source, known, edits>>

publish_compare ==
    /\ At("compare")
    /\ Goes(IF thread.contents = <<source[File].contents>> THEN "version" ELSE "read")
    /\ UNCHANGED <<source, published, known, edits>>

publish_version ==
    /\ At("version") /\ NextFile
    /\ known' = [known EXCEPT ![File] = source[File].version]
    /\ UNCHANGED <<source, published, edits>>

Edit(file, contents) ==
    /\ edits < MaxEdits /\ contents # source[file].contents
    /\ edits' = edits + 1
    /\ source' = [source EXCEPT ![file] = [contents |-> contents, version |-> edits + 1]]
    /\ UNCHANGED <<published, known, thread>>

Publisher ==
    \/ publish_if_changed \/ prepare \/ publish_read \/ publish_rename
    \/ publish_compare \/ publish_version

Next == Publisher \/ \E file \in Names, contents \in Contents : Edit(file, contents)

Spec == Init /\ [][Next]_vars /\ WF_vars(Publisher)
-----------------------------------------------------------------------------
\* Once the administrator stops, what worlds see of a valid file is what the
\* host has (the guide: adding or removing a key on the host updates the
\* access to all running worlds).
SharedCatchesUp ==
    <>[](\A f \in Names : ~At("failed") /\ Valid(f) => published[f] = <<source[f].contents>>)
=============================================================================
