---------------------------- MODULE ConfigStore ----------------------------
(***************************************************************************)
(* The web bridge's config routes (frontend/main.cpp) on ConfigStore: each *)
(* request reads the file, edits the document, checks it, writes it to a   *)
(* temporary file, the same for all, and renames that over the original.   *)
(* Requests run on several IO threads and nothing orders them; a reader    *)
(* (GET, resolveSocketPath, the daemon's load) is a request that edits     *)
(* nothing.                                                                *)
(*                                                                         *)
(* An open file is an inode, which keeps its content when its name goes to *)
(* another one.                                                            *)
(***************************************************************************)
EXTENDS ConfigDocument

CONSTANTS
  Requests,     \* requests in flight, at most one for each thread
  Inodes,
  NoInode,
  DiskMayFill   \* whether a file may fail to be created or written

ASSUME StoreAssumption ==
  /\ NoInode \notin Inodes
  /\ DiskMayFill \in BOOLEAN

VARIABLES
  file,      \* the inode that kConfigPath names
  tmp,       \* the inode that kConfigPath.tmp names
  content,   \* what each inode holds
  at,        \* where each request is
  query,     \* what it asks for
  ino,       \* the inode it has open
  doc,       \* the document it is to write
  intended,  \* history: the document the committed requests ask for
  spoilt     \* history: requests in flight got in each other's way

nameVars == <<file, tmp>>
vars == <<nameVars, content, at, query, ino, doc, intended, spoilt>>

TypeOK ==
  /\ file \in Inodes
  /\ tmp \in Inodes \cup {NoInode}
  /\ content \in [Inodes -> Texts]
  /\ at \in [Requests -> {"idle", "read", "content", "open", "write", "rename", "remove"}]
  /\ query \in [Requests -> Queries]
  /\ ino \in [Requests -> Inodes \cup {NoInode}]
  /\ \A r \in Requests : at[r] \in {"content", "write", "rename"} => ino[r] \in Inodes
  /\ doc \in [Requests -> Texts]
  /\ intended \in Texts
  /\ spoilt \in BOOLEAN

Init ==
  /\ file \in Inodes
  /\ tmp = NoInode
  /\ intended \in Documents
  /\ content = [i \in Inodes |-> IF i = file THEN intended ELSE Cut]
  /\ at = [r \in Requests |-> "idle"]
  /\ query = [r \in Requests |-> NoQuery]
  /\ ino = [r \in Requests |-> NoInode]
  /\ doc = [r \in Requests |-> Cut]
  /\ spoilt = FALSE

-----------------------------------------------------------------------------
(* The steps of a request                                                  *)

Goto(r, l) == at' = [at EXCEPT ![r] = l]

\* Inodes hold c, and one that has no name and is not open is gone.
Hold(c) ==
  content' = [i \in Inodes |->
    IF i \in {file', tmp'} \/ \E r \in Requests : ino'[r] = i THEN c[i] ELSE Cut]

\* The request is answered, and what it held is gone.
Finish(r) ==
  /\ Goto(r, "idle")
  /\ query' = [query EXCEPT ![r] = NoQuery]
  /\ ino' = [ino EXCEPT ![r] = NoInode]
  /\ doc' = [doc EXCEPT ![r] = Cut]

\* PUT /api/config brings its document, the others read one.
Begin(r) ==
  /\ at[r] = "idle"
  /\ \E q \in Queries :
       /\ query' = [query EXCEPT ![r] = q]
       /\ \/ /\ q.op = "put" /\ Valid(q.doc)
             /\ doc' = [doc EXCEPT ![r] = q.doc]
             /\ Goto(r, "open")
          \/ /\ q.op # "put"
             /\ Goto(r, "read")
             /\ UNCHANGED doc
  /\ UNCHANGED <<nameVars, content, ino>>

OpenFile(r) ==
  /\ at[r] = "read"
  /\ ino' = [ino EXCEPT ![r] = file]
  /\ Goto(r, "content")
  /\ UNCHANGED <<nameVars, content, query, doc>>

\* Deviation: what is written back is not looked at.
EditableUnchecked(r) ==
  LET q == query[r]
      d == content[ino[r]]
  IN d # Cut /\ q.op \in Edits /\ Fits(q, d)

\* What the request reads can be edited as it asks, and written back.
Editable(r) ==
  LET q == query[r]
      d == content[ino[r]]
  IN d # Cut /\ q.op \in Edits /\ Fits(q, d) /\ Valid(Edited(q, d))

ReadEdit(r) ==
  /\ at[r] = "content"
  /\ Editable(r)
  /\ doc' = [doc EXCEPT ![r] = Edited(query[r], content[ino[r]])]
  /\ ino' = [ino EXCEPT ![r] = NoInode]
  /\ Goto(r, "open")
  /\ UNCHANGED <<nameVars, query>>
  /\ Hold(content)

\* A GET is answered; anything else with an error.
ReadOnly(r) ==
  /\ at[r] = "content"
  /\ ~Editable(r)
  /\ Finish(r)
  /\ UNCHANGED nameVars
  /\ Hold(content)

Free == {i \in Inodes \ {file, tmp} : \A r \in Requests : ino[r] # i}

\* Deviations: the file is written in place, or the stream is not looked at.
WritesInPlace == {file}
WritesUnchecked == (IF tmp = NoInode THEN Free ELSE {tmp}) \cup {NoInode}

\* An ofstream on the name: a new inode, or the one that is there.
WritesTo == IF tmp = NoInode THEN Free ELSE {tmp}

\* std::ios::trunc empties it.
OpenTmp(r) ==
  /\ at[r] = "open"
  /\ \E i \in WritesTo :
       /\ tmp' = i
       /\ content' = [content EXCEPT ![i] = Cut]
       /\ ino' = [ino EXCEPT ![r] = i]
  /\ Goto(r, "write")
  /\ UNCHANGED <<file, query, doc>>

OpenTmpFails(r) ==
  /\ DiskMayFill
  /\ at[r] = "open"
  /\ Finish(r)
  /\ UNCHANGED <<nameVars, content>>

\* The text goes to the inode, whatever name it has by now.  Over a longer text
\* it leaves a tail, which the parsers skip.
WriteTmp(r) ==
  /\ at[r] = "write"
  /\ content' = [content EXCEPT ![ino[r]] = doc[r]]
  /\ Goto(r, "rename")
  /\ UNCHANGED <<nameVars, query, ino, doc>>

\* The disk is full.  The stream shows it at once, or only when it flushes what
\* it has buffered, and then nobody looks.
WriteShort(r) ==
  /\ DiskMayFill
  /\ at[r] = "write"
  /\ \/ Finish(r)
     \/ Goto(r, "rename") /\ UNCHANGED <<query, ino, doc>>
  /\ UNCHANGED nameVars
  /\ Hold([content EXCEPT ![ino[r]] = Cut])

Rename(r) ==
  /\ at[r] = "rename"
  /\ tmp # NoInode
  /\ file' = tmp
  /\ tmp' = NoInode
  /\ Finish(r)
  /\ Hold(content)

\* Another request has renamed the temporary file.
RenameFails(r) ==
  /\ at[r] = "rename"
  /\ tmp = NoInode
  /\ Goto(r, "remove")
  /\ UNCHANGED <<nameVars, content, query, ino, doc>>

RemoveTmp(r) ==
  /\ at[r] = "remove"
  /\ tmp' = NoInode
  /\ Finish(r)
  /\ UNCHANGED file
  /\ Hold(content)

\* The bridge dies and is started again: the temporary file stays.
Crash ==
  /\ at' = [r \in Requests |-> "idle"]
  /\ query' = [r \in Requests |-> NoQuery]
  /\ ino' = [r \in Requests |-> NoInode]
  /\ doc' = [r \in Requests |-> Cut]
  /\ UNCHANGED nameVars
  /\ Hold(content)

-----------------------------------------------------------------------------
(* History                                                                 *)

\* From its read, or the truncation, to its end a writer should be alone.
InWindow(r) ==
  \/ at[r] \in {"write", "rename", "remove"}
  \/ at[r] \in {"content", "open"} /\ query[r].op \in Edits

Overlap == \E r, s \in Requests : r # s /\ InWindow(r) /\ InWindow(s)

\* A request is about to publish something else than its document.
Torn == \E r \in Requests : at[r] = "rename" /\ content[ino[r]] # doc[r]

\* Overlapping requests, and a short write, are forgotten when no request is
\* left: what the file then holds is taken for what was asked.
Chronicle(committed) ==
  /\ spoilt' = (/\ \E r \in Requests : at'[r] # "idle"
                /\ spoilt \/ Overlap' \/ Torn')
  /\ intended' = IF spoilt' THEN Cut
                 ELSE IF spoilt THEN content'[file'] ELSE committed

Step(r) ==
  \/ Begin(r)
  \/ OpenFile(r)
  \/ ReadEdit(r)
  \/ ReadOnly(r)
  \/ OpenTmp(r)
  \/ OpenTmpFails(r)
  \/ WriteTmp(r)
  \/ WriteShort(r)
  \/ RenameFails(r)
  \/ RemoveTmp(r)

Next ==
  \/ \E r \in Requests : Step(r) /\ Chronicle(intended)
  \/ \E r \in Requests : Rename(r) /\ Chronicle(Edited(query[r], intended))
  \/ Crash /\ Chronicle(intended)

Spec == Init /\ [][Next]_vars

-----------------------------------------------------------------------------
(* What the store implements                                               *)

\* The file under its name is a register: what the code promises to everybody
\* who opens it.
Register == INSTANCE ConfigRegister WITH document <- content[file], disturbed <- spoilt

-----------------------------------------------------------------------------
(* Properties                                                              *)

\* At any moment, also after a crash of the bridge, the file holds what the
\* requests that went through ask for, one after the other, as long as writers
\* do not overlap and no short write goes unnoticed (ConfigStore.cc:206-243,
\* main.cpp:372-543): no update is lost, no refused or failed request shows, and
\* the daemon reads a whole document.
FileIsIntended == ~spoilt => content[file] = intended

\* Whoever has opened the file reads the document that was in force then: a
\* later request replaces the file and does not touch it (ConfigStore.cc:219-235
\* against 74-84 and config.cpp:14-28).
OpenFileStable ==
  [][\A r \in Requests :
       ~spoilt' /\ at[r] = "content" /\ at'[r] = "content"
         => content'[ino[r]] = content[ino[r]]]_vars

\* No request, however it overlaps with others, makes a file with two blocks of
\* one id out of one that has none (ConfigStore.cc:185-200, 209).
NoNewDuplicates ==
  [][(content[file] = Cut \/ Unique(content[file]))
       => LET d == content'[file'] IN d = Cut \/ Unique(d)]_vars

\* Four steps and an inode of its own make one step of a request
\* (main.cpp:372-543, ConfigStore.cc:206-243): while writers do not overlap the
\* file changes only at a rename, and then as if the request had read, checked
\* and edited the document at that moment; whatever overlapping requests do to
\* it, they bring no id in twice.
ImplementsRegister == Register!Spec

\* ConfigStore.h:75-77: nobody ever finds the file half written.
NeverHalfWritten == content[file] # Cut
=============================================================================
