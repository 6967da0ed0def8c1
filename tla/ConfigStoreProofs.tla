------------------------- MODULE ConfigStoreProofs -------------------------
(***************************************************************************)
(* Proofs about ConfigStore, for any number of requests and any set of     *)
(* blocks and documents, and that it implements ConfigRegister.            *)
(***************************************************************************)
EXTENDS ConfigStore, TLAPS

\* What each place in a request says of it, and that the two names and the
\* readers' inodes stay apart.
PlaceInv ==
  /\ tmp # file
  /\ \A r \in Requests :
       /\ at[r] = "content" => ino[r] # tmp
       /\ at[r] = "content" => query[r].op # "put"
       /\ at[r] = "read" => query[r].op # "put"
       /\ at[r] \in {"open", "write", "rename"} => query[r].op # "get"

NoDuplicate(d) == d = Cut \/ Unique(d)

\* Only valid documents are on their way to the file.
DuplicateInv ==
  /\ tmp # NoInode => NoDuplicate(content[tmp])
  /\ \A r \in Requests : at[r] \in {"open", "write", "rename"} => NoDuplicate(doc[r])

AloneInv == ~spoilt => ~Overlap /\ ~Torn

\* A writer that is alone has read what is in force, edits that, and holds the
\* inode that the rename will publish.
WriterInv ==
  ~spoilt =>
    \A r \in Requests :
      /\ at[r] = "content" /\ query[r].op \in Edits => ino[r] = file
      /\ at[r] \in {"write", "rename"} => ino[r] = tmp
      /\ at[r] \in {"open", "write", "rename"} => doc[r] = Edited(query[r], intended)

StoreInv ==
  /\ TypeOK
  /\ PlaceInv
  /\ DuplicateInv
  /\ AloneInv
  /\ WriterInv
  /\ FileIsIntended

-----------------------------------------------------------------------------

LEMMA StoreInvInit == Init => StoreInv
<1> SUFFICES ASSUME Init PROVE StoreInv
  OBVIOUS
<1>1. TypeOK
  <2>1. intended \in Texts /\ Cut \in Texts
    BY DocumentAssumption DEF Init, Texts
  <2>2. content \in [Inodes -> Texts]
    BY <2>1 DEF Init
  <2>3. doc \in [Requests -> Texts]
    BY <2>1 DEF Init
  <2> QED BY <2>1, <2>2, <2>3 DEF Init, TypeOK, Queries
<1>2. PlaceInv /\ DuplicateInv /\ WriterInv /\ FileIsIntended
  BY StoreAssumption DEF Init, PlaceInv, DuplicateInv, WriterInv, FileIsIntended
<1>3. AloneInv
  BY DEF Init, AloneInv, Overlap, Torn, InWindow
<1> QED
  BY <1>1, <1>2, <1>3 DEF StoreInv

\* What an edit makes of a document is a document.
LEMMA EditedType ==
  ASSUME NEW q \in Queries, q.op # "get", NEW d \in SUBSET Blocks
  PROVE  Edited(q, d) \in SUBSET Blocks
<1>1. CASE q.op = "put"
  BY <1>1, DocumentAssumption DEF Edited, Queries, Edits, NoQuery
<1>2. CASE q.op # "put"
  <2>1. q.block \in Blocks /\ q.op \in Edits
    BY <1>2 DEF Queries, Edits, NoQuery
  <2> QED BY <2>1, <1>2 DEF Edited, Edits
<1> QED
  BY <1>1, <1>2

\* A put asks for its own document.
LEMMA EditedPut ==
  ASSUME NEW q, q.op = "put", NEW d
  PROVE  Edited(q, d) = q.doc
BY DEF Edited

\* An inode that has a name or is open keeps what it holds.
LEMMA HoldKeeps ==
  ASSUME NEW c \in [Inodes -> Texts], Hold(c)
  PROVE  /\ content' \in [Inodes -> Texts]
         /\ \A i \in Inodes : i \in {file', tmp'} => content'[i] = c[i]
         /\ \A i \in Inodes, r \in Requests : ino'[r] = i => content'[i] = c[i]
<1>1. \A i \in Inodes : c[i] \in Texts /\ Cut \in Texts
  BY DEF Texts
<1>2. \A i \in Inodes : content'[i] \in Texts
  BY <1>1 DEF Hold
<1>3. content' = [i \in Inodes |-> content'[i]]
  BY DEF Hold
<1> QED
  BY <1>2, <1>3 DEF Hold

\* The history makes AloneInv hold by itself.
LEMMA ChronicleAlone ==
  ASSUME NEW c, Chronicle(c)
  PROVE  /\ spoilt' \in BOOLEAN
         /\ AloneInv'
         /\ ~spoilt' => \/ ~spoilt /\ intended' = c
                        \/ /\ \A r \in Requests : at'[r] = "idle"
                           /\ spoilt /\ intended' = content'[file']
         /\ spoilt' => intended' = Cut
<1>1. spoilt' \in BOOLEAN
  BY Zenon DEF Chronicle
<1>2. AloneInv'
  BY DEF Chronicle, AloneInv, Overlap, Torn, InWindow
<1>3. ASSUME ~spoilt' PROVE ~spoilt \/ \A r \in Requests : at'[r] = "idle"
  BY <1>3, Zenon DEF Chronicle
<1>4. /\ ~spoilt /\ ~spoilt' => intended' = c
      /\ spoilt /\ ~spoilt' => intended' = content'[file']
      /\ spoilt' => intended' = Cut
  BY Zenon DEF Chronicle
<1> QED
  BY <1>1, <1>2, <1>3, <1>4, Zenon

\* A step of request r leaves the others where they are.
Others(r) ==
  \A s \in Requests \ {r} :
    at'[s] = at[s] /\ query'[s] = query[s] /\ ino'[s] = ino[s] /\ doc'[s] = doc[s]

RequestTypes ==
  /\ at \in [Requests -> {"idle", "read", "content", "open", "write", "rename", "remove"}]
  /\ query \in [Requests -> Queries]
  /\ ino \in [Requests -> Inodes \cup {NoInode}]
  /\ doc \in [Requests -> Texts]

\* A request that is answered leaves nothing.
LEMMA FinishKeeps ==
  ASSUME RequestTypes, NEW r \in Requests, Finish(r)
  PROVE  RequestTypes' /\ Others(r) /\ at'[r] = "idle"
<1>1. at' \in [Requests -> {"idle", "read", "content", "open", "write", "rename", "remove"}]
  BY DEF RequestTypes, Finish, Goto
<1>2. query' \in [Requests -> Queries]
  BY DEF RequestTypes, Finish, Queries
<1>3. ino' \in [Requests -> Inodes \cup {NoInode}]
  BY DEF RequestTypes, Finish
<1>4. doc' \in [Requests -> Texts]
  <2>1. Cut \in Texts
    BY DEF Texts
  <2> QED BY <2>1 DEF RequestTypes, Finish
<1>5. Others(r) /\ at'[r] = "idle"
  BY DEF RequestTypes, Finish, Goto, Others
<1> QED
  BY <1>1, <1>2, <1>3, <1>4, <1>5 DEF RequestTypes

\* When the last request of a spoilt time ends, the rest holds again.
LEMMA AllIdle ==
  ASSUME \A r \in Requests : at'[r] = "idle", intended' = content'[file']
  PROVE  WriterInv' /\ FileIsIntended'
BY DEF WriterInv, FileIsIntended

\* A step keeps the invariant if the parts that do not depend on the history
\* hold, and the others while nothing is spoilt.
LEMMA Assemble ==
  ASSUME NEW c, Chronicle(c), PlaceInv', DuplicateInv', RequestTypes',
         \A s \in Requests : at'[s] \in {"content", "write", "rename"} => ino'[s] \in Inodes,
         file' \in Inodes, tmp' \in Inodes \cup {NoInode},
         content' \in [Inodes -> Texts],
         ~spoilt /\ ~spoilt' /\ intended' = c => WriterInv' /\ FileIsIntended'
  PROVE  StoreInv'
<1>1. content'[file'] \in Texts
  OBVIOUS
<1>2. WriterInv' /\ FileIsIntended' /\ intended' \in Texts
  <2>1. CASE spoilt'
    <3>1. intended' \in Texts
      BY <2>1, ChronicleAlone DEF Texts
    <3> QED BY <2>1, <3>1 DEF WriterInv, FileIsIntended
  <2>2. CASE ~spoilt' /\ ~spoilt /\ intended' = c
    BY <1>1, <2>2 DEF FileIsIntended
  <2>3. CASE (\A r \in Requests : at'[r] = "idle") /\ intended' = content'[file']
    BY <1>1, <2>3, AllIdle
  <2> QED BY <2>1, <2>2, <2>3, ChronicleAlone
<1>3. AloneInv' /\ spoilt' \in BOOLEAN
  BY ChronicleAlone
<1>4. TypeOK'
  BY <1>2, <1>3 DEF TypeOK, RequestTypes
<1> QED
  BY <1>2, <1>3, <1>4 DEF StoreInv

LEMMA BeginKeeps ==
  ASSUME StoreInv, NEW r \in Requests, Begin(r), Chronicle(intended)
  PROVE  StoreInv'
<1> USE DEF StoreInv
<1>1. /\ file' \in Inodes /\ tmp' \in Inodes \cup {NoInode} /\ tmp' # file'
      /\ content' \in [Inodes -> Texts]
      /\ UNCHANGED <<file, tmp, content>>
  BY HoldKeeps DEF Begin, nameVars, TypeOK, PlaceInv
<1>2. /\ RequestTypes' /\ Others(r)
      /\ query'[r] \in Queries
      /\ \/ at'[r] = "read" /\ query'[r].op # "put"
         \/ /\ at'[r] = "open" /\ query'[r].op = "put"
            /\ doc'[r] = query'[r].doc /\ Unique(doc'[r])
  <2>1. PICK q \in Queries :
          /\ query' = [query EXCEPT ![r] = q]
          /\ \/ /\ q.op = "put" /\ Unique(q.doc)
                /\ doc' = [doc EXCEPT ![r] = q.doc]
                /\ at' = [at EXCEPT ![r] = "open"]
             \/ /\ q.op # "put"
                /\ at' = [at EXCEPT ![r] = "read"]
                /\ UNCHANGED doc
    BY DEF Begin, Valid, Goto
  <2>2. q.op = "put" => q.doc \in Texts
    BY DocumentAssumption DEF Queries, Edits, NoQuery, Texts
  <2>3. UNCHANGED ino
    BY DEF Begin
  <2>4. CASE q.op = "put"
    BY <2>1, <2>2, <2>3, <2>4 DEF RequestTypes, Others, TypeOK
  <2>5. CASE q.op # "put"
    BY <2>1, <2>3, <2>5 DEF RequestTypes, Others, TypeOK
  <2> QED BY <2>4, <2>5
<1>3. \A s \in Requests : at'[s] \in {"content", "write", "rename"} => ino'[s] \in Inodes
  BY <1>1, <1>2 DEF Others, TypeOK
<1>4. PlaceInv'
  BY <1>1, <1>2 DEF PlaceInv, Others
<1>5. DuplicateInv'
  BY <1>1, <1>2 DEF DuplicateInv, NoDuplicate, Others
<1>6. ~spoilt /\ ~spoilt' /\ intended' = intended => WriterInv' /\ FileIsIntended'
  <2>1. doc'[r] = Edited(query'[r], intended) \/ at'[r] = "read"
    BY <1>2, EditedPut
  <2> QED BY <1>1, <1>2, <2>1 DEF WriterInv, FileIsIntended, Others
<1> QED
  BY <1>1, <1>2, <1>3, <1>4, <1>5, <1>6, Assemble

LEMMA OpenFileKeeps ==
  ASSUME StoreInv, NEW r \in Requests, OpenFile(r), Chronicle(intended)
  PROVE  StoreInv'
<1> USE DEF StoreInv
<1>1. /\ file' \in Inodes /\ tmp' \in Inodes \cup {NoInode} /\ tmp' # file'
      /\ content' \in [Inodes -> Texts]
      /\ UNCHANGED <<file, tmp, content>>
  BY HoldKeeps DEF OpenFile, nameVars, TypeOK, PlaceInv
<1>2. /\ RequestTypes' /\ Others(r)
      /\ at'[r] = "content" /\ ino'[r] = file /\ query'[r] = query[r]
      /\ query[r].op # "put"
  BY DEF OpenFile, Goto, RequestTypes, Others, TypeOK, PlaceInv
<1>3. \A s \in Requests : at'[s] \in {"content", "write", "rename"} => ino'[s] \in Inodes
  BY <1>1, <1>2 DEF Others, TypeOK
<1>4. PlaceInv'
  BY <1>1, <1>2 DEF PlaceInv, Others
<1>5. DuplicateInv'
  BY <1>1, <1>2 DEF DuplicateInv, NoDuplicate, Others
<1>6. ~spoilt /\ ~spoilt' /\ intended' = intended => WriterInv' /\ FileIsIntended'
  BY <1>1, <1>2 DEF WriterInv, FileIsIntended, Others
<1> QED
  BY <1>1, <1>2, <1>3, <1>4, <1>5, <1>6, Assemble

LEMMA ReadEditKeeps ==
  ASSUME StoreInv, NEW r \in Requests, ReadEdit(r), Chronicle(intended)
  PROVE  StoreInv'
<1> USE DEF StoreInv
<1>1. /\ file' \in Inodes /\ tmp' \in Inodes \cup {NoInode} /\ tmp' # file'
      /\ content' \in [Inodes -> Texts]
      /\ content'[file] = content[file] /\ UNCHANGED <<file, tmp>>
      /\ tmp # NoInode => content'[tmp] = content[tmp]
  BY HoldKeeps DEF ReadEdit, nameVars, TypeOK, PlaceInv
<1>2. /\ RequestTypes' /\ Others(r)
      /\ at'[r] = "open" /\ query'[r] = query[r] /\ query[r].op \in Edits
      /\ doc'[r] = Edited(query[r], content[ino[r]]) /\ Unique(doc'[r])
      /\ at[r] = "content"
  <2>1. /\ at' = [at EXCEPT ![r] = "open"] /\ ino' = [ino EXCEPT ![r] = NoInode]
        /\ doc' = [doc EXCEPT ![r] = Edited(query[r], content[ino[r]])]
        /\ UNCHANGED query /\ at[r] = "content"
    BY DEF ReadEdit, Goto
  <2>2. /\ query[r].op \in Edits /\ content[ino[r]] # Cut
        /\ Unique(Edited(query[r], content[ino[r]]))
    BY DEF ReadEdit, Editable, Valid
  <2>3. ino[r] \in Inodes /\ query[r] \in Queries
    BY <2>1 DEF TypeOK
  <2>4. content[ino[r]] \in SUBSET Blocks
    BY <2>2, <2>3 DEF TypeOK, Texts
  <2>5. Edited(query[r], content[ino[r]]) \in Texts
    BY <2>2, <2>3, <2>4, EditedType DEF Edits, Texts
  <2>6. /\ doc'[r] = Edited(query[r], content[ino[r]])
        /\ doc' \in [Requests -> Texts]
    BY <2>1, <2>5 DEF TypeOK
  <2> QED BY <2>1, <2>2, <2>6 DEF RequestTypes, Others, TypeOK
<1>3. \A s \in Requests : at'[s] \in {"content", "write", "rename"} => ino'[s] \in Inodes
  BY <1>1, <1>2 DEF Others, TypeOK
<1>4. PlaceInv'
  BY <1>1, <1>2 DEF PlaceInv, Others, Edits
<1>5. DuplicateInv'
  BY <1>1, <1>2 DEF DuplicateInv, NoDuplicate, Others
<1>6. ~spoilt /\ ~spoilt' /\ intended' = intended => WriterInv' /\ FileIsIntended'
  BY <1>1, <1>2 DEF WriterInv, FileIsIntended, Others
<1> QED
  BY <1>1, <1>2, <1>3, <1>4, <1>5, <1>6, Assemble

LEMMA ReadOnlyKeeps ==
  ASSUME StoreInv, NEW r \in Requests, ReadOnly(r), Chronicle(intended)
  PROVE  StoreInv'
<1> USE DEF StoreInv
<1>1. /\ file' \in Inodes /\ tmp' \in Inodes \cup {NoInode} /\ tmp' # file'
      /\ content' \in [Inodes -> Texts]
      /\ content'[file] = content[file] /\ UNCHANGED <<file, tmp>>
      /\ tmp # NoInode => content'[tmp] = content[tmp]
  BY HoldKeeps DEF ReadOnly, nameVars, TypeOK, PlaceInv
<1>2. /\ RequestTypes' /\ Others(r)
      /\ at'[r] = "idle"
  BY FinishKeeps DEF ReadOnly, RequestTypes, TypeOK
<1>3. \A s \in Requests : at'[s] \in {"content", "write", "rename"} => ino'[s] \in Inodes
  BY <1>1, <1>2 DEF Others, TypeOK
<1>4. PlaceInv'
  BY <1>1, <1>2 DEF PlaceInv, Others
<1>5. DuplicateInv'
  BY <1>1, <1>2 DEF DuplicateInv, NoDuplicate, Others
<1>6. ~spoilt /\ ~spoilt' /\ intended' = intended => WriterInv' /\ FileIsIntended'
  BY <1>1, <1>2 DEF WriterInv, FileIsIntended, Others
<1> QED
  BY <1>1, <1>2, <1>3, <1>4, <1>5, <1>6, Assemble

LEMMA OpenTmpKeeps ==
  ASSUME StoreInv, NEW r \in Requests, OpenTmp(r), Chronicle(intended)
  PROVE  StoreInv'
<1> USE DEF StoreInv
<1>1. /\ file' \in Inodes /\ tmp' \in Inodes \cup {NoInode} /\ tmp' # file'
      /\ content' \in [Inodes -> Texts]
      /\ UNCHANGED file /\ content'[file] = content[file]
      /\ tmp' \in Inodes /\ content'[tmp'] = Cut
      /\ tmp # NoInode => tmp' = tmp
      /\ \A s \in Requests : ino[s] = tmp' => tmp' = tmp
  <2>1. PICK i \in WritesTo : tmp' = i /\ content' = [content EXCEPT ![i] = Cut]
    BY DEF OpenTmp
  <2>2. i \in Inodes /\ i # file
    BY <2>1 DEF WritesTo, Free, TypeOK, PlaceInv
  <2>3. Cut \in Texts
    BY DEF Texts
  <2>4. /\ tmp # NoInode => i = tmp
        /\ \A s \in Requests : ino[s] = i => i = tmp
    BY <2>1 DEF WritesTo, Free
  <2>5. UNCHANGED file
    BY DEF OpenTmp
  <2> QED BY <2>1, <2>2, <2>3, <2>4, <2>5 DEF TypeOK
<1>2. /\ RequestTypes' /\ Others(r)
      /\ at'[r] = "write" /\ query'[r] = query[r] /\ doc'[r] = doc[r]
      /\ ino'[r] = tmp' /\ at[r] = "open"
  <2>1. /\ at' = [at EXCEPT ![r] = "write"] /\ UNCHANGED <<query, doc>>
        /\ ino' = [ino EXCEPT ![r] = tmp'] /\ at[r] = "open"
    BY DEF OpenTmp, Goto
  <2> QED BY <1>1, <2>1 DEF RequestTypes, Others, TypeOK
<1>3. \A s \in Requests : at'[s] \in {"content", "write", "rename"} => ino'[s] \in Inodes
  BY <1>1, <1>2 DEF Others, TypeOK
<1>4. PlaceInv'
  BY <1>1, <1>2 DEF PlaceInv, Others
<1>5. DuplicateInv'
  BY <1>1, <1>2 DEF DuplicateInv, NoDuplicate, Others
<1>6. ~spoilt /\ ~spoilt' /\ intended' = intended => WriterInv' /\ FileIsIntended'
  <2>1. \A s \in Requests : at[s] \in {"write", "rename"} => ino[s] # NoInode
    BY StoreAssumption DEF TypeOK
  <2> QED BY <1>1, <1>2, <2>1 DEF WriterInv, FileIsIntended, Others
<1> QED
  BY <1>1, <1>2, <1>3, <1>4, <1>5, <1>6, Assemble

LEMMA OpenTmpFailsKeeps ==
  ASSUME StoreInv, NEW r \in Requests, OpenTmpFails(r), Chronicle(intended)
  PROVE  StoreInv'
<1> USE DEF StoreInv
<1>1. /\ file' \in Inodes /\ tmp' \in Inodes \cup {NoInode} /\ tmp' # file'
      /\ content' \in [Inodes -> Texts]
      /\ UNCHANGED <<file, tmp, content>>
  BY HoldKeeps DEF OpenTmpFails, nameVars, TypeOK, PlaceInv
<1>2. /\ RequestTypes' /\ Others(r)
      /\ at'[r] = "idle"
  BY FinishKeeps DEF OpenTmpFails, RequestTypes, TypeOK
<1>3. \A s \in Requests : at'[s] \in {"content", "write", "rename"} => ino'[s] \in Inodes
  BY <1>1, <1>2 DEF Others, TypeOK
<1>4. PlaceInv'
  BY <1>1, <1>2 DEF PlaceInv, Others
<1>5. DuplicateInv'
  BY <1>1, <1>2 DEF DuplicateInv, NoDuplicate, Others
<1>6. ~spoilt /\ ~spoilt' /\ intended' = intended => WriterInv' /\ FileIsIntended'
  BY <1>1, <1>2 DEF WriterInv, FileIsIntended, Others
<1> QED
  BY <1>1, <1>2, <1>3, <1>4, <1>5, <1>6, Assemble

LEMMA WriteTmpKeeps ==
  ASSUME StoreInv, NEW r \in Requests, WriteTmp(r), Chronicle(intended)
  PROVE  StoreInv'
<1> USE DEF StoreInv
<1>1. /\ file' \in Inodes /\ tmp' \in Inodes \cup {NoInode} /\ tmp' # file'
      /\ content' \in [Inodes -> Texts]
      /\ UNCHANGED <<file, tmp>>
      /\ \A i \in Inodes \ {ino[r]} : content'[i] = content[i]
      /\ content'[ino[r]] = doc[r]
  BY HoldKeeps DEF WriteTmp, nameVars, TypeOK, PlaceInv
<1>2. /\ RequestTypes' /\ Others(r)
      /\ at'[r] = "rename" /\ query'[r] = query[r] /\ doc'[r] = doc[r]
      /\ ino'[r] = ino[r] /\ at[r] = "write" /\ ino[r] \in Inodes
  BY DEF WriteTmp, Goto, RequestTypes, Others, TypeOK
<1>3. \A s \in Requests : at'[s] \in {"content", "write", "rename"} => ino'[s] \in Inodes
  BY <1>1, <1>2 DEF Others, TypeOK
<1>4. PlaceInv'
  BY <1>1, <1>2 DEF PlaceInv, Others
<1>5. DuplicateInv'
  BY <1>1, <1>2 DEF DuplicateInv, NoDuplicate, Others
<1>6. ~spoilt /\ ~spoilt' /\ intended' = intended => WriterInv' /\ FileIsIntended'
  BY <1>1, <1>2 DEF WriterInv, FileIsIntended, Others
<1> QED
  BY <1>1, <1>2, <1>3, <1>4, <1>5, <1>6, Assemble

LEMMA WriteShortKeeps ==
  ASSUME StoreInv, NEW r \in Requests, WriteShort(r), Chronicle(intended)
  PROVE  StoreInv'
<1> USE DEF StoreInv
<1>1. /\ file' \in Inodes /\ tmp' \in Inodes \cup {NoInode} /\ tmp' # file'
      /\ content' \in [Inodes -> Texts]
      /\ UNCHANGED <<file, tmp>>
      /\ \A i \in Inodes \ {ino[r]} : i \in {file, tmp} => content'[i] = content[i]
      /\ ino[r] \in {file, tmp} => content'[ino[r]] = Cut
  <2> DEFINE c == [content EXCEPT ![ino[r]] = Cut]
  <2>1. Cut \in Texts
    BY DEF Texts
  <2>2. /\ c \in [Inodes -> Texts]
        /\ \A i \in Inodes \ {ino[r]} : c[i] = content[i]
        /\ ino[r] \in Inodes => c[ino[r]] = Cut
    BY <2>1 DEF TypeOK
  <2>3. Hold(c) /\ UNCHANGED nameVars
    BY DEF WriteShort
  <2>4. ino[r] \in Inodes
    BY DEF WriteShort, TypeOK
  <2> HIDE DEF c
  <2> QED BY <2>2, <2>3, <2>4, HoldKeeps DEF nameVars, TypeOK, PlaceInv
<1>2. /\ RequestTypes' /\ Others(r)
      /\ at[r] = "write" /\ ino[r] \in Inodes
      /\ \/ at'[r] = "idle"
         \/ /\ at'[r] = "rename" /\ query'[r] = query[r]
            /\ doc'[r] = doc[r] /\ ino'[r] = ino[r]
  <2>1. at[r] = "write" /\ ino[r] \in Inodes /\ RequestTypes
    BY DEF WriteShort, TypeOK, RequestTypes
  <2>2. CASE Finish(r)
    BY <2>1, <2>2, FinishKeeps
  <2>3. CASE at' = [at EXCEPT ![r] = "rename"] /\ UNCHANGED <<query, ino, doc>>
    BY <2>1, <2>3 DEF RequestTypes, Others
  <2> QED BY <2>2, <2>3, <2>1 DEF WriteShort, Goto
<1>3. \A s \in Requests : at'[s] \in {"content", "write", "rename"} => ino'[s] \in Inodes
  BY <1>1, <1>2 DEF Others, TypeOK
<1>4. PlaceInv'
  BY <1>1, <1>2 DEF PlaceInv, Others
<1>5. DuplicateInv'
  BY <1>1, <1>2 DEF DuplicateInv, NoDuplicate, Others
<1>6. ~spoilt /\ ~spoilt' /\ intended' = intended => WriterInv' /\ FileIsIntended'
  <2> SUFFICES ASSUME ~spoilt, ~spoilt', intended' = intended
               PROVE  WriterInv' /\ FileIsIntended'
    OBVIOUS
  <2>1. ino[r] = tmp
    BY <1>2 DEF WriterInv
  <2>2. content'[file] = content[file]
    BY <1>1, <2>1 DEF TypeOK
  <2> QED BY <1>1, <1>2, <2>2 DEF WriterInv, FileIsIntended, Others
<1> QED
  BY <1>1, <1>2, <1>3, <1>4, <1>5, <1>6, Assemble

LEMMA RenameKeeps ==
  ASSUME StoreInv, NEW r \in Requests, Rename(r), Chronicle(Edited(query[r], intended))
  PROVE  StoreInv'
<1> USE DEF StoreInv
<1>1. /\ file' \in Inodes /\ tmp' \in Inodes \cup {NoInode} /\ tmp' # file'
      /\ content' \in [Inodes -> Texts]
      /\ file' = tmp /\ tmp' = NoInode
      /\ content'[file'] = content[tmp]
  BY HoldKeeps DEF Rename, nameVars, TypeOK, PlaceInv
<1>2. /\ RequestTypes' /\ Others(r)
      /\ at'[r] = "idle" /\ at[r] = "rename"
  BY FinishKeeps DEF Rename, RequestTypes, TypeOK
<1>3. \A s \in Requests : at'[s] \in {"content", "write", "rename"} => ino'[s] \in Inodes
  BY <1>1, <1>2 DEF Others, TypeOK
<1>4. PlaceInv'
  BY <1>1, <1>2, <1>3, StoreAssumption DEF PlaceInv, Others, TypeOK
<1>5. DuplicateInv'
  BY <1>1, <1>2 DEF DuplicateInv, NoDuplicate, Others
<1>6. ~spoilt /\ ~spoilt' /\ intended' = Edited(query[r], intended) => WriterInv' /\ FileIsIntended'
  <2> SUFFICES ASSUME ~spoilt, ~spoilt', intended' = Edited(query[r], intended)
               PROVE  WriterInv' /\ FileIsIntended'
    OBVIOUS
  <2>1. content[ino[r]] = doc[r]
    BY <1>2 DEF AloneInv, Torn
  <2>2. ino[r] = tmp /\ doc[r] = Edited(query[r], intended)
    BY <1>2 DEF WriterInv
  <2>3. \A s \in Requests \ {r} : ~InWindow(s)
    BY <1>2 DEF AloneInv, Overlap, InWindow
  <2>4. ASSUME NEW s \in Requests \ {r}, at[s] = "open"
        PROVE  doc[s] = Edited(query[s], intended')
    <3>1. query[s].op = "put"
      BY <2>3, <2>4 DEF InWindow, PlaceInv, TypeOK, Queries, Edits, NoQuery
    <3>2. doc[s] = Edited(query[s], intended)
      BY <2>4 DEF WriterInv
    <3> QED BY <3>1, <3>2, EditedPut
  <2>5. WriterInv'
    BY <1>2, <2>3, <2>4 DEF WriterInv, Others, InWindow
  <2> QED BY <1>1, <2>1, <2>2, <2>5 DEF FileIsIntended
<1> QED
  BY <1>1, <1>2, <1>3, <1>4, <1>5, <1>6, Assemble

LEMMA RenameFailsKeeps ==
  ASSUME StoreInv, NEW r \in Requests, RenameFails(r), Chronicle(intended)
  PROVE  StoreInv'
<1> USE DEF StoreInv
<1>1. /\ file' \in Inodes /\ tmp' \in Inodes \cup {NoInode} /\ tmp' # file'
      /\ content' \in [Inodes -> Texts]
      /\ UNCHANGED <<file, tmp, content>>
  BY HoldKeeps DEF RenameFails, nameVars, TypeOK, PlaceInv
<1>2. /\ RequestTypes' /\ Others(r)
      /\ at'[r] = "remove" /\ query'[r] = query[r] /\ at[r] = "rename"
  BY DEF RenameFails, Goto, RequestTypes, Others, TypeOK
<1>3. \A s \in Requests : at'[s] \in {"content", "write", "rename"} => ino'[s] \in Inodes
  BY <1>1, <1>2 DEF Others, TypeOK
<1>4. PlaceInv'
  BY <1>1, <1>2 DEF PlaceInv, Others
<1>5. DuplicateInv'
  BY <1>1, <1>2 DEF DuplicateInv, NoDuplicate, Others
<1>6. ~spoilt /\ ~spoilt' /\ intended' = intended => WriterInv' /\ FileIsIntended'
  BY <1>1, <1>2 DEF WriterInv, FileIsIntended, Others
<1> QED
  BY <1>1, <1>2, <1>3, <1>4, <1>5, <1>6, Assemble

LEMMA RemoveTmpKeeps ==
  ASSUME StoreInv, NEW r \in Requests, RemoveTmp(r), Chronicle(intended)
  PROVE  StoreInv'
<1> USE DEF StoreInv
<1>1. /\ file' \in Inodes /\ tmp' \in Inodes \cup {NoInode} /\ tmp' # file'
      /\ content' \in [Inodes -> Texts]
      /\ UNCHANGED file /\ tmp' = NoInode
      /\ content'[file] = content[file]
  <2>1. UNCHANGED file /\ tmp' = NoInode /\ Hold(content)
    BY DEF RemoveTmp
  <2>2. file \in Inodes /\ content \in [Inodes -> Texts]
    BY DEF TypeOK
  <2> QED BY <2>1, <2>2, HoldKeeps, StoreAssumption
<1>2. /\ RequestTypes' /\ Others(r)
      /\ at'[r] = "idle" /\ at[r] = "remove"
  BY FinishKeeps DEF RemoveTmp, RequestTypes, TypeOK
<1>3. \A s \in Requests : at'[s] \in {"content", "write", "rename"} => ino'[s] \in Inodes
  BY <1>1, <1>2 DEF Others, TypeOK
<1>4. PlaceInv'
  BY <1>1, <1>2, <1>3, StoreAssumption DEF PlaceInv, Others, TypeOK
<1>5. DuplicateInv'
  BY <1>1, <1>2 DEF DuplicateInv, NoDuplicate, Others
<1>6. ~spoilt /\ ~spoilt' /\ intended' = intended => WriterInv' /\ FileIsIntended'
  <2> SUFFICES ASSUME ~spoilt, ~spoilt', intended' = intended
               PROVE  WriterInv' /\ FileIsIntended'
    OBVIOUS
  <2>1. \A s \in Requests \ {r} : ~InWindow(s)
    BY <1>2 DEF AloneInv, Overlap, InWindow
  <2> QED BY <1>1, <1>2, <2>1 DEF WriterInv, FileIsIntended, Others, InWindow
<1> QED
  BY <1>1, <1>2, <1>3, <1>4, <1>5, <1>6, Assemble

LEMMA CrashKeeps ==
  ASSUME StoreInv, Crash, Chronicle(intended)
  PROVE  StoreInv'
<1> USE DEF StoreInv
<1>1. AloneInv' /\ spoilt' = FALSE
  BY ChronicleAlone DEF Crash, Chronicle
<1>2. /\ content' \in [Inodes -> Texts]
      /\ content'[file] = content[file]
      /\ tmp # NoInode => content'[tmp] = content[tmp]
  BY HoldKeeps DEF Crash, nameVars, TypeOK
<1>3. \A r \in Requests : at'[r] = "idle"
  BY DEF Crash
<1>4. UNCHANGED nameVars
  BY DEF Crash
<1>5. intended' = content'[file']
  BY <1>1, <1>2, <1>4, ChronicleAlone DEF FileIsIntended, nameVars
<1>6. TypeOK'
  <2>1. query' \in [Requests -> Queries]
    BY DEF Crash, Queries
  <2>2. doc' \in [Requests -> Texts]
    <3>1. Cut \in Texts
      BY DEF Texts
    <3> QED BY <3>1 DEF Crash
  <2>3. intended' \in Texts
    BY <1>2, <1>4, <1>5 DEF TypeOK, nameVars
  <2> QED BY <1>1, <1>2, <1>4, <2>1, <2>2, <2>3 DEF Crash, TypeOK, nameVars
<1>7. PlaceInv' /\ DuplicateInv'
  BY <1>2, <1>3, <1>4 DEF PlaceInv, DuplicateInv, NoDuplicate, nameVars
<1> QED
  BY <1>1, <1>3, <1>5, <1>6, <1>7, AllIdle

LEMMA StoreInvNext == StoreInv /\ [Next]_vars => StoreInv'
<1> SUFFICES ASSUME StoreInv, [Next]_vars PROVE StoreInv'
  OBVIOUS
<1>1. CASE UNCHANGED vars
  BY <1>1 DEF vars, nameVars, StoreInv, TypeOK, PlaceInv, DuplicateInv, NoDuplicate, AloneInv,
     WriterInv, FileIsIntended, Overlap, Torn, InWindow
<1>2. CASE \E r \in Requests : Step(r) /\ Chronicle(intended)
  BY <1>2, BeginKeeps, OpenFileKeeps, ReadEditKeeps, ReadOnlyKeeps, OpenTmpKeeps,
     OpenTmpFailsKeeps, WriteTmpKeeps, WriteShortKeeps, RenameFailsKeeps, RemoveTmpKeeps
     DEF Step
<1> QED
  BY <1>1, <1>2, RenameKeeps, CrashKeeps DEF Next

\* The strengthened invariant of the store.
THEOREM StoreInvariance == Spec => []StoreInv
BY StoreInvInit, StoreInvNext, PTL DEF Spec

-----------------------------------------------------------------------------

\* Every variable keeps its type, and a request in the middle of reading or
\* writing has an inode (ConfigStore.cc:72-100, 206-243).
THEOREM StoreTypeCorrect == Spec => []TypeOK
BY StoreInvariance, PTL DEF StoreInv

\* As long as writers do not overlap the file holds what the requests that went
\* through ask for, for any number of requests, readers and crashes.
THEOREM FileAlwaysIntended == Spec => []FileIsIntended
BY StoreInvariance, PTL DEF StoreInv

\* A reader that has the file open is not disturbed by a lone writer.
THEOREM OpenFilesStable == Spec => OpenFileStable
<1> DEFINE Stable == \A r \in Requests :
             ~spoilt' /\ at[r] = "content" /\ at'[r] = "content"
               => content'[ino[r]] = content[ino[r]]
<1>1. StoreInv /\ [Next]_vars => [Stable]_vars
  <2> SUFFICES ASSUME StoreInv, Next, NEW r \in Requests,
                      ~spoilt', at[r] = "content", at'[r] = "content"
               PROVE  content'[ino[r]] = content[ino[r]]
    OBVIOUS
  <2>1. ino[r] \in Inodes /\ ino[r] # tmp
    BY DEF StoreInv, TypeOK, PlaceInv
  <2>2. ~spoilt
    BY ChronicleAlone DEF Next
  <2>3. content \in [Inodes -> Texts]
    BY DEF StoreInv, TypeOK
  <2>4. ASSUME NEW s \in Requests, Step(s) \/ Rename(s)
        PROVE  content'[ino[r]] = content[ino[r]]
    <3>1. CASE WriteTmp(s)
      BY <3>1, <2>1, <2>2, <2>3 DEF WriteTmp, StoreInv, WriterInv
    <3>2. CASE OpenTmp(s)
      BY <3>2, <2>1, <2>3 DEF OpenTmp, WritesTo, Free
    <3>3. CASE Begin(s) \/ OpenFile(s) \/ OpenTmpFails(s) \/ RenameFails(s)
      BY <3>3 DEF Begin, OpenFile, OpenTmpFails, RenameFails
    <3>4. CASE WriteShort(s)
      <4>1. s # r /\ ino[s] = tmp
        BY <3>4, <2>2 DEF WriteShort, StoreInv, WriterInv
      <4>2. ino'[r] = ino[r]
        BY <3>4, <4>1 DEF WriteShort, Finish, StoreInv, TypeOK
      <4> DEFINE c == [content EXCEPT ![ino[s]] = Cut]
      <4>3. c \in [Inodes -> Texts] /\ Hold(c)
        <5>1. Cut \in Texts
          BY DEF Texts
        <5>2. Hold(c)
          BY <3>4 DEF WriteShort
        <5> QED BY <5>1, <5>2, <2>3
      <4>4. c[ino[r]] = content[ino[r]]
        BY <4>1, <2>1, <2>3
      <4> HIDE DEF c
      <4> QED BY <4>2, <4>3, <4>4, <2>1, HoldKeeps
    <3>5. CASE ReadEdit(s) \/ ReadOnly(s) \/ Rename(s) \/ RemoveTmp(s)
      <4>1. s # r
        BY <3>5 DEF ReadEdit, ReadOnly, Rename, RemoveTmp, Finish, Goto, StoreInv, TypeOK
      <4>2. ino'[r] = ino[r] /\ Hold(content)
        BY <3>5, <4>1 DEF ReadEdit, ReadOnly, Rename, RemoveTmp, Finish, StoreInv, TypeOK
      <4> QED BY <4>2, <2>1, <2>3, HoldKeeps
    <3> QED BY <2>4, <3>1, <3>2, <3>3, <3>4, <3>5 DEF Step
  <2>5. ~Crash
    BY DEF Crash
  <2> QED BY <2>4, <2>5 DEF Next
<1>2. OpenFileStable <=> [][Stable]_vars
  BY DEF OpenFileStable
<1> QED
  BY <1>1, <1>2, StoreInvariance, PTL DEF Spec

\* No step makes a file with an id twice of one without, however requests overlap.
THEOREM DuplicatesKeptOut == Spec => NoNewDuplicates
<1> DEFINE Kept ==
      (content[file] = Cut \/ Unique(content[file]))
        => LET d == content'[file'] IN d = Cut \/ Unique(d)
<1>1. StoreInv /\ [Next]_vars => [Kept]_vars
  <2> SUFFICES ASSUME StoreInv, Next, NoDuplicate(content[file])
               PROVE  NoDuplicate(content'[file'])
    BY DEF NoDuplicate
  <2>1. file \in Inodes /\ content \in [Inodes -> Texts] /\ tmp # file
    BY DEF StoreInv, TypeOK, PlaceInv
  <2>2. ASSUME NEW s \in Requests, Step(s) \/ Rename(s)
        PROVE  NoDuplicate(content'[file'])
    <3>1. CASE WriteTmp(s)
      <4>1. NoDuplicate(doc[s]) /\ UNCHANGED file
        BY <3>1 DEF WriteTmp, nameVars, StoreInv, DuplicateInv
      <4> QED BY <3>1, <4>1, <2>1 DEF WriteTmp
    <3>2. CASE OpenTmp(s)
      BY <3>2, <2>1 DEF OpenTmp, WritesTo, Free
    <3>3. CASE Begin(s) \/ OpenFile(s) \/ OpenTmpFails(s) \/ RenameFails(s)
      BY <3>3 DEF Begin, OpenFile, OpenTmpFails, RenameFails, nameVars
    <3>4. CASE WriteShort(s)
      <4> DEFINE c == [content EXCEPT ![ino[s]] = Cut]
      <4>1. c \in [Inodes -> Texts] /\ Hold(c) /\ UNCHANGED file
        <5>1. Cut \in Texts
          BY DEF Texts
        <5>2. Hold(c) /\ UNCHANGED file
          BY <3>4 DEF WriteShort, nameVars
        <5> QED BY <5>1, <5>2, <2>1
      <4>2. NoDuplicate(c[file])
        BY <2>1 DEF NoDuplicate
      <4> HIDE DEF c
      <4> QED BY <4>1, <4>2, <2>1, HoldKeeps
    <3>5. CASE ReadEdit(s) \/ ReadOnly(s) \/ RemoveTmp(s)
      <4>1. UNCHANGED file /\ Hold(content)
        BY <3>5 DEF ReadEdit, ReadOnly, RemoveTmp, nameVars
      <4> QED BY <4>1, <2>1, HoldKeeps
    <3>6. CASE Rename(s)
      <4>1. file' = tmp /\ Hold(content) /\ tmp \in Inodes
        BY <3>6 DEF Rename, StoreInv, TypeOK
      <4>2. NoDuplicate(content[tmp])
        BY <4>1, StoreAssumption DEF StoreInv, DuplicateInv
      <4> QED BY <4>1, <4>2, <2>1, HoldKeeps
    <3> QED BY <2>2, <3>1, <3>2, <3>3, <3>4, <3>5, <3>6 DEF Step
  <2>3. CASE Crash
    <3>1. UNCHANGED file /\ Hold(content)
      BY <2>3 DEF Crash, nameVars
    <3> QED BY <3>1, <2>1, HoldKeeps
  <2> QED BY <2>2, <2>3 DEF Next
<1>2. NoNewDuplicates <=> [][Kept]_vars
  BY DEF NoNewDuplicates
<1> QED
  BY <1>1, <1>2, StoreInvariance, PTL DEF Spec
-----------------------------------------------------------------------------
(* The file as a register                                                  *)

\* What a writer that is alone is to publish still fits what is in force.
FitInv ==
  ~spoilt =>
    \A r \in Requests :
      at[r] \in {"open", "write", "rename"} =>
        /\ Fits(query[r], intended)
        /\ intended = Cut => query[r].op = "put"

LEMMA FitInvStep ==
  ASSUME StoreInv, FitInv, NEW r \in Requests, Step(r), Chronicle(intended)
  PROVE  FitInv'
<1> SUFFICES ASSUME ~spoilt', NEW s \in Requests, at'[s] \in {"open", "write", "rename"}
             PROVE  /\ Fits(query'[s], intended')
                    /\ intended' = Cut => query'[s].op = "put"
  BY DEF FitInv
<1>1. ~spoilt /\ intended' = intended
  BY ChronicleAlone
<1>2. RequestTypes
  BY DEF StoreInv, TypeOK, RequestTypes
<1>3. CASE at[s] \in {"open", "write", "rename"} /\ query'[s] = query[s]
  BY <1>1, <1>3 DEF FitInv
<1>4. CASE at[s] \notin {"open", "write", "rename"} \/ query'[s] # query[s]
  <2>1. CASE Begin(r)
    <3>1. query'[s].op = "put"
      BY <2>1, <1>2, <1>4 DEF Begin, Goto, RequestTypes
    <3> QED BY <3>1 DEF Fits
  <2>2. CASE ReadEdit(r)
    <3>1. s = r /\ at[r] = "content" /\ query'[r] = query[r]
      BY <2>2, <1>2, <1>4 DEF ReadEdit, Goto, RequestTypes
    <3>2. query[r].op \in Edits /\ content[ino[r]] # Cut /\ Fits(query[r], content[ino[r]])
      BY <2>2 DEF ReadEdit, Editable
    <3>3. content[ino[r]] = intended
      BY <3>1, <3>2, <1>1 DEF StoreInv, WriterInv, FileIsIntended
    <3> QED BY <3>1, <3>2, <3>3, <1>1
  <2>3. CASE Finish(r)
    <3>1. s # r
      BY <2>3, FinishKeeps, <1>2
    <3> QED BY <3>1, <2>3, <1>2, <1>4, FinishKeeps DEF Others
  <2>4. CASE OpenFile(r) \/ RenameFails(r)
    BY <2>4, <1>2, <1>4 DEF OpenFile, RenameFails, Goto, RequestTypes
  <2>5. CASE OpenTmp(r) \/ WriteTmp(r)
    BY <2>5, <1>2, <1>4 DEF OpenTmp, WriteTmp, Goto, RequestTypes
  <2>6. CASE at[r] = "write" /\ Goto(r, "rename") /\ UNCHANGED <<query, ino, doc>>
    BY <2>6, <1>2, <1>4 DEF Goto, RequestTypes
  <2>7. ReadOnly(r) \/ OpenTmpFails(r) \/ RemoveTmp(r) => Finish(r)
    BY DEF ReadOnly, OpenTmpFails, RemoveTmp
  <2>8. WriteShort(r) =>
          \/ Finish(r)
          \/ at[r] = "write" /\ Goto(r, "rename") /\ UNCHANGED <<query, ino, doc>>
    BY DEF WriteShort
  <2> QED BY <2>1, <2>2, <2>3, <2>4, <2>5, <2>6, <2>7, <2>8 DEF Step
<1> QED
  BY <1>3, <1>4

LEMMA FitInvRename ==
  ASSUME StoreInv, FitInv, NEW r \in Requests, Rename(r), Chronicle(Edited(query[r], intended))
  PROVE  FitInv'
<1> SUFFICES ASSUME ~spoilt', NEW s \in Requests, at'[s] \in {"open", "write", "rename"}
             PROVE  /\ Fits(query'[s], intended')
                    /\ intended' = Cut => query'[s].op = "put"
  BY DEF FitInv
<1>1. RequestTypes /\ Finish(r) /\ at[r] = "rename"
  BY DEF Rename, StoreInv, TypeOK, RequestTypes
<1>2. s # r /\ at[s] = at'[s] /\ query'[s] = query[s]
  BY <1>1, FinishKeeps DEF Others
<1>3. ~spoilt
  BY <1>2, ChronicleAlone
<1>4. ~InWindow(s)
  BY <1>1, <1>2, <1>3 DEF StoreInv, AloneInv, Overlap, InWindow
<1>5. query[s].op = "put"
  BY <1>2, <1>4 DEF InWindow, StoreInv, TypeOK, PlaceInv, Queries, Edits, NoQuery
<1> QED
  BY <1>2, <1>5 DEF Fits

LEMMA FitInvariance == Spec => []FitInv
<1>1. Init => FitInv
  BY DEF Init, FitInv
<1>2. StoreInv /\ FitInv /\ Next => FitInv'
  <2>1. Crash => \A r \in Requests : at'[r] = "idle"
    BY DEF Crash
  <2>2. ASSUME FitInv, Crash PROVE FitInv'
    BY <2>1, <2>2 DEF FitInv
  <2> QED BY <2>2, FitInvStep, FitInvRename DEF Next
<1>3. FitInv /\ UNCHANGED vars => FitInv'
  BY DEF vars, FitInv
<1> QED
  BY <1>1, <1>2, <1>3, StoreInvariance, PTL DEF Spec

\* While nothing is spoilt only a rename changes what the file holds, and the
\* request that renames leaves what its query makes of the document in force.
LEMMA StepStutters ==
  ASSUME StoreInv, StoreInv', NEW c, Chronicle(c), ~spoilt, ~spoilt'
  PROVE  content[file] = intended /\ content'[file'] = c
BY ChronicleAlone DEF StoreInv, FileIsIntended

\* What a writer that is alone is to publish is a whole document.
LEMMA PublishedWhole ==
  ASSUME StoreInv, FitInv, ~spoilt, NEW r \in Requests, at[r] \in {"open", "write", "rename"}
  PROVE  doc[r] = Edited(query[r], intended) /\ doc[r] # Cut
<1> DEFINE q == query[r]
<1>1. q \in Queries /\ q.op # "get" /\ intended \in Texts /\ doc[r] = Edited(q, intended)
  BY DEF StoreInv, TypeOK, PlaceInv, WriterInv
<1>2. intended = Cut => q.op = "put"
  BY DEF FitInv
<1>3. CASE intended \in SUBSET Blocks
  BY <1>1, <1>3, EditedType, DocumentAssumption
<1>4. CASE intended = Cut
  <2>1. Edited(q, intended) = q.doc /\ q.doc \in Documents
    BY <1>1, <1>2, <1>4, EditedPut DEF Queries, Edits, NoQuery
  <2> QED BY <1>1, <2>1, DocumentAssumption
<1> QED
  BY <1>1, <1>3, <1>4 DEF Texts

\* A writer at its rename carries out its query on the document in force.
LEMMA RenameCommits ==
  ASSUME StoreInv, StoreInv', FitInv, NEW r \in Requests, Rename(r),
         Chronicle(Edited(query[r], intended)), ~spoilt, ~spoilt'
  PROVE  Register!Commit(query[r])
<1> DEFINE q == query[r]
<1>1. content[file] = intended /\ content'[file'] = Edited(q, intended)
  BY StepStutters
<1>2. /\ at[r] = "rename" /\ q \in Queries /\ q.op # "get"
      /\ intended \in Texts /\ doc[r] = Edited(q, intended) /\ NoDuplicate(doc[r])
  BY DEF Rename, StoreInv, TypeOK, PlaceInv, WriterInv, DuplicateInv
<1>3. Fits(q, intended) /\ (intended = Cut => q.op = "put")
  BY <1>2 DEF FitInv
<1>4. Edited(q, intended) # Cut
  BY <1>2, PublishedWhole
<1>5. Valid(Edited(q, intended))
  BY <1>2, <1>4 DEF NoDuplicate, Valid
<1>6. /\ Register!Fits(q, content[file]) <=> Fits(q, intended)
      /\ Register!Edited(q, content[file]) = Edited(q, intended)
      /\ Register!Valid(Edited(q, intended)) <=> Valid(Edited(q, intended))
  BY <1>1 DEF Register!Fits, Fits, Register!First, First, Register!HasId, HasId, Register!Edited, Edited,
     Register!Valid, Valid, Register!Unique, Unique
<1> HIDE DEF q
<1>7. spoilt' = spoilt
  BY DEF StoreInv, TypeOK
<1>8. Register!Commit(q)
  BY <1>1, <1>2, <1>3, <1>5, <1>6, <1>7 DEF Register!Commit
<1> QED
  BY <1>8 DEF q

\* Every step is one whole edit, or leaves the document alone, or requests are in
\* each other's way and still bring no id in twice.
LEMMA RegisterStep ==
  ASSUME StoreInv, StoreInv', FitInv, Next,
         NoDuplicate(content[file]) => NoDuplicate(content'[file'])
  PROVE  Register!Next \/ UNCHANGED <<content[file], spoilt>>
<1>1. CASE spoilt \/ spoilt'
  <2>1. content[file] \in Texts /\ content'[file'] \in Texts /\ spoilt' \in BOOLEAN
    BY DEF StoreInv, TypeOK
  <2>2. /\ Register!Texts = Texts
        /\ \A d : Register!Valid(d) <=> Unique(d)
    BY DEF Register!Texts, Texts, Register!Valid, Register!Unique, Unique
  <2>3. Register!Disturb
    BY <1>1, <2>1, <2>2 DEF Register!Disturb, NoDuplicate
  <2> QED BY <2>3 DEF Register!Next
<1>2. CASE ~spoilt /\ ~spoilt'
  <2>1. CASE \E r \in Requests : Step(r) /\ Chronicle(intended)
    BY <1>2, <2>1, StepStutters DEF StoreInv, TypeOK
  <2>2. CASE Crash /\ Chronicle(intended)
    BY <1>2, <2>2, StepStutters DEF StoreInv, TypeOK
  <2>3. CASE \E r \in Requests : Rename(r) /\ Chronicle(Edited(query[r], intended))
    <3>1. PICK r \in Requests : Rename(r) /\ Chronicle(Edited(query[r], intended))
      BY <2>3
    <3>2. query[r] \in Register!Queries
      BY <3>1 DEF StoreInv, TypeOK, Queries, Register!Queries, Edits, Register!Edits,
         NoQuery, Register!NoQuery
    <3> QED BY <3>1, <3>2, <1>2, RenameCommits DEF Register!Next
  <2> QED BY <2>1, <2>2, <2>3 DEF Next
<1> QED
  BY <1>1, <1>2

\* The four steps of a request on the file system make one step of a register
\* that holds the document (ConfigStore.cc:206-243): for any number of requests,
\* crashes and full disks, the file changes by whole edits of what it holds as
\* long as writers do not overlap.
THEOREM RegisterImplemented == Spec => ImplementsRegister
<1>1. Init => Register!Init
  BY DEF Init, Register!Init
<1>2. StoreInv /\ StoreInv' /\ FitInv /\ [Next]_vars
        /\ [NoDuplicate(content[file]) => NoDuplicate(content'[file'])]_vars
        => [Register!Next]_<<content[file], spoilt>>
  <2>1. UNCHANGED vars => UNCHANGED <<content[file], spoilt>>
    BY DEF vars, nameVars
  <2> QED BY <2>1, RegisterStep
<1>3. NoNewDuplicates
        <=> [][NoDuplicate(content[file]) => NoDuplicate(content'[file'])]_vars
  BY DEF NoNewDuplicates, NoDuplicate
<1> QED
  BY <1>1, <1>2, <1>3, StoreInvariance, FitInvariance, DuplicatesKeptOut, PTL
     DEF Spec, ImplementsRegister, Register!Spec, Register!vars
-----------------------------------------------------------------------------
(* The half-written file needs two writers                                 *)

\* Nothing was ever spoilt and the document in force is whole.
WholeInv == ~spoilt /\ intended # Cut

\* A step after which no two writers overlap, on a disk with room, leaves nobody
\* about to publish something else than its document.
LEMMA StepNotTorn ==
  ASSUME ~DiskMayFill, StoreInv, WholeInv, ~Overlap', NEW r \in Requests,
         Step(r) \/ Rename(r),
         NEW s \in Requests, at'[s] = "rename"
  PROVE  content'[ino'[s]] = doc'[s]
<1>1. /\ content \in [Inodes -> Texts] /\ RequestTypes
      /\ at[s] \in {"write", "rename"} => ino[s] \in Inodes
  BY DEF StoreInv, TypeOK, RequestTypes
<1>2. at[s] = "rename" => content[ino[s]] = doc[s]
  BY DEF WholeInv, StoreInv, AloneInv, Torn
<1>3. ~WriteShort(r)
  BY DEF WriteShort
<1>4. CASE WriteTmp(r)
  <2>1. at'[r] = "rename"
    BY <1>1, <1>4 DEF WriteTmp, Goto, RequestTypes
  <2>2. s = r
    BY <2>1 DEF Overlap, InWindow
  <2> QED BY <2>2, <1>1, <1>4 DEF WriteTmp
<1>5. CASE OpenTmp(r)
  <2>1. at'[r] = "write"
    BY <1>1, <1>5 DEF OpenTmp, Goto, RequestTypes
  <2> QED BY <2>1 DEF Overlap, InWindow
<1>6. CASE ReadOnly(r) \/ OpenTmpFails(r) \/ RemoveTmp(r) \/ Rename(r)
  <2>1. Finish(r) /\ (Hold(content) \/ UNCHANGED content)
    BY <1>6 DEF ReadOnly, OpenTmpFails, RemoveTmp, Rename
  <2>2. s # r /\ ino'[s] = ino[s] /\ doc'[s] = doc[s] /\ at[s] = "rename"
    BY <1>1, <2>1, FinishKeeps DEF Others
  <2> QED BY <2>1, <2>2, <1>1, <1>2, HoldKeeps
<1>7. CASE Begin(r) \/ OpenFile(r) \/ RenameFails(r)
  <2>1. (at'[r] # "rename" /\ UNCHANGED <<content, ino>>) \/ OpenFile(r)
    BY <1>1, <1>7 DEF Begin, RenameFails, Goto, RequestTypes
  <2>2. s # r /\ ino'[s] = ino[s] /\ doc'[s] = doc[s] /\ at[s] = "rename" /\ UNCHANGED content
    BY <1>1, <1>7, <2>1 DEF Begin, OpenFile, RenameFails, Goto, RequestTypes
  <2> QED BY <2>2, <1>2
<1>8. CASE ReadEdit(r)
  <2>1. s # r /\ ino'[s] = ino[s] /\ doc'[s] = doc[s] /\ at[s] = "rename" /\ Hold(content)
    BY <1>1, <1>8 DEF ReadEdit, Goto, RequestTypes
  <2> QED BY <2>1, <1>1, <1>2, HoldKeeps
<1> QED
  BY <1>3, <1>4, <1>5, <1>6, <1>7, <1>8 DEF Step

LEMMA WholeInvNext ==
  ASSUME ~DiskMayFill, StoreInv, FitInv, WholeInv, ~Overlap', Next
  PROVE  WholeInv'
<1>1. ~spoilt /\ intended # Cut
  BY DEF WholeInv
<1>2. ~Torn'
  BY StepNotTorn DEF Next, Crash, Torn
<1>3. ASSUME NEW c, Chronicle(c), c # Cut PROVE WholeInv'
  BY <1>1, <1>2, <1>3 DEF Chronicle, WholeInv
<1>4. ASSUME NEW r \in Requests, Rename(r), Chronicle(Edited(query[r], intended))
      PROVE  WholeInv'
  BY <1>1, <1>3, <1>4, PublishedWhole DEF Rename
<1> QED
  BY <1>1, <1>3, <1>4 DEF Next

\* ConfigStore.h:75-77 against the run that breaks it: on a disk with room the
\* file is found half written only if two writers overlap, whatever crashes and
\* however many requests only read.  A lock around read, edit and write is enough.
THEOREM HalfWrittenNeedsOverlap ==
  ASSUME ~DiskMayFill
  PROVE  Spec /\ [](~Overlap) => []NeverHalfWritten
<1>1. Init => WholeInv
  BY DocumentAssumption DEF Init, WholeInv
<1>2. StoreInv /\ FitInv /\ WholeInv /\ (~Overlap)' /\ [Next]_vars => WholeInv'
  <2>1. WholeInv /\ UNCHANGED vars => WholeInv'
    BY DEF vars, WholeInv
  <2> QED BY <2>1, WholeInvNext
<1>3. StoreInv /\ WholeInv => NeverHalfWritten
  BY DEF StoreInv, WholeInv, FileIsIntended, NeverHalfWritten
<1> QED
  BY <1>1, <1>2, <1>3, StoreInvariance, FitInvariance, PTL DEF Spec
=============================================================================
