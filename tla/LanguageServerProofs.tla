------------------------- MODULE LanguageServerProofs -------------------------
(* The language server's diagnostics and answers are current for any       *)
(* project, any number of URIs of its files and any number of messages in  *)
(* flight: the inductive invariant of LanguageServer, and the properties   *)
(* that follow from it.                                                    *)
EXTENDS LanguageServer, SequenceTheorems, TLAPS

Versions == [Uris -> Texts \cup {None}]
Messages ==
  [kind : {"didOpen", "didChange"}, uri : Uris, text : Texts]
    \cup [kind : {"didSave", "didClose"}, uri : Uris]
    \cup [kind : {"request"}, contents : Snapshot, open : SUBSET Paths]
    \cup [kind : {"exit"}]

-----------------------------------------------------------------------------
(* What the messages in flight say.                                        *)

(* A file is open under one URI at a time.                                 *)
OneUri(d) == \A u, v \in Uris : PathOf[u] = PathOf[v] /\ d[u] # None /\ d[v] # None => u = v
UpTo(d, n) == \A u \in Uris : d[u] # None => d[u] <= n

(* A request says what was open when it was asked, and nothing newer than  *)
(* the disk of the other files.                                            *)
Asked(d, m, dsk) ==
  \A p \in Paths :
    /\ p \in m.open <=> \E u \in Uris : PathOf[u] = p /\ d[u] # None
    /\ \A u \in Uris : PathOf[u] = p /\ d[u] # None => m.contents[p] = d[u]
    /\ p \notin m.open => m.contents[p] <= dsk[p]

(* The message m takes the open documents from d to e.                     *)
Effect(d, m, e, dsk) ==
  \/ /\ m.kind = "didOpen" /\ \A v \in Uris : PathOf[v] = PathOf[m.uri] => d[v] = None
     /\ e = [d EXCEPT ![m.uri] = m.text]
  \/ m.kind = "didChange" /\ d[m.uri] # None /\ e = [d EXCEPT ![m.uri] = m.text]
  \/ m.kind = "didClose" /\ d[m.uri] # None /\ e = [d EXCEPT ![m.uri] = None]
  \/ m.kind \in {"didSave", "exit"} /\ e = d
  \/ m.kind = "request" /\ e = d /\ Asked(d, m, dsk)

(* The messages in flight lead from the documents the server has to those  *)
(* the editor has, through the documents d[1], d[2], ...                   *)
Trail(d, box, from, to, dsk, n) ==
  /\ d \in [0..Len(box) -> Versions]
  /\ d[0] = from /\ d[Len(box)] = to
  /\ \A i \in 0..Len(box) : OneUri(d[i]) /\ UpTo(d[i], n)
  /\ \A i \in 1..Len(box) : Effect(d[i - 1], box[i], d[i], dsk)

Connection ==
  /\ inbox \in Seq(Messages)
  /\ \E d : Trail(d, inbox, documents, buffer, disk, texts)

-----------------------------------------------------------------------------
(* The inductive invariant.                                                *)

Typed ==
  /\ buffer \in Versions /\ disk \in Snapshot
  /\ bad \subseteq Texts /\ texts \in Texts /\ folder \in BOOLEAN
  /\ at \in {"drain", "analyze", "redrain", "publish", "wait", "exited"}
  /\ dirty \in BOOLEAN /\ changed \in BOOLEAN
  /\ documents \in Versions /\ files \in [Paths -> Texts \cup {None}]
  /\ result = None \/ result \in Snapshot
  /\ published \in [Paths -> Uris \cup {None}]

(* Nothing on disk is newer than an open document, or not typed yet.       *)
Saves ==
  /\ \A p \in Paths : disk[p] <= texts
  /\ \A u \in Uris : buffer[u] # None => disk[PathOf[u]] <= buffer[u]

(* The overlay has the text of each open document and no other.            *)
Overlay ==
  /\ \A u \in Uris : documents[u] # None => files[PathOf[u]] = documents[u]
  /\ \A p \in Paths : files[p] # None => \E u \in Uris : PathOf[u] = p /\ documents[u] # None

(* No file is saved by a message in flight.                                *)
SaveFree == \A i \in 1..Len(inbox) : inbox[i].kind # "didSave"

(* A result that is not discarded is that of the documents, and of the     *)
(* disk unless a save is in flight.                                        *)
ResultFresh ==
  at \in {"redrain", "publish"} /\ ~changed =>
    /\ result # None <=> Analyzed
    /\ result # None => \A p \in Paths : files[p] # None => result[p] = files[p]
    /\ result # None /\ SaveFree => result = Contents

(* Diagnostics are shown under the URIs published and no others.           *)
Accounted ==
  /\ \A p \in Paths : published[p] # None => PathOf[published[p]] = p
  /\ \A u \in Uris : shown[u] # None => \E p \in Paths : published[p] = u
  /\ \A p \in Paths : byFile[p] # None => published[p] # None

(* The diagnostics shown are those of what the server has.                 *)
Reported(p) == Analyzed /\ Contents[p] \in bad
Current ==
  /\ \A u \in Uris :
       shown[u] = IF Reported(PathOf[u]) /\ UriOf(PathOf[u], u)
                  THEN [from |-> Contents, version |-> documents[u]] ELSE None
  /\ \A p \in Paths : byFile[p] = IF Reported(p) THEN Contents ELSE None

(* They are whenever nothing says that they are not.                       *)
Settled ==
  /\ at \in {"publish", "wait"} => ~changed
  /\ at = "wait" => ~dirty
  /\ at \in {"drain", "wait"} /\ ~dirty /\ ~changed /\ SaveFree => Current

Versioned ==
  \A u \in Uris : shown[u] # None /\ shown[u].version # None =>
    shown[u].from[PathOf[u]] = shown[u].version

Inv ==
  /\ Typed /\ Connection /\ Saves /\ Overlay /\ ResultFresh /\ Accounted /\ Settled
  /\ Versioned /\ AnswerIsCurrent

-----------------------------------------------------------------------------
(* The messages in flight.                                                 *)

(* What a message does depends on the disk only in that it grows.          *)
LEMMA EffectGrows ==
  ASSUME NEW d, NEW m \in Messages, NEW e, NEW dsk \in Snapshot, NEW dsk2 \in Snapshot,
         \A p \in Paths : dsk[p] <= dsk2[p], Effect(d, m, e, dsk)
  PROVE  Effect(d, m, e, dsk2)
  <1>1. CASE m.kind # "request"
    BY <1>1 DEF Effect
  <1>2. CASE m.kind = "request"
    <2>1. m.contents \in Snapshot
      BY <1>2 DEF Messages
    <2>2. e = d /\ Asked(d, m, dsk)
      BY <1>2 DEF Effect
    <2>3. ASSUME NEW p \in Paths, p \notin m.open PROVE m.contents[p] <= dsk2[p]
      <3>1. m.contents[p] <= dsk[p]
        BY <2>2, <2>3 DEF Asked
      <3>2. m.contents[p] \in Int /\ dsk[p] \in Int /\ dsk2[p] \in Int
        BY <2>1, ServerAssumption DEF Snapshot, Texts
      <3> QED
        BY <3>1, <3>2
    <2>4. Asked(d, m, dsk2)
      BY <2>2, <2>3 DEF Asked
    <2> QED
      BY <1>2, <2>2, <2>4 DEF Effect
  <1> QED
    BY <1>1, <1>2

(* A message sent extends the trail.                                       *)
LEMMA TrailAppend ==
  ASSUME NEW box \in Seq(Messages), NEW m \in Messages, NEW d, NEW from, NEW to,
         NEW to2 \in Versions, NEW dsk \in Snapshot, NEW dsk2 \in Snapshot,
         NEW n \in Texts, NEW n2 \in Texts,
         n <= n2, \A p \in Paths : dsk[p] <= dsk2[p],
         Trail(d, box, from, to, dsk, n),
         Effect(to, m, to2, dsk2), OneUri(to2), UpTo(to2, n2)
  PROVE  \E e : Trail(e, Append(box, m), from, to2, dsk2, n2)
  <1> DEFINE long == Append(box, m)
             e == [i \in 0..Len(long) |-> IF i \in 0..Len(box) THEN d[i] ELSE to2]
  <1>1. /\ Len(box) \in Nat /\ Len(long) = Len(box) + 1 /\ long \in Seq(Messages)
        /\ \A i \in 1..Len(box) : long[i] = box[i] /\ box[i] \in Messages
        /\ long[Len(box) + 1] = m
    BY AppendProperties, ElementOfSeq
  <1> HIDE DEF long
  <1>2. e \in [0..Len(long) -> Versions]
    BY <1>1 DEF Trail
  <1>3. e[0] = from /\ e[Len(long)] = to2
    BY <1>1 DEF Trail
  <1>4. ASSUME NEW i \in 0..Len(long) PROVE OneUri(e[i]) /\ UpTo(e[i], n2)
    <2>1. CASE i \in 0..Len(box)
      <3>1. e[i] = d[i] /\ OneUri(d[i]) /\ UpTo(d[i], n) /\ d[i] \in Versions
        BY <2>1, <1>1 DEF Trail
      <3>2. UpTo(d[i], n2)
        BY <3>1, ServerAssumption DEF UpTo, Versions, Texts
      <3> QED
        BY <3>1, <3>2
    <2>2. CASE i \notin 0..Len(box)
      BY <2>2
    <2> QED
      BY <2>1, <2>2
  <1>5. ASSUME NEW i \in 1..Len(long) PROVE Effect(e[i - 1], long[i], e[i], dsk2)
    <2>1. CASE i \in 1..Len(box)
      <3>1. Effect(d[i - 1], box[i], d[i], dsk) /\ box[i] = long[i] /\ box[i] \in Messages
        BY <2>1, <1>1 DEF Trail
      <3>2. e[i] = d[i] /\ e[i - 1] = d[i - 1]
        BY <2>1, <1>1
      <3> HIDE DEF e
      <3> QED
        BY <3>1, <3>2, EffectGrows
    <2>2. CASE i = Len(box) + 1
      <3>1. e[i - 1] = to /\ e[i] = to2 /\ long[i] = m
        BY <2>2, <1>1 DEF Trail
      <3> HIDE DEF e
      <3> QED
        BY <3>1
    <2> QED
      BY <2>1, <2>2, <1>1
  <1>6. Trail(e, long, from, to2, dsk2, n2)
    <2> HIDE DEF e
    <2> QED
      BY <1>2, <1>3, <1>4, <1>5 DEF Trail
  <1> QED
    BY <1>6 DEF long

(* A message received is the first step of the trail.                      *)
LEMMA TrailTail ==
  ASSUME NEW box \in Seq(Messages), box # <<>>, NEW d, NEW from, NEW to, NEW dsk, NEW n,
         Trail(d, box, from, to, dsk, n)
  PROVE  /\ Effect(from, Head(box), d[1], dsk)
         /\ d[1] \in Versions /\ OneUri(d[1]) /\ UpTo(d[1], n)
         /\ \E e : Trail(e, Tail(box), d[1], to, dsk, n)
  <1> DEFINE rest == Tail(box)
             e == [i \in 0..Len(rest) |-> d[i + 1]]
  <1>1. /\ Len(box) \in Nat \ {0} /\ Len(rest) = Len(box) - 1 /\ Head(box) = box[1]
        /\ \A i \in 1..Len(rest) : rest[i] = box[i + 1]
    BY HeadTailProperties, EmptySeq
  <1> HIDE DEF rest
  <1>2. Effect(from, Head(box), d[1], dsk)
    <2>1. Effect(d[1 - 1], box[1], d[1], dsk)
      BY <1>1 DEF Trail
    <2> QED
      BY <2>1, <1>1 DEF Trail
  <1>3. d[1] \in Versions /\ OneUri(d[1]) /\ UpTo(d[1], n)
    BY <1>1 DEF Trail
  <1>4. e \in [0..Len(rest) -> Versions] /\ e[0] = d[1] /\ e[Len(rest)] = to
    BY <1>1 DEF Trail
  <1>5. \A i \in 0..Len(rest) : OneUri(e[i]) /\ UpTo(e[i], n)
    BY <1>1 DEF Trail
  <1>6. ASSUME NEW i \in 1..Len(rest) PROVE Effect(e[i - 1], rest[i], e[i], dsk)
    <2>1. Effect(d[(i + 1) - 1], box[i + 1], d[i + 1], dsk)
      BY <1>1 DEF Trail
    <2>2. e[i - 1] = d[(i + 1) - 1] /\ e[i] = d[i + 1] /\ rest[i] = box[i + 1]
      BY <1>1
    <2> HIDE DEF e
    <2> QED
      BY <2>1, <2>2
  <1>7. Trail(e, rest, d[1], to, dsk, n)
    <2> HIDE DEF e
    <2> QED
      BY <1>4, <1>5, <1>6 DEF Trail
  <1> QED
    BY <1>2, <1>3, <1>7 DEF rest

LEMMA EndsOfTrail ==
  ASSUME Inv
  PROVE  /\ OneUri(documents) /\ UpTo(documents, texts)
         /\ OneUri(buffer) /\ UpTo(buffer, texts)
  <1>1. PICK d : Trail(d, inbox, documents, buffer, disk, texts)
    BY DEF Inv, Connection
  <1>2. Len(inbox) \in Nat
    BY LenProperties DEF Inv, Connection
  <1> QED
    BY <1>1, <1>2 DEF Trail

(* What the server reads is a text of the editor.                          *)
LEMMA ContentsTyped ==
  ASSUME Inv
  PROVE  Contents \in Snapshot /\ \A p \in Paths : Contents[p] <= texts
  <1>1. \A p \in Paths : files[p] # None => files[p] <= texts
    BY EndsOfTrail DEF Inv, Overlay, UpTo
  <1> QED
    BY <1>1 DEF Inv, Typed, Saves, Contents, Snapshot

-----------------------------------------------------------------------------
LEMMA InitInv == Init => Inv
  <1> SUFFICES ASSUME Init PROVE Inv
    OBVIOUS
  <1>1. Typed
    <2>1. 0 \in Texts
      BY ServerAssumption DEF Texts
    <2>2. bad \subseteq Texts /\ texts \in Texts
      BY <2>1 DEF Init
    <2>3. disk \in Snapshot /\ buffer \in Versions /\ documents \in Versions
      BY <2>1 DEF Init, Snapshot, Versions
    <2>4. files \in [Paths -> Texts \cup {None}] /\ published \in [Paths -> Uris \cup {None}]
      BY DEF Init
    <2> QED
      BY <2>2, <2>3, <2>4 DEF Init, Typed
  <1>2. Connection
    <2> DEFINE d == [i \in 0..0 |-> documents]
    <2>1. inbox \in Seq(Messages) /\ Len(inbox) = 0
      BY EmptySeq DEF Init
    <2>2. d \in [0..0 -> Versions] /\ d[0] = documents
      BY <1>1 DEF Typed
    <2>3. OneUri(documents) /\ UpTo(documents, texts) /\ documents = buffer
      BY DEF Init, OneUri, UpTo
    <2> HIDE DEF d
    <2>4. Trail(d, inbox, documents, buffer, disk, texts)
      BY <2>1, <2>2, <2>3 DEF Trail
    <2> QED
      BY <2>1, <2>4 DEF Connection
  <1>3. Saves /\ Overlay /\ ResultFresh /\ Accounted /\ Settled
    BY ServerAssumption DEF Init, Saves, Overlay, ResultFresh, Accounted, Settled
  <1>4. Versioned /\ AnswerIsCurrent
    BY DEF Init, Versioned, AnswerIsCurrent
  <1> QED
    BY <1>1, <1>2, <1>3, <1>4 DEF Inv

(* The editor sends a message that tells what it does.                     *)
LEMMA MessageInv ==
  ASSUME Inv, NEW m \in Messages, Message(m),
         buffer' \in Versions, disk' \in Snapshot, bad' \subseteq Texts, texts' \in Texts,
         texts <= texts', \A p \in Paths : disk[p] <= disk'[p],
         Effect(buffer, m, buffer', disk'), OneUri(buffer'), UpTo(buffer', texts'),
         Saves', bad \subseteq bad', \A t \in bad' \ bad : t > texts,
         disk' = disk \/ m.kind = "didSave"
  PROVE  Inv'
  <1>1. UNCHANGED <<shown, byFile, answer, at, dirty, changed, folder, documents, files,
                    result, published>> /\ inbox' = Append(inbox, m)
    BY DEF Message, state
  <1>2. Typed'
    BY <1>1 DEF Inv, Typed
  <1>3. inbox \in Seq(Messages) /\ inbox' \in Seq(Messages)
    BY <1>1, AppendProperties DEF Inv, Connection
  <1>4. Connection'
    <2>1. PICK d : Trail(d, inbox, documents, buffer, disk, texts)
      BY DEF Inv, Connection
    <2>2. texts \in Texts /\ disk \in Snapshot
      BY DEF Inv, Typed
    <2>3. \E e : Trail(e, Append(inbox, m), documents, buffer', disk', texts')
      BY <1>3, <2>1, <2>2, TrailAppend
    <2> QED
      BY <1>1, <1>3, <2>3 DEF Connection
  <1>5. Overlay' /\ Accounted' /\ Versioned' /\ AnswerIsCurrent'
    BY <1>1 DEF Inv, Overlay, Accounted, Versioned, AnswerIsCurrent
  <1>6. SaveFree' => SaveFree /\ disk' = disk
    <2>1. /\ Len(inbox) \in Nat /\ Len(inbox') = Len(inbox) + 1 /\ inbox'[Len(inbox) + 1] = m
          /\ \A i \in 1..Len(inbox) : inbox'[i] = inbox[i]
      BY <1>1, <1>3, AppendProperties, LenProperties
    <2> QED
      BY <2>1 DEF SaveFree
  <1>7. Analyzed' = Analyzed /\ (SaveFree' => Contents' = Contents)
    BY <1>1, <1>6 DEF Analyzed, Contents
  <1>8. ResultFresh'
    BY <1>1, <1>6, <1>7 DEF Inv, ResultFresh
  <1>9. Settled'
    <2>1. ASSUME SaveFree', Current PROVE Current'
      <3>1. \A p \in Paths : Contents[p] \in bad' <=> Contents[p] \in bad
        BY ContentsTyped, ServerAssumption DEF Inv, Typed, Snapshot, Texts
      <3>2. \A p \in Paths : Reported(p)' = Reported(p)
        BY <2>1, <1>7, <3>1 DEF Reported
      <3>3. \A p \in Paths, u \in Uris : UriOf(p, u)' = UriOf(p, u)
        BY <1>1 DEF UriOf
      <3>4. \A u \in Uris : PathOf[u] \in Paths
        BY ServerAssumption
      <3> QED
        BY <2>1, <1>1, <1>7, <3>2, <3>3, <3>4 DEF Current
    <2> QED
      BY <1>1, <1>6, <2>1 DEF Inv, Settled
  <1> QED
    BY <1>2, <1>4, <1>5, <1>8, <1>9 DEF Inv

LEMMA EditorOpensInv == ASSUME Inv, NEW u \in Uris, EditorOpens(u) PROVE Inv'
  <1> DEFINE p == PathOf[u]
  <1>m. PICK m : m = [kind |-> "didOpen", uri |-> u, text |-> disk[p]]
    OBVIOUS
  <1>0. disk \in Snapshot /\ bad \subseteq Texts /\ texts \in Texts
    BY DEF Inv, Typed
  <1>1. /\ buffer' = [buffer EXCEPT ![u] = disk[p]] /\ Message(m)
        /\ disk' = disk /\ bad' = bad /\ texts' = texts
        /\ \A v \in Uris : PathOf[v] = p => buffer[v] = None
    BY <1>m DEF EditorOpens, OpenAs
  <1>2. p \in Paths /\ disk[p] \in Texts /\ texts \in Int /\ m \in Messages
    BY <1>m, ServerAssumption DEF Inv, Typed, Snapshot, Messages, Texts
  <1>3. buffer \in Versions /\ buffer' \in Versions
    BY <1>1, <1>2 DEF Inv, Typed, Versions
  <1>4. Effect(buffer, m, buffer', disk')
    BY <1>1, <1>m DEF Effect
  <1>5. OneUri(buffer') /\ UpTo(buffer', texts') /\ Saves'
    BY <1>1, <1>2, <1>3, EndsOfTrail, ServerAssumption
       DEF Inv, OneUri, UpTo, Saves, Versions, Snapshot, Texts, Typed
  <1>6. \A q \in Paths : disk[q] \in Int
    BY DEF Inv, Typed, Snapshot, Texts
  <1>7. /\ texts <= texts' /\ \A q \in Paths : disk[q] <= disk'[q]
        /\ bad \subseteq bad' /\ \A t \in bad' \ bad : t > texts
    BY <1>1, <1>2, <1>6
  <1>8. disk' \in Snapshot /\ bad' \subseteq Texts /\ texts' \in Texts
    BY <1>0, <1>1
  <1>9. Message(m) /\ m \in Messages /\ disk' = disk /\ buffer' \in Versions
    BY <1>1, <1>2, <1>3
  <1> QED
    BY <1>4, <1>5, <1>7, <1>8, <1>9, MessageInv

LEMMA EditorTypesInv == ASSUME Inv, NEW u \in Uris, EditorTypes(u) PROVE Inv'
  <1>m. PICK m : m = [kind |-> "didChange", uri |-> u, text |-> texts + 1]
    OBVIOUS
  <1>0. disk \in Snapshot /\ bad \subseteq Texts /\ texts \in Texts
    BY DEF Inv, Typed
  <1>1. /\ buffer[u] # None /\ texts < MaxTexts /\ texts' = texts + 1
        /\ buffer' = [buffer EXCEPT ![u] = texts + 1] /\ Message(m)
        /\ disk' = disk /\ bad' \in {bad, bad \cup {texts + 1}}
    BY <1>m DEF EditorTypes
  <1>2. texts \in Texts /\ texts' \in Texts /\ texts \in Int /\ m \in Messages
    BY <1>1, <1>m, ServerAssumption DEF Inv, Typed, Messages, Texts
  <1>3. buffer \in Versions /\ buffer' \in Versions
    BY <1>1, <1>2 DEF Inv, Typed, Versions
  <1>4. Effect(buffer, m, buffer', disk')
    BY <1>1, <1>m DEF Effect
  <1>5. OneUri(buffer') /\ UpTo(buffer', texts') /\ Saves'
    BY <1>1, <1>2, <1>3, EndsOfTrail, ServerAssumption
       DEF Inv, OneUri, UpTo, Saves, Versions, Snapshot, Texts, Typed
  <1>6. /\ \A q \in Paths : disk[q] \in Int
        /\ bad' \subseteq Texts /\ bad \subseteq bad' /\ \A t \in bad' \ bad : t > texts
    BY <1>1, <1>2 DEF Inv, Typed, Snapshot, Texts
  <1>7. texts <= texts' /\ \A q \in Paths : disk[q] <= disk'[q]
    BY <1>1, <1>2, <1>6
  <1>8. Message(m) /\ m \in Messages /\ disk' = disk /\ buffer' \in Versions /\ disk' \in Snapshot
    BY <1>0, <1>1, <1>2, <1>3
  <1> QED
    BY <1>2, <1>4, <1>5, <1>6, <1>7, <1>8, MessageInv

LEMMA EditorSavesInv == ASSUME Inv, NEW u \in Uris, EditorSaves(u) PROVE Inv'
  <1> DEFINE p == PathOf[u]
  <1>m. PICK m : m = [kind |-> "didSave", uri |-> u]
    OBVIOUS
  <1>0. disk \in Snapshot /\ bad \subseteq Texts /\ texts \in Texts
    BY DEF Inv, Typed
  <1>1. /\ buffer[u] # None /\ disk' = [disk EXCEPT ![p] = buffer[u]] /\ Message(m)
        /\ buffer' = buffer /\ bad' = bad /\ texts' = texts
    BY <1>m DEF EditorSaves
  <1>2. p \in Paths /\ buffer[u] \in Texts /\ texts \in Int /\ m \in Messages
    BY <1>1, <1>m, ServerAssumption DEF Inv, Typed, Versions, Messages, Texts
  <1>3. buffer \in Versions /\ disk' \in Snapshot
    BY <1>1, <1>2 DEF Inv, Typed, Snapshot
  <1>4. Effect(buffer, m, buffer', disk') /\ m.kind = "didSave"
    BY <1>1, <1>m DEF Effect
  <1>5. OneUri(buffer') /\ UpTo(buffer', texts')
    BY <1>1, EndsOfTrail
  <1>6. \A q \in Paths : disk[q] <= disk'[q]
    BY <1>1, <1>2 DEF Inv, Saves, Typed, Snapshot, Texts
  <1>7. Saves'
    <2>1. buffer[u] <= texts
      BY <1>1, EndsOfTrail DEF UpTo
    <2>2. ASSUME NEW v \in Uris, buffer[v] # None PROVE disk'[PathOf[v]] <= buffer[v]
      <3>1. CASE v = u
        BY <3>1, <1>1, <1>2, <1>3 DEF Inv, Typed, Snapshot, Texts
      <3>2. CASE v # u
        <4>1. PathOf[v] # p /\ PathOf[v] \in Paths
          BY <3>2, <2>2, <1>1, EndsOfTrail, ServerAssumption DEF OneUri
        <4> QED
          BY <4>1, <2>2, <1>1 DEF Inv, Typed, Snapshot, Saves
      <3> QED
        BY <3>1, <3>2
    <2> QED
      BY <2>1, <2>2, <1>1 DEF Inv, Typed, Snapshot, Saves
  <1>8. /\ texts <= texts' /\ bad \subseteq bad' /\ \A t \in bad' \ bad : t > texts
        /\ bad' \subseteq Texts /\ texts' \in Texts
    BY <1>0, <1>1, <1>2
  <1>9. Message(m) /\ m \in Messages /\ buffer' \in Versions
    BY <1>1, <1>2, <1>3
  <1> QED
    BY <1>3, <1>4, <1>5, <1>6, <1>7, <1>8, <1>9, MessageInv

LEMMA EditorClosesInv == ASSUME Inv, NEW u \in Uris, EditorCloses(u) PROVE Inv'
  <1>m. PICK m : m = [kind |-> "didClose", uri |-> u]
    OBVIOUS
  <1>0. disk \in Snapshot /\ bad \subseteq Texts /\ texts \in Texts
    BY DEF Inv, Typed
  <1>1. /\ buffer[u] # None /\ buffer' = [buffer EXCEPT ![u] = None] /\ Message(m)
        /\ disk' = disk /\ bad' = bad /\ texts' = texts
    BY <1>m DEF EditorCloses
  <1>2. buffer \in Versions /\ buffer' \in Versions /\ m \in Messages /\ texts \in Int
    BY <1>1, <1>m DEF Inv, Typed, Versions, Messages, Texts
  <1>3. Effect(buffer, m, buffer', disk')
    BY <1>1, <1>m DEF Effect
  <1>4. OneUri(buffer') /\ UpTo(buffer', texts') /\ Saves'
    BY <1>1, <1>2, EndsOfTrail, ServerAssumption DEF Inv, OneUri, UpTo, Saves, Versions
  <1>5. \A q \in Paths : disk[q] \in Int
    BY DEF Inv, Typed, Snapshot, Texts
  <1>6. /\ texts <= texts' /\ \A q \in Paths : disk[q] <= disk'[q]
        /\ bad \subseteq bad' /\ \A t \in bad' \ bad : t > texts
    BY <1>1, <1>2, <1>5
  <1>7. disk' \in Snapshot /\ bad' \subseteq Texts /\ texts' \in Texts
    BY <1>0, <1>1
  <1>8. Message(m) /\ m \in Messages /\ disk' = disk /\ buffer' \in Versions
    BY <1>1, <1>2
  <1> QED
    BY <1>8, <1>7, <1>3, <1>4, <1>6, MessageInv

LEMMA EditorAsksInv == ASSUME Inv, EditorAsks PROVE Inv'
  <1>m. PICK m : m = [kind |-> "request", contents |-> Wanted,
                      open |-> {p \in Paths : OpenAs(p) # {}}]
    OBVIOUS
  <1>0. /\ disk \in Snapshot /\ bad \subseteq Texts /\ texts \in Texts /\ buffer \in Versions
        /\ OneUri(buffer) /\ UpTo(buffer, texts)
    BY EndsOfTrail DEF Inv, Typed
  <1>1. Message(m) /\ disk' = disk /\ bad' = bad /\ texts' = texts /\ buffer' = buffer
    BY <1>m DEF EditorAsks
  <1>2. ASSUME NEW p \in Paths
        PROVE  /\ OpenAs(p) = {} => Wanted[p] = disk[p]
               /\ OpenAs(p) # {} => \E u \in OpenAs(p) : Wanted[p] = buffer[u]
    BY DEF Wanted
  <1>3. Wanted \in Snapshot
    <2>1. \A p \in Paths : Wanted[p] \in Texts
      BY <1>0, <1>2 DEF OpenAs, Versions, Snapshot
    <2> QED
      BY <2>1 DEF Wanted, Snapshot
  <1>4. m \in Messages
    BY <1>m, <1>3 DEF Messages
  <1>5. Asked(buffer, m, disk')
    <2> SUFFICES ASSUME NEW p \in Paths
                 PROVE  /\ p \in m.open <=> \E u \in Uris : PathOf[u] = p /\ buffer[u] # None
                        /\ \A u \in Uris : PathOf[u] = p /\ buffer[u] # None =>
                             m.contents[p] = buffer[u]
                        /\ p \notin m.open => m.contents[p] <= disk'[p]
      BY DEF Asked
    <2>1. m.contents[p] = Wanted[p] /\ (p \in m.open <=> OpenAs(p) # {})
      BY <1>m
    <2>2. disk[p] \in Int
      BY <1>0 DEF Snapshot, Texts
    <2> QED
      BY <1>0, <1>1, <1>2, <2>1, <2>2 DEF OpenAs, OneUri
  <1>6. Effect(buffer, m, buffer', disk')
    BY <1>m, <1>1, <1>5 DEF Effect
  <1>7. OneUri(buffer') /\ UpTo(buffer', texts') /\ Saves' /\ buffer' \in Versions /\ disk' \in Snapshot
    BY <1>0, <1>1 DEF Inv, Saves
  <1>8. /\ texts <= texts' /\ (\A q \in Paths : disk[q] <= disk'[q])
        /\ bad \subseteq bad' /\ (\A t \in bad' \ bad : t > texts)
        /\ bad' \subseteq Texts /\ texts' \in Texts
    BY <1>0, <1>1 DEF Snapshot, Texts
  <1> QED
    BY <1>1, <1>4, <1>6, <1>7, <1>8, MessageInv

LEMMA EditorLeavesInv == ASSUME Inv, EditorLeaves PROVE Inv'
  <1>m. PICK m : m = [kind |-> "exit"]
    OBVIOUS
  <1>0. /\ disk \in Snapshot /\ bad \subseteq Texts /\ texts \in Texts /\ buffer \in Versions
        /\ OneUri(buffer) /\ UpTo(buffer, texts)
    BY EndsOfTrail DEF Inv, Typed
  <1>1. Message(m) /\ disk' = disk /\ bad' = bad /\ texts' = texts /\ buffer' = buffer
    BY <1>m DEF EditorLeaves
  <1>2. m \in Messages /\ Effect(buffer, m, buffer', disk')
    BY <1>m, <1>1 DEF Messages, Effect
  <1>3. OneUri(buffer') /\ UpTo(buffer', texts') /\ Saves' /\ buffer' \in Versions /\ disk' \in Snapshot
    BY <1>0, <1>1 DEF Inv, Saves
  <1>4. /\ texts <= texts' /\ (\A q \in Paths : disk[q] <= disk'[q])
        /\ bad \subseteq bad' /\ (\A t \in bad' \ bad : t > texts)
        /\ bad' \subseteq Texts /\ texts' \in Texts
    BY <1>0, <1>1 DEF Snapshot, Texts
  <1> QED
    BY <1>1, <1>2, <1>3, <1>4, MessageInv

-----------------------------------------------------------------------------
(* The server handles a message: its documents follow the trail, and       *)
(* whatever the message changes is noted.                                  *)
LEMMA HandleFollows ==
  ASSUME Inv, NEW m \in Messages, NEW d \in Versions, Effect(documents, m, d, disk), OneUri(d),
         Handle(m), UNCHANGED disk
  PROVE  /\ documents' = d /\ files' \in [Paths -> Texts \cup {None}] /\ Overlay'
         /\ AnswerIsCurrent' /\ changed' \in BOOLEAN
         /\ ~changed' => ~changed /\ m.kind # "didSave" /\ UNCHANGED <<documents, files>>
  <1>0. /\ documents \in Versions /\ files \in [Paths -> Texts \cup {None}] /\ changed \in BOOLEAN
        /\ OneUri(documents) /\ Overlay /\ AnswerIsCurrent /\ disk \in Snapshot
    BY EndsOfTrail DEF Inv, Typed
  <1>1. CASE m.kind \in {"didOpen", "didChange"}
    <2>1. m.uri \in Uris /\ m.text \in Texts /\ PathOf[m.uri] \in Paths /\ m.text # None
      BY <1>1, ServerAssumption, NoneAssumption DEF Messages, Texts
    <2>2. /\ files' = [files EXCEPT ![PathOf[m.uri]] = m.text]
          /\ documents' = [documents EXCEPT ![m.uri] = m.text]
          /\ changed' = TRUE /\ answer' = answer
      BY <1>1 DEF Handle, Open
    <2>3. d = [documents EXCEPT ![m.uri] = m.text]
      BY <1>1 DEF Effect
    <2>4. Overlay'
      <3>1. ASSUME NEW u \in Uris, documents'[u] # None PROVE files'[PathOf[u]] = documents'[u]
        <4>1. CASE u = m.uri
          BY <4>1, <2>1, <2>2, <1>0 DEF Versions
        <4>2. CASE u # m.uri
          <5>1. documents'[u] = documents[u] /\ PathOf[u] # PathOf[m.uri] /\ PathOf[u] \in Paths
            BY <4>2, <3>1, <2>1, <2>2, <2>3, <1>0, ServerAssumption DEF Versions, OneUri
          <5> QED
            BY <5>1, <3>1, <2>2, <1>0 DEF Overlay
        <4> QED
          BY <4>1, <4>2
      <3>2. ASSUME NEW p \in Paths, files'[p] # None
            PROVE  \E u \in Uris : PathOf[u] = p /\ documents'[u] # None
        <4>1. CASE p = PathOf[m.uri]
          BY <4>1, <2>1, <2>2, <1>0 DEF Versions
        <4>2. CASE p # PathOf[m.uri]
          BY <4>2, <3>2, <2>1, <2>2, <1>0 DEF Versions, Overlay
        <4> QED
          BY <4>1, <4>2
      <3> QED
        BY <3>1, <3>2 DEF Overlay
    <2> QED
      BY <2>1, <2>2, <2>3, <2>4, <1>0 DEF AnswerIsCurrent
  <1>2. CASE m.kind = "didSave"
    BY <1>0, <1>2 DEF Handle, Saved, Effect, state, Overlay, AnswerIsCurrent
  <1>3. CASE m.kind = "didClose"
    <2>1. m.uri \in Uris /\ PathOf[m.uri] \in Paths
      BY <1>3, ServerAssumption DEF Messages
    <2>2. documents[m.uri] # None /\ d = [documents EXCEPT ![m.uri] = None]
      BY <1>3 DEF Effect
    <2>3. /\ files' = [files EXCEPT ![PathOf[m.uri]] = None]
          /\ documents' = [documents EXCEPT ![m.uri] = None]
          /\ changed' = TRUE /\ answer' = answer
      BY <1>3, <2>2 DEF Handle, Close
    <2>4. Overlay'
      BY <2>1, <2>2, <2>3, <1>0, ServerAssumption DEF Overlay, OneUri, Versions
    <2> QED
      BY <2>1, <2>2, <2>3, <2>4, <1>0 DEF AnswerIsCurrent
  <1>4. CASE m.kind = "request"
    <2>1. Asked(documents, m, disk) /\ d = documents
      BY <1>4 DEF Effect
    <2>2. /\ answer' = [from |-> Contents, asked |-> m.contents, open |-> m.open]
          /\ UNCHANGED <<documents, files, changed>>
      BY <1>4 DEF Handle, Answer, state
    <2>3. \A p \in Paths : IF p \in m.open THEN Contents[p] = m.contents[p]
                           ELSE Contents[p] >= m.contents[p]
      <3> SUFFICES ASSUME NEW p \in Paths
                   PROVE  IF p \in m.open THEN Contents[p] = m.contents[p]
                          ELSE Contents[p] >= m.contents[p]
        OBVIOUS
      <3>1. CASE p \in m.open
        <4>1. PICK u \in Uris : PathOf[u] = p /\ documents[u] # None
          BY <3>1, <2>1 DEF Asked
        <4>2. m.contents[p] = documents[u] /\ files[p] = documents[u]
          BY <4>1, <2>1, <1>0 DEF Asked, Overlay
        <4> QED
          BY <3>1, <4>1, <4>2 DEF Contents
      <3>2. CASE p \notin m.open
        <4>1. m.contents[p] <= disk[p] /\ files[p] = None
          BY <3>2, <2>1, <1>0 DEF Asked, Overlay
        <4>2. m.contents[p] \in Int /\ disk[p] \in Int
          BY <1>0, <1>4 DEF Messages, Snapshot, Texts
        <4> QED
          BY <3>2, <4>1, <4>2 DEF Contents
      <3> QED
        BY <3>1, <3>2
    <2>4. AnswerIsCurrent'
      BY <2>2, <2>3 DEF AnswerIsCurrent
    <2> QED
      BY <2>1, <2>2, <2>4, <1>0, <1>4 DEF Overlay
  <1> QED
    BY <1>1, <1>2, <1>3, <1>4 DEF Handle

LEMMA ReceiveInv == ASSUME Inv, Receive PROVE Inv'
  <1>0. /\ inbox \in Seq(Messages) /\ inbox # <<>> /\ inbox' = Tail(inbox)
        /\ at \in {"drain", "redrain", "wait"}
        /\ UNCHANGED <<buffer, disk, bad, texts, shown, byFile, dirty, folder, result, published>>
    BY DEF Receive, editor, Inv, Connection
  <1>1. PICK d : Trail(d, inbox, documents, buffer, disk, texts)
    BY DEF Inv, Connection
  <1> DEFINE m == Head(inbox)
  <1>2. /\ m \in Messages /\ inbox' \in Seq(Messages)
        /\ Len(inbox) \in Nat \ {0} /\ Len(inbox') = Len(inbox) - 1 /\ m = inbox[1]
        /\ \A i \in 1..Len(inbox') : inbox'[i] = inbox[i + 1]
    BY <1>0, HeadTailProperties, EmptySeq
  <1>3. /\ Effect(documents, m, d[1], disk)
        /\ d[1] \in Versions /\ OneUri(d[1]) /\ UpTo(d[1], texts)
        /\ \E e : Trail(e, inbox', d[1], buffer, disk, texts)
    BY <1>0, <1>1, TrailTail
  <1>4. /\ documents' = d[1] /\ files' \in [Paths -> Texts \cup {None}] /\ Overlay'
        /\ AnswerIsCurrent' /\ changed' \in BOOLEAN
        /\ ~changed' => ~changed /\ m.kind # "didSave" /\ UNCHANGED <<documents, files>>
        /\ at' \in {"drain", "redrain", "exited"} /\ (at' = "drain" => at \in {"drain", "wait"})
        /\ (at' = "redrain" => at = "redrain")
    <2>1. CASE m.kind # "exit"
      <3>1. Handle(m) /\ at' = IF at = "wait" THEN "drain" ELSE at
        BY <2>1 DEF Receive
      <3>2. /\ documents' = d[1] /\ files' \in [Paths -> Texts \cup {None}] /\ Overlay'
            /\ AnswerIsCurrent' /\ changed' \in BOOLEAN
            /\ ~changed' => ~changed /\ m.kind # "didSave" /\ UNCHANGED <<documents, files>>
        <4>1. PICK n : n = m
          OBVIOUS
        <4>2. PICK e : e = d[1]
          OBVIOUS
        <4>3. /\ n \in Messages /\ e \in Versions /\ Effect(documents, n, e, disk) /\ OneUri(e)
              /\ Handle(n) /\ UNCHANGED disk
          BY <4>1, <4>2, <3>1, <1>2, <1>3, <1>0
        <4>4. /\ documents' = e /\ files' \in [Paths -> Texts \cup {None}] /\ Overlay'
              /\ AnswerIsCurrent' /\ changed' \in BOOLEAN
              /\ ~changed' => ~changed /\ n.kind # "didSave" /\ UNCHANGED <<documents, files>>
          BY <4>3, HandleFollows
        <4> QED
          BY <4>1, <4>2, <4>4
      <3> QED
        BY <3>1, <3>2, <1>0
    <2>2. CASE m.kind = "exit"
      <3>1. at' = "exited" /\ UNCHANGED <<documents, files, changed, answer>>
        BY <2>2 DEF Receive, state
      <3>2. d[1] = documents
        BY <2>2, <1>3 DEF Effect
      <3> QED
        BY <2>2, <3>1, <3>2 DEF Inv, Typed, Overlay, AnswerIsCurrent
    <2> QED
      BY <2>1, <2>2
  <1> HIDE DEF m
  <1>5. Typed'
    BY <1>0, <1>3, <1>4 DEF Inv, Typed
  <1>6. Connection'
    BY <1>0, <1>2, <1>3, <1>4 DEF Connection
  <1>7. Saves' /\ Accounted' /\ Versioned'
    BY <1>0 DEF Inv, Saves, Accounted, Versioned
  <1>8. ~changed' /\ SaveFree' => SaveFree
    <2> SUFFICES ASSUME ~changed', SaveFree', NEW i \in 1..Len(inbox)
                 PROVE  inbox[i].kind # "didSave"
      BY DEF SaveFree
    <2>1. CASE i = 1
      BY <2>1, <1>2, <1>4
    <2>2. CASE i # 1
      <3>1. i - 1 \in 1..Len(inbox') /\ inbox'[i - 1] = inbox[(i - 1) + 1] /\ (i - 1) + 1 = i
        BY <2>2, <1>2
      <3> QED
        BY <3>1 DEF SaveFree
    <2> QED
      BY <2>1, <2>2
  <1>9. ~changed' => /\ ~changed /\ Analyzed' = Analyzed /\ Contents' = Contents /\ files' = files
    BY <1>0, <1>4 DEF Analyzed, Contents
  <1>10. ResultFresh'
    BY <1>0, <1>4, <1>8, <1>9 DEF Inv, ResultFresh
  <1>11. Settled'
    <2>1. ASSUME ~changed', Current PROVE Current'
      <3>1. documents' = documents
        BY <2>1, <1>4
      <3>2. \A p \in Paths : Reported(p)' = Reported(p)
        BY <2>1, <1>9, <1>0 DEF Reported
      <3>3. \A p \in Paths, u \in Uris : UriOf(p, u)' = UriOf(p, u)
        BY <3>1 DEF UriOf
      <3>4. \A u \in Uris : PathOf[u] \in Paths
        BY ServerAssumption
      <3> QED
        BY <2>1, <1>0, <1>9, <3>1, <3>2, <3>3, <3>4 DEF Current
    <2>2. at \in {"drain", "wait"} /\ ~dirty /\ ~changed /\ SaveFree => Current
      BY DEF Inv, Settled
    <2>3. at' \in {"drain", "wait"} /\ ~dirty' /\ ~changed' /\ SaveFree' => Current'
      BY <1>0, <1>4, <1>8, <2>1, <2>2
    <2>4. at' \notin {"publish", "wait"}
      BY <1>4
    <2> QED
      BY <2>3, <2>4 DEF Settled
  <1> QED
    BY <1>4, <1>5, <1>6, <1>7, <1>10, <1>11 DEF Inv

(* What is shown, and what was found, is left alone between messages.      *)
LEMMA Kept ==
  ASSUME Inv,
         UNCHANGED <<buffer, disk, bad, texts, shown, byFile, answer, inbox, folder, documents,
                     files, published>>
  PROVE  /\ Connection' /\ Saves' /\ Overlay' /\ Accounted' /\ Versioned' /\ AnswerIsCurrent'
         /\ SaveFree' = SaveFree /\ Analyzed' = Analyzed /\ Contents' = Contents
         /\ Current' = Current
  <1>1. Connection' /\ SaveFree' = SaveFree /\ Saves' /\ Overlay'
    BY DEF Inv, Connection, SaveFree, Saves, Overlay
  <1>2. Accounted' /\ Versioned' /\ AnswerIsCurrent'
    BY DEF Inv, Accounted, Versioned, AnswerIsCurrent
  <1>3. Analyzed' = Analyzed /\ Contents' = Contents
    BY DEF Analyzed, Contents
  <1>4. Current' = Current
    BY DEF Current, Reported, UriOf, Analyzed, Contents
  <1> QED
    BY <1>1, <1>2, <1>3, <1>4

LEMMA DrainedInv == ASSUME Inv, Drained PROVE Inv'
  <1>0. /\ UNCHANGED <<buffer, disk, bad, texts, shown, byFile, answer, inbox, folder, documents,
                       files, result, published>>
        /\ at = "drain" /\ dirty' = (dirty \/ changed) /\ changed' = FALSE
        /\ at' = IF dirty' THEN "analyze" ELSE "wait"
    BY DEF Drained, editor, state
  <1>1. Typed'
    BY <1>0 DEF Inv, Typed
  <1>2. ResultFresh' /\ Settled'
    BY <1>0, Kept DEF Inv, Typed, ResultFresh, Settled
  <1> QED
    BY <1>0, <1>1, <1>2, Kept DEF Inv

LEMMA AnalyzeInv == ASSUME Inv, Analyze PROVE Inv'
  <1>0. /\ UNCHANGED <<buffer, disk, bad, texts, shown, byFile, answer, inbox, folder, documents,
                       files, published, dirty>>
        /\ result' = (IF Analyzed THEN Contents ELSE None) /\ at' = "redrain" /\ changed' = FALSE
    BY DEF Analyze, editor, state
  <1>1. Contents \in Snapshot /\ Contents # None
    BY ContentsTyped, NoneAssumption DEF Snapshot, Texts
  <1>2. Typed'
    BY <1>0, <1>1 DEF Inv, Typed
  <1>3. \A p \in Paths : files[p] # None => Contents[p] = files[p]
    BY DEF Contents
  <1>4. ResultFresh' /\ Settled'
    BY <1>0, <1>1, <1>3, Kept DEF ResultFresh, Settled
  <1> QED
    BY <1>0, <1>2, <1>4, Kept DEF Inv

LEMMA RedrainedInv == ASSUME Inv, Redrained PROVE Inv'
  <1>0. /\ UNCHANGED <<buffer, disk, bad, texts, shown, byFile, answer, inbox, folder, documents,
                       files, result, published, dirty, changed>>
        /\ at = "redrain" /\ at' = IF changed THEN "analyze" ELSE "publish"
    BY DEF Redrained, Redo, editor, state
  <1>1. Typed'
    BY <1>0 DEF Inv, Typed
  <1>2. ResultFresh' /\ Settled'
    BY <1>0, Kept DEF Inv, ResultFresh, Settled
  <1> QED
    BY <1>0, <1>1, <1>2, Kept DEF Inv

(* A file has one URI.                                                     *)
LEMMA UriUnique ==
  ASSUME Inv, NEW p \in Paths, NEW u \in Uris, NEW v \in Uris, UriOf(p, u), UriOf(p, v)
  PROVE  u = v /\ PathOf[u] = p
  BY EndsOfTrail, ServerAssumption DEF UriOf, OneUri

LEMMA PublishInv == ASSUME Inv, Publish PROVE Inv'
  <1>0. /\ UNCHANGED <<buffer, disk, bad, texts, answer, inbox, changed, folder, documents, files>>
        /\ at = "publish" /\ at' = "wait" /\ dirty' = FALSE /\ result' = None
    BY DEF Publish, editor, state
  <1>1. PICK new \in [Paths -> Uris \cup {None}] :
          /\ \A p \in Paths : IF p \in Diagnosed THEN new[p] # None /\ UriOf(p, new[p])
                              ELSE new[p] = None
          /\ shown' = [u \in Uris |-> IF \E p \in Paths : new[p] = u THEN Diagnostics(u)
                                      ELSE IF u \in Cleared(new) THEN None ELSE shown[u]]
          /\ byFile' = [p \in Paths |-> FileLeft(p, new)]
          /\ published' = new
    BY DEF Publish
  <1>2. ~changed /\ ResultFresh /\ Accounted /\ Overlay
    BY <1>0 DEF Inv, Settled
  <1>3. ASSUME NEW p \in Paths, new[p] # None
        PROVE  new[p] \in Uris /\ PathOf[new[p]] = p /\ p \in Diagnosed /\ UriOf(p, new[p])
    BY <1>1, <1>3, UriUnique
  <1>4. ASSUME NEW u \in Uris
        PROVE  (\E p \in Paths : new[p] = u) <=> PathOf[u] \in Diagnosed /\ UriOf(PathOf[u], u)
    <2>1. u # None /\ PathOf[u] \in Paths
      BY NoneAssumption, ServerAssumption
    <2>2. ASSUME NEW p \in Paths, new[p] = u
          PROVE  PathOf[u] \in Diagnosed /\ UriOf(PathOf[u], u)
      BY <2>1, <2>2, <1>3
    <2>3. ASSUME PathOf[u] \in Diagnosed, UriOf(PathOf[u], u) PROVE new[PathOf[u]] = u
      BY <2>1, <2>3, <1>1, <1>3, UriUnique
    <2> QED
      BY <2>1, <2>2, <2>3
  <1>5. ASSUME NEW u \in Uris
        PROVE  shown'[u] = IF \E p \in Paths : new[p] = u THEN Diagnostics(u) ELSE None
    <2>1. CASE \E p \in Paths : new[p] = u
      BY <2>1, <1>1
    <2>2. CASE ~\E p \in Paths : new[p] = u
      <3>1. ASSUME shown[u] # None PROVE u \in Cleared(new)
        <4>1. PICK p \in Paths : published[p] = u
          BY <3>1, <1>2 DEF Accounted
        <4> QED
          BY <4>1, <2>2, NoneAssumption DEF Cleared
      <3> QED
        BY <2>2, <3>1, <1>1
    <2> QED
      BY <2>1, <2>2
  <1>6. ASSUME NEW p \in Paths PROVE byFile'[p] = IF new[p] # None THEN result ELSE None
    <2>1. CASE new[p] # None
      BY <2>1, <1>1 DEF FileLeft
    <2>2. CASE new[p] = None
      <3>1. ASSUME byFile[p] # None PROVE \E u \in Cleared(new) : PathOf[u] = p
        BY <3>1, <2>2, <1>2 DEF Accounted, Cleared
      <3> QED
        BY <2>2, <3>1, <1>1 DEF FileLeft
    <2> QED
      BY <2>1, <2>2
  <1>7. Typed'
    BY <1>0, <1>1 DEF Inv, Typed
  <1>8. Connection' /\ Saves' /\ Overlay' /\ AnswerIsCurrent' /\ ResultFresh'
    BY <1>0 DEF Inv, Connection, Saves, Overlay, AnswerIsCurrent, ResultFresh
  <1>9. Accounted'
    BY <1>1, <1>3, <1>5, <1>6 DEF Accounted
  <1>10. Versioned'
    <2> SUFFICES ASSUME NEW u \in Uris, shown'[u] # None, shown'[u].version # None
                 PROVE  shown'[u].from[PathOf[u]] = shown'[u].version
      BY DEF Versioned
    <2>1. PathOf[u] \in Diagnosed /\ shown'[u] = Diagnostics(u)
      BY <1>4, <1>5
    <2>2. shown'[u].from = result /\ shown'[u].version = documents[u]
      BY <2>1 DEF Diagnostics
    <2>3. result # None /\ PathOf[u] \in Paths
      BY <2>1 DEF Diagnosed
    <2>4. documents[u] # None /\ files[PathOf[u]] = documents[u] /\ documents[u] # None
      BY <2>2, <1>2 DEF Overlay
    <2> QED
      BY <2>2, <2>3, <2>4, <1>0, <1>2 DEF ResultFresh
  <1>11. Settled'
    <2>1. ASSUME SaveFree' PROVE Current'
      <3>1. SaveFree
        BY <2>1, <1>0 DEF SaveFree
      <3>2. (result # None <=> Analyzed) /\ (result # None => result = Contents)
        BY <3>1, <1>0, <1>2 DEF ResultFresh
      <3>3. \A p \in Paths : p \in Diagnosed <=> Reported(p)
        BY <3>2 DEF Diagnosed, Reported
      <3>4. \A p \in Paths, u \in Uris : UriOf(p, u)' = UriOf(p, u)
        BY <1>0 DEF UriOf
      <3>5. Contents' = Contents /\ \A p \in Paths : Reported(p)' = Reported(p)
        BY <1>0 DEF Reported, Analyzed, Contents
      <3>6. ASSUME NEW u \in Uris
            PROVE  shown'[u] = IF Reported(PathOf[u])' /\ UriOf(PathOf[u], u)'
                               THEN [from |-> Contents', version |-> documents'[u]] ELSE None
        <4>1. PathOf[u] \in Paths
          BY ServerAssumption
        <4>2. Reported(PathOf[u]) => Diagnostics(u) = [from |-> Contents, version |-> documents[u]]
          BY <3>2 DEF Diagnostics, Reported
        <4> QED
          BY <4>1, <4>2, <3>3, <3>4, <3>5, <1>0, <1>4, <1>5
      <3>7. ASSUME NEW p \in Paths PROVE byFile'[p] = IF Reported(p)' THEN Contents' ELSE None
        <4>1. new[p] # None <=> Reported(p)
          BY <1>1, <3>3
        <4>2. Reported(p) => result = Contents
          BY <3>2 DEF Reported
        <4> QED
          BY <4>1, <4>2, <3>5, <1>6
      <3> QED
        BY <3>6, <3>7 DEF Current
    <2> QED
      BY <2>1, <1>0, <1>2 DEF Settled
  <1> QED
    BY <1>7, <1>8, <1>9, <1>10, <1>11 DEF Inv

-----------------------------------------------------------------------------
LEMMA NextInv == Inv /\ [Next]_vars => Inv'
  <1> SUFFICES ASSUME Inv, [Next]_vars PROVE Inv'
    OBVIOUS
  <1>1. ASSUME Server PROVE Inv'
    BY <1>1, ReceiveInv, DrainedInv, AnalyzeInv, RedrainedInv, PublishInv DEF Server
  <1>2. ASSUME Editor PROVE Inv'
    BY <1>2, EditorOpensInv, EditorTypesInv, EditorSavesInv, EditorClosesInv, EditorAsksInv,
       EditorLeavesInv DEF Editor
  <1>3. ASSUME UNCHANGED vars PROVE Inv'
    <2>1. /\ UNCHANGED <<buffer, disk, bad, texts, shown, byFile, answer, inbox, folder, documents,
                         files, published>>
          /\ UNCHANGED <<at, dirty, changed, result>>
      BY <1>3 DEF vars
    <2>2. Typed'
      BY <2>1 DEF Inv, Typed
    <2>3. ResultFresh' /\ Settled'
      BY <2>1, Kept DEF Inv, ResultFresh, Settled
    <2> QED
      BY <2>1, <2>2, <2>3, Kept DEF Inv
  <1> QED
    BY <1>1, <1>2, <1>3 DEF Next

(* What the server has follows what the editor has, message by message,    *)
(* and what it shows follows what it has (run, publish).                   *)
THEOREM ServerFollowsEditor == Spec => []Inv
  BY InitInv, NextInv, PTL DEF Spec

(* For any project and any messages: diagnostics carry the version of the  *)
(* very text they were computed from, and the overlay holds exactly the    *)
(* open files (run, publish_one).                                          *)
THEOREM VersionsNameTexts == Spec => []VersionNamesText
  <1>1. Inv => VersionNamesText
    BY DEF Inv, Typed, Overlay, Accounted, Versioned, VersionNamesText, TypeOK, Versions
  <1> QED
    BY <1>1, ServerFollowsEditor, PTL

(* When the server has nothing left to do, its documents are the editor's. *)
LEMMA QuietAgrees ==
  ASSUME Inv, Quiet
  PROVE  documents = buffer /\ Contents = Wanted /\ Current
  <1>1. documents = buffer
    <2>1. PICK d : Trail(d, inbox, documents, buffer, disk, texts)
      BY DEF Inv, Connection
    <2>2. Len(inbox) = 0
      BY EmptySeq DEF Quiet
    <2> QED
      BY <2>1, <2>2 DEF Trail
  <1>2. ASSUME NEW p \in Paths PROVE Contents[p] = Wanted[p]
    <2>1. CASE OpenAs(p) = {}
      BY <2>1, <1>1 DEF Wanted, Contents, OpenAs, Inv, Overlay
    <2>2. CASE OpenAs(p) # {}
      <3>1. PICK u \in OpenAs(p) : Wanted[p] = buffer[u]
        BY <2>2 DEF Wanted
      <3> QED
        BY <3>1, <1>1 DEF Contents, OpenAs, Inv, Overlay
    <2> QED
      BY <2>1, <2>2
  <1>3. Contents = Wanted
    BY <1>2 DEF Contents, Wanted
  <1>4. SaveFree
    BY EmptySeq DEF Quiet, SaveFree
  <1> QED
    BY <1>1, <1>3, <1>4 DEF Quiet, Inv, Settled

(* For any project and any messages: whenever the server has nothing left  *)
(* to do, both kinds of editor show exactly the diagnostics of the current *)
(* contents, under the URI in use (run, analyze, publish).                 *)
THEOREM DiagnosticsAreCurrent == Spec => []DiagnosticsCurrent
  <1>1. Inv => DiagnosticsCurrent
    <2> SUFFICES ASSUME Inv, Quiet
                 PROVE  /\ \A u \in Uris :
                             shown[u] = IF Due(PathOf[u]) /\ UsedUri(u)
                                        THEN [from |-> Wanted, version |-> buffer[u]] ELSE None
                        /\ \A p \in Paths : byFile[p] = IF Due(p) THEN Wanted ELSE None
      BY DEF DiagnosticsCurrent, ShownIsCurrent, FileIsCurrent
    <2>1. documents = buffer /\ Contents = Wanted /\ Current
      BY QuietAgrees
    <2>2. \A p \in Paths : Reported(p) <=> Due(p)
      BY <2>1 DEF Reported, Due, Analyzed
    <2>3. \A u \in Uris : UriOf(PathOf[u], u) <=> UsedUri(u)
      BY <2>1 DEF UriOf, UsedUri, OpenAs
    <2>4. \A u \in Uris : PathOf[u] \in Paths
      BY ServerAssumption
    <2> QED
      BY <2>1, <2>2, <2>3, <2>4 DEF Current
  <1> QED
    BY <1>1, ServerFollowsEditor, PTL

(* For any project and any messages: a request is answered from what the   *)
(* editor had when it asked, and from nothing older for the files that     *)
(* were not open (check_file).                                             *)
THEOREM AnswersAreCurrent == Spec => []AnswerIsCurrent
  <1>1. Inv => AnswerIsCurrent
    BY DEF Inv
  <1> QED
    BY <1>1, ServerFollowsEditor, PTL
===============================================================================
