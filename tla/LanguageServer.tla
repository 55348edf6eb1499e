---------------------------- MODULE LanguageServer ----------------------------
(***************************************************************************)
(* The loop of the language server (emela-lsp/src/server.rs) with the      *)
(* overlay of open documents (overlay.rs), and the editor it serves.       *)
(*                                                                         *)
(* Texts are numbered in the order they are typed; the number is also the  *)
(* document's version, and Bad texts have diagnostics.  The diagnostics of *)
(* a file depend on every file of its project, so they are represented by  *)
(* the contents they were computed from.  The files are one project, which *)
(* is checked when it is a workspace folder or one of its files is open.   *)
(***************************************************************************)
EXTENDS Integers, Sequences, FiniteSets

CONSTANTS
  Paths,       \* the files of the project
  Uris,        \* the URIs the editor and the server use for them
  PathOf,      \* the file of a URI, as normalize finds it
  OwnUri,      \* the URI the server makes for a file that is not open
  None,
  MaxTexts,    \* how many texts are typed
  MaxMessages  \* how many messages the editor sends

ASSUME ServerAssumption ==
  /\ PathOf \in [Uris -> Paths] /\ OwnUri \in [Paths -> Uris]
  /\ \A p \in Paths : PathOf[OwnUri[p]] = p
  /\ MaxTexts \in Nat /\ MaxMessages \in Nat

(* None is no URI, no text and no contents of the project.                 *)
ASSUME NoneAssumption ==
  None \notin Uris /\ None \notin 0..MaxTexts /\ None \notin [Paths -> 0..MaxTexts]

VARIABLES
  \* the editor
  buffer,     \* the text of each open URI
  disk,       \* the text of each file on disk
  bad,        \* the texts with errors
  texts,      \* how many were typed
  shown,      \* the diagnostics the editor has for each URI
  byFile,     \* the same in an editor that takes all URIs of a file for one
  answer,     \* what the last answer was computed from, and what was there
              \* when it was asked for
  \* the connection
  inbox, sent,
  \* the server
  at, dirty, changed,
  folder,     \* whether the project is a workspace folder
  documents,  \* the version of each open document
  files,      \* the overlay: the text of each open file
  result,     \* the contents analyzed
  published   \* the URI under which each file has diagnostics

editor == <<buffer, disk, bad, texts, sent>>
state == <<documents, files>>
vars == <<buffer, disk, bad, texts, shown, byFile, answer, inbox, sent, at, dirty,
          changed, folder, documents, files, result, published>>

Texts == 0..MaxTexts

Init ==
  /\ buffer = [u \in Uris |-> None] /\ disk = [p \in Paths |-> 0]
  /\ bad \in SUBSET {0} /\ texts = 0
  /\ shown = [u \in Uris |-> None] /\ byFile = [p \in Paths |-> None]
  /\ answer = None /\ inbox = <<>> /\ sent = 0
  /\ at = "drain" /\ dirty = TRUE /\ changed = FALSE /\ folder \in BOOLEAN
  /\ documents = [u \in Uris |-> None] /\ files = [p \in Paths |-> None]
  /\ result = None /\ published = [p \in Paths |-> None]

-----------------------------------------------------------------------------
(* The editor.  It opens a file under one URI at a time.                   *)
OpenAs(p) == {u \in Uris : PathOf[u] = p /\ buffer[u] # None}

(* The contents that count: unsaved ones of open documents before those on *)
(* disk.                                                                   *)
Wanted == [p \in Paths |-> IF OpenAs(p) = {} THEN disk[p]
                           ELSE buffer[CHOOSE u \in OpenAs(p) : TRUE]]

Message(m) ==
  /\ sent < MaxMessages /\ sent' = sent + 1
  /\ inbox' = Append(inbox, m)
  /\ UNCHANGED <<shown, byFile, answer, at, dirty, changed, folder, state, result, published>>

EditorOpens(u) ==
  /\ buffer[u] = None /\ OpenAs(PathOf[u]) = {}
  /\ buffer' = [buffer EXCEPT ![u] = disk[PathOf[u]]]
  /\ Message([kind |-> "didOpen", uri |-> u, text |-> disk[PathOf[u]]])
  /\ UNCHANGED <<disk, bad, texts>>

EditorTypes(u) ==
  /\ buffer[u] # None /\ texts < MaxTexts
  /\ texts' = texts + 1
  /\ bad' \in {bad, bad \cup {texts'}}
  /\ buffer' = [buffer EXCEPT ![u] = texts']
  /\ Message([kind |-> "didChange", uri |-> u, text |-> texts'])
  /\ UNCHANGED disk

EditorSaves(u) ==
  /\ buffer[u] # None
  /\ disk' = [disk EXCEPT ![PathOf[u]] = buffer[u]]
  /\ Message([kind |-> "didSave", uri |-> u])
  /\ UNCHANGED <<buffer, bad, texts>>

EditorCloses(u) ==
  /\ buffer[u] # None
  /\ buffer' = [buffer EXCEPT ![u] = None]
  /\ Message([kind |-> "didClose", uri |-> u])
  /\ UNCHANGED <<disk, bad, texts>>

EditorAsks ==
  /\ Message([kind |-> "request", contents |-> Wanted, open |-> {p \in Paths : OpenAs(p) # {}}])
  /\ UNCHANGED <<buffer, disk, bad, texts>>

EditorLeaves ==
  /\ Message([kind |-> "exit"])
  /\ UNCHANGED <<buffer, disk, bad, texts>>

-----------------------------------------------------------------------------
(* The server.  Overlay::read_to_string.                                   *)
Contents == [p \in Paths |-> IF files[p] # None THEN files[p] ELSE disk[p]]

(* Mutant: the overlay keeps the text a document was opened with.          *)
OpenOnce(m) ==
  /\ files' = [files EXCEPT ![PathOf[m.uri]] = IF @ = None THEN m.text ELSE @]
  /\ documents' = [documents EXCEPT ![m.uri] = m.text]
  /\ changed' = TRUE /\ UNCHANGED answer

(* open: for didOpen and didChange.                                        *)
Open(m) ==
  /\ files' = [files EXCEPT ![PathOf[m.uri]] = m.text]
  /\ documents' = [documents EXCEPT ![m.uri] = m.text]
  /\ changed' = TRUE /\ UNCHANGED answer

(* didSave comes without the text: other files may have changed on disk.   *)
Saved(m) == changed' = TRUE /\ UNCHANGED <<state, answer>>

Close(m) ==
  /\ UNCHANGED answer
  /\ IF documents[m.uri] = None THEN UNCHANGED <<state, changed>>
     ELSE /\ documents' = [documents EXCEPT ![m.uri] = None]
          /\ files' = [files EXCEPT ![PathOf[m.uri]] = None]
          /\ changed' = TRUE

(* check_file: every request checks again from the contents there are.     *)
Answer(m) ==
  /\ answer' = [from |-> Contents, asked |-> m.contents, open |-> m.open]
  /\ UNCHANGED <<state, changed>>

Handle(m) ==
  \/ m.kind \in {"didOpen", "didChange"} /\ Open(m)
  \/ m.kind = "didSave" /\ Saved(m)
  \/ m.kind = "didClose" /\ Close(m)
  \/ m.kind = "request" /\ Answer(m)

(* A message is handled while the server drains or waits; after a wait the *)
(* loop drains again.                                                      *)
Receive ==
  /\ at \in {"drain", "redrain", "wait"} /\ inbox # <<>>
  /\ inbox' = Tail(inbox)
  /\ \/ Head(inbox).kind # "exit" /\ Handle(Head(inbox))
        /\ at' = IF at = "wait" THEN "drain" ELSE at
     \/ Head(inbox).kind = "exit" /\ at' = "exited" /\ UNCHANGED <<state, changed, answer>>
  /\ UNCHANGED <<editor, shown, byFile, dirty, folder, result, published>>

(* The first drain ends.                                                   *)
Drained ==
  /\ at = "drain" /\ inbox = <<>>
  /\ dirty' = (dirty \/ changed) /\ changed' = FALSE
  /\ at' = IF dirty' THEN "analyze" ELSE "wait"
  /\ UNCHANGED <<editor, shown, byFile, answer, inbox, folder, state, result, published>>

Analyzed == folder \/ \E u \in Uris : documents[u] # None

(* Mutant: what the drain said before is not forgotten.                    *)
AnalyzeAgain ==
  /\ at = "analyze"
  /\ result' = IF Analyzed THEN Contents ELSE None
  /\ at' = "redrain" /\ UNCHANGED changed
  /\ UNCHANGED <<editor, shown, byFile, answer, inbox, dirty, folder, state, published>>

(* analyze: nothing is checked without a workspace folder or an open file. *)
Analyze ==
  /\ at = "analyze"
  /\ result' = IF Analyzed THEN Contents ELSE None
  /\ at' = "redrain" /\ changed' = FALSE
  /\ UNCHANGED <<editor, shown, byFile, answer, inbox, dirty, folder, state, published>>

(* Mutant: the result is published although an edit arrived.               *)
RedoNever == "publish"

(* The drain after the analysis: a result that became stale is discarded.  *)
Redo == IF changed THEN "analyze" ELSE "publish"
Redrained ==
  /\ at = "redrain" /\ inbox = <<>>
  /\ at' = Redo
  /\ UNCHANGED <<editor, shown, byFile, answer, inbox, dirty, changed, folder, state, result, published>>

(* The URI of a file: the editor's if it is open, else the server's own.   *)
UriOf(p, u) ==
  LET open == {v \in Uris : PathOf[v] = p /\ documents[v] # None}
  IN  IF open = {} THEN u = OwnUri[p] ELSE u \in open

Diagnosed == IF result = None THEN {} ELSE {p \in Paths : result[p] \in bad}
(* Mutant: only files without diagnostics are cleared.                     *)
ClearedGone(new) == {published[p] : p \in {q \in Paths : published[q] # None /\ new[q] = None}}

Cleared(new) == {published[p] : p \in {q \in Paths : published[q] \notin {None, new[q]}}}
Diagnostics(u) == [from |-> result, version |-> documents[u]]

(* What an editor that takes all URIs of a file for one is left with:      *)
(* clearing goes first.                                                    *)
FileLeft(p, new) ==
  IF new[p] # None THEN result
  ELSE IF \E u \in Cleared(new) : PathOf[u] = p THEN None ELSE byFile[p]

Publish ==
  /\ at = "publish"
  /\ \E new \in [Paths -> Uris \cup {None}] :
       /\ \A p \in Paths : IF p \in Diagnosed THEN new[p] # None /\ UriOf(p, new[p])
                           ELSE new[p] = None
       /\ shown' = [u \in Uris |-> IF \E p \in Paths : new[p] = u THEN Diagnostics(u)
                                   ELSE IF u \in Cleared(new) THEN None ELSE shown[u]]
       /\ byFile' = [p \in Paths |-> FileLeft(p, new)]
       /\ published' = new
  /\ dirty' = FALSE /\ at' = "wait" /\ result' = None
  /\ UNCHANGED <<editor, answer, inbox, changed, folder, state>>

Server == Receive \/ Drained \/ Analyze \/ Redrained \/ Publish
Editor ==
  \/ \E u \in Uris : EditorOpens(u) \/ EditorTypes(u) \/ EditorSaves(u) \/ EditorCloses(u)
  \/ EditorAsks \/ EditorLeaves

Next == Server \/ Editor

Spec == Init /\ [][Next]_vars

(* The server goes on as long as it has something to do.                   *)
FairSpec == Spec /\ WF_vars(Server)

-----------------------------------------------------------------------------
Snapshot == [Paths -> Texts]

TypeOK ==
  /\ buffer \in [Uris -> Texts \cup {None}] /\ disk \in Snapshot
  /\ bad \subseteq Texts /\ texts \in Texts /\ folder \in BOOLEAN
  /\ at \in {"drain", "analyze", "redrain", "publish", "wait", "exited"}
  /\ \A p \in Paths : files[p] # None <=> \E u \in Uris : PathOf[u] = p /\ documents[u] # None
  /\ documents \in [Uris -> Texts \cup {None}] /\ files \in [Paths -> Texts \cup {None}]
  /\ result = None \/ result \in Snapshot
  /\ \A p \in Paths : published[p] # None => PathOf[published[p]] = p

(* Diagnostics carry the version of the very text they were computed from, *)
(* whatever arrived while it was analyzed (run, publish_one); the overlay  *)
(* holds exactly the open files.                                           *)
VersionNamesText == TypeOK /\
  \A u \in Uris : shown[u] # None /\ shown[u].version # None =>
    shown[u].from[PathOf[u]] = shown[u].version

(* Whenever the server has nothing left to do, the editor shows exactly    *)
(* the diagnostics of its current contents, unsaved texts included, each   *)
(* file's under the URI it is open as or the server's own, and nothing     *)
(* under any other URI the file once had (run, analyze, publish).          *)
Quiet == at = "wait" /\ inbox = <<>>
Due(p) == (folder \/ \E u \in Uris : buffer[u] # None) /\ Wanted[p] \in bad
UsedUri(u) == IF OpenAs(PathOf[u]) = {} THEN u = OwnUri[PathOf[u]] ELSE buffer[u] # None
ShownIsCurrent == Quiet =>
  \A u \in Uris :
    shown[u] = IF Due(PathOf[u]) /\ UsedUri(u) THEN [from |-> Wanted, version |-> buffer[u]]
               ELSE None

(* So does an editor to which all URIs of a file are the same file: new    *)
(* diagnostics are not lost to the clearing of the old URI (publish).      *)
FileIsCurrent == Quiet =>
  \A p \in Paths : byFile[p] = IF Due(p) THEN Wanted ELSE None

(* At rest both kinds of editor are right (publish).                       *)
DiagnosticsCurrent == ShownIsCurrent /\ FileIsCurrent

(* A request is answered from what the editor had when it asked, for every *)
(* open document, and from nothing older for the other files (check_file). *)
AnswerIsCurrent == answer # None =>
  \A p \in Paths : IF p \in answer.open THEN answer.from[p] = answer.asked[p]
                    ELSE answer.from[p] >= answer.asked[p]

(* Once the editor stops sending, the server comes to rest or has left.    *)
ComesToRest == <>[](at = "exited" \/ Quiet)
===============================================================================
