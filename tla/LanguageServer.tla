--------------------------- MODULE LanguageServer ---------------------------
(***************************************************************************)
(* bytesmith-lsp: the handlers of the notifications and requests an editor *)
(* sends, over the one map of documents they share.                        *)
(*                                                                         *)
(* Every handler computes, changes the map and only then awaits, while it  *)
(* publishes.  The server polls all handlers in one task, so a handler     *)
(* runs in one step up to that await; there it may wait among at most      *)
(* Lanes others, and inOrder says whether they finish as they started: the *)
(* server's code leaves both cases open.                                   *)
(***************************************************************************)
EXTENDS Naturals, Sequences, FiniteSets

CONSTANTS Uris, Texts,
          ParseErrors,    \* how many errors parse_str_recover finds in a text
          Ungenerable,    \* the texts that parse but that CodeGen rejects
          FirstVersions,  \* the versions an editor may give a document it opens
          Lanes,          \* how many handlers may be running
          MaxSends        \* bound: messages the editor sends

ASSUME ParseErrorsAssumption == ParseErrors \in [Texts -> Nat]
ASSUME FirstVersionsAssumption == FirstVersions \subseteq Nat \ {0}
ASSUME LanesAssumption == Lanes \in Nat \ {0}
ASSUME MaxSendsAssumption == MaxSends \in Nat

VARIABLES text, version,  \* the editor's copy of each document, and its version
          life,           \* how often it opened each document (a ghost)
          inbox,          \* messages sent and not taken up yet
          documents,      \* Backend.documents
          waiting,        \* publications whose handler is at its await
          shown,          \* the publication the editor shows for each document
          answer,         \* the last answer to a request for semantic tokens
          sent,           \* messages sent so far
          inOrder         \* no publication overtakes another (constant in a run)

None == "none"            \* no text: no entry, no document, Option::None
server == <<documents, waiting>>
editor == <<text, version, life, sent>>
vars   == <<editor, inbox, server, shown, answer, inOrder>>

-----------------------------------------------------------------------------
(* diagnostics::compute: the parse errors, or the one error of CodeGen.    *)

Diagnostics(t) ==
    [of |-> t,
     kind |-> IF t = None THEN "none"
              ELSE IF ParseErrors[t] > 0 THEN "parse"
              ELSE IF t \in Ungenerable THEN "codegen" ELSE "none",
     count |-> IF t = None THEN 0
               ELSE IF ParseErrors[t] > 0 THEN ParseErrors[t]
               ELSE IF t \in Ungenerable THEN 1 ELSE 0]

\* `life`: the opening whose version it carries, 0 with none (a ghost).
Publication(u, t, v, l) ==
    [uri |-> u, diagnostics |-> Diagnostics(t), version |-> v, life |-> l]

-----------------------------------------------------------------------------
(* The editor.  It gives a document it opens any first version, the one it *)
(* had before the last close or a lower one too, and versions grow with    *)
(* every change; 0 stands for no version.                                  *)

Send(m) ==
    /\ sent < MaxSends
    /\ sent' = sent + 1
    /\ inbox' = Append(inbox, m)
    /\ UNCHANGED <<server, shown, answer, inOrder>>

Open(u, t) ==
    /\ text[u] = None
    /\ text' = [text EXCEPT ![u] = t]
    /\ life' = [life EXCEPT ![u] = @ + 1]
    /\ \E first \in FirstVersions :
          /\ version' = [version EXCEPT ![u] = first]
          /\ Send([kind |-> "open", uri |-> u, text |-> t, version |-> first,
                   life |-> life[u] + 1])

\* Full synchronisation: each change is the whole text, the last one holds.
Change(u, changes) ==
    /\ text[u] # None
    /\ text' = [text EXCEPT ![u] = IF changes = <<>> THEN @ ELSE changes[Len(changes)]]
    /\ version' = [version EXCEPT ![u] = @ + 1]
    /\ Send([kind |-> "change", uri |-> u, changes |-> changes, version |-> version[u] + 1,
             life |-> life[u]])
    /\ UNCHANGED life

Save(u, with) ==
    /\ text[u] # None
    /\ Send([kind |-> "save", uri |-> u, text |-> IF with THEN text[u] ELSE None])
    /\ UNCHANGED <<text, version, life>>

Close(u) ==
    /\ text[u] # None
    /\ text' = [text EXCEPT ![u] = None]
    /\ Send([kind |-> "close", uri |-> u])
    /\ UNCHANGED <<version, life>>

\* `asked`: the text whose tokens the editor wants (a ghost, not in the request).
Ask(u) ==
    /\ text[u] # None
    /\ Send([kind |-> "tokens", uri |-> u, asked |-> text[u]])
    /\ UNCHANGED <<text, version, life>>

-----------------------------------------------------------------------------
(* The handlers, each up to its await.                                     *)

\* The next message is of this kind and a handler may start on it.
Takes(kind) ==
    /\ inbox # <<>> /\ Head(inbox).kind = kind
    /\ Len(waiting) < Lanes
    /\ inbox' = Tail(inbox)
    /\ UNCHANGED <<editor, shown, inOrder>>

Refresh(u, t, v, l) ==
    /\ documents' = [documents EXCEPT ![u] = t]
    /\ waiting' = Append(waiting, Publication(u, t, v, l))
    /\ UNCHANGED answer

DidOpen == /\ Takes("open")
           /\ LET m == Head(inbox) IN Refresh(m.uri, m.text, m.version, m.life)

\* Mutant: the first of several changes is taken.
DidChangeFirst ==
    /\ Takes("change")
    /\ LET m == Head(inbox)
       IN  IF m.changes = <<>> THEN UNCHANGED <<server, answer>>
           ELSE Refresh(m.uri, m.changes[1], m.version, m.life)

DidChange ==
    /\ Takes("change")
    /\ LET m == Head(inbox)
       IN  IF m.changes = <<>> THEN UNCHANGED <<server, answer>>
           ELSE Refresh(m.uri, m.changes[Len(m.changes)], m.version, m.life)

\* The text saved, or the stored one when the editor does not send it.
DidSave ==
    /\ Takes("save")
    /\ LET m == Head(inbox)
           t == IF m.text # None THEN m.text ELSE documents[m.uri]
       IN  IF t = None THEN UNCHANGED <<server, answer>> ELSE Refresh(m.uri, t, 0, 0)

\* Mutant: the document stays in the map.
DidCloseKept ==
    /\ Takes("close")
    /\ waiting' = Append(waiting, Publication(Head(inbox).uri, None, 0, 0))
    /\ UNCHANGED <<documents, answer>>

\* Mutant: the diagnostics of the closed document are left standing.
DidCloseSilent ==
    /\ Takes("close")
    /\ documents' = [documents EXCEPT ![Head(inbox).uri] = None]
    /\ UNCHANGED <<waiting, answer>>

DidClose ==
    /\ Takes("close")
    /\ documents' = [documents EXCEPT ![Head(inbox).uri] = None]
    /\ waiting' = Append(waiting, Publication(Head(inbox).uri, None, 0, 0))
    /\ UNCHANGED answer

SemanticTokensFull ==
    /\ Takes("tokens")
    /\ LET m == Head(inbox) IN answer' = [asked |-> m.asked, of |-> documents[m.uri]]
    /\ UNCHANGED server

(* The end of the await: the publication reaches the editor.               *)
Publish(i) ==
    /\ i = 1 \/ ~inOrder
    /\ shown' = [shown EXCEPT ![waiting[i].uri] = waiting[i]]
    /\ waiting' = SubSeq(waiting, 1, i - 1) \o SubSeq(waiting, i + 1, Len(waiting))
    /\ UNCHANGED <<editor, inbox, documents, answer, inOrder>>

-----------------------------------------------------------------------------
Init ==
    /\ text = [u \in Uris |-> None]
    /\ version = [u \in Uris |-> 0] /\ life = [u \in Uris |-> 0]
    /\ inbox = <<>> /\ waiting = <<>> /\ sent = 0
    /\ documents = [u \in Uris |-> None]
    /\ shown = [u \in Uris |-> Publication(u, None, 0, 0)]
    /\ answer = [asked |-> None, of |-> None]
    /\ inOrder \in BOOLEAN

Edits == \E u \in Uris :
            \/ \E t \in Texts : Open(u, t)
            \/ \E changes \in UNION {[1 .. n -> Texts] : n \in 0 .. 2} : Change(u, changes)
            \/ \E with \in BOOLEAN : Save(u, with)
            \/ Close(u)
            \/ Ask(u)

Handle == DidOpen \/ DidChange \/ DidSave \/ DidClose \/ SemanticTokensFull

Next == Edits \/ Handle \/ \E i \in 1 .. Len(waiting) : Publish(i)

Spec == Init /\ [][Next]_vars

\* The runtime takes up what arrives and resumes every handler.
FairSpec == Spec /\ WF_vars(Handle) /\ WF_vars(\E i \in 1 .. Len(waiting) : Publish(i))

-----------------------------------------------------------------------------
MessageKinds == {"open", "change", "save", "close", "tokens"}

TypeOK ==
    /\ text \in [Uris -> Texts \cup {None}]
    /\ version \in [Uris -> Nat] /\ life \in [Uris -> Nat]
    /\ documents \in [Uris -> Texts \cup {None}]
    /\ \A i \in 1 .. Len(inbox) : inbox[i].kind \in MessageKinds /\ inbox[i].uri \in Uris
    /\ Len(waiting) <= Lanes
    /\ \A i \in 1 .. Len(waiting) : waiting[i].uri \in Uris
    /\ \A u \in Uris : shown[u].uri = u
    /\ sent \in 0 .. MaxSends /\ inOrder \in BOOLEAN

\* The messages about document u that no handler has taken up.
Unhandled(u) == {i \in 1 .. Len(inbox) : inbox[i].uri = u /\ inbox[i].kind # "tokens"}
Pending(u)   == {i \in 1 .. Len(waiting) : waiting[i].uri = u}

(* Once all notifications about a document are taken up, the map holds     *)
(* what the editor holds, however many handlers are still at their await:  *)
(* no save or late handler brings back an older text or a closed document. *)
(* (Backend::refresh stores before it awaits.)                             *)
StoredIsCurrent == \A u \in Uris : Unhandled(u) = {} => documents[u] = text[u]

(* The tokens the server answers with are those of the text the editor had *)
(* when it asked, not of one it sent since or before.                      *)
(* (semantic_tokens_full)                                                  *)
TokensAreCurrent == answer.of = answer.asked

(* The server works on the editor's text, for itself and in its answers.   *)
(* (the document map, between refresh, did_close and the requests)         *)
ServesCurrent == StoredIsCurrent /\ TokensAreCurrent

(* When nothing is under way, and publications kept their order, the       *)
(* editor shows the diagnostics of its text, none for a closed document.   *)
(* (publish_diagnostics of refresh and did_close)                          *)
ShownIsCurrent ==
    \A u \in Uris : inOrder /\ Unhandled(u) = {} /\ Pending(u) = {}
                        => shown[u].diagnostics = Diagnostics(text[u])

(* Even when publications overtake each other, one of the document's       *)
(* present opening that carries the editor's version has the diagnostics   *)
(* of the editor's text.  An editor that compares versions can be misled   *)
(* only by the publication of a save or close, which carries none, and by  *)
(* one left over from an earlier opening, when the editor counts versions  *)
(* anew.  (the version arguments of refresh)                               *)
VersionsTell ==
    \A u \in Uris :
        text[u] # None /\ shown[u].version = version[u] /\ shown[u].life = life[u]
            => shown[u].diagnostics = Diagnostics(text[u])

(* Whatever the editor holds, it comes to see the diagnostics of it, or    *)
(* has changed it, when publications keep their order.                     *)
(* (refresh and did_close publish for every text stored or dropped)        *)
EventuallyShown ==
    \A u \in Uris : \A t \in Texts \cup {None} :
        inOrder /\ text[u] = t ~> text[u] # t \/ shown[u].diagnostics = Diagnostics(t)
=============================================================================
