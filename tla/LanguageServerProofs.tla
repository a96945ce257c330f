------------------------ MODULE LanguageServerProofs ------------------------
(***************************************************************************)
(* Proofs about LanguageServer, for any documents, texts, number of        *)
(* handlers and messages.  What is under way is explained by a history:    *)
(* the maps of texts that lead, message by message, from the one the       *)
(* server stores to the one the editor holds.                              *)
(***************************************************************************)
EXTENDS LanguageServer, SequenceTheorems, TLAPS

TextOrNone   == Texts \cup {None}
Publications == [uri : Uris, diagnostics : {Diagnostics(t) : t \in TextOrNone},
                 version : Nat, life : Nat]

OpenMessage   == [kind : {"open"}, uri : Uris, text : TextOrNone, version : Nat, life : Nat]
ChangeMessage == [kind : {"change"}, uri : Uris, changes : Seq(Texts), version : Nat,
                  life : Nat]
SaveMessage   == [kind : {"save"}, uri : Uris, text : TextOrNone]
CloseMessage  == [kind : {"close"}, uri : Uris]
TokensMessage == [kind : {"tokens"}, uri : Uris, asked : TextOrNone]
Message == OpenMessage \cup ChangeMessage \cup SaveMessage \cup CloseMessage \cup TokensMessage

\* A message that tells the server a text or its end, the text, and the map then.
Tells(m) ==
    \/ m.kind \in {"open", "close"}
    \/ m.kind = "change" /\ m.changes # <<>>
    \/ m.kind = "save" /\ m.text # None
TextIn(m) == IF m.kind = "close" THEN None
             ELSE IF m.kind = "change" THEN m.changes[Len(m.changes)] ELSE m.text
Effect(m, d) == IF Tells(m) THEN [d EXCEPT ![m.uri] = TextIn(m)] ELSE d

About(m, u) == m.uri = u /\ m.kind # "tokens"

\* h[i] is the map after the first i messages.  The last conjunct follows from
\* the third by induction; as a part of the invariant it needs none.
History(h) ==
    /\ h \in [0 .. Len(inbox) -> [Uris -> TextOrNone]]
    /\ h[0] = documents /\ h[Len(inbox)] = text
    /\ \A i \in 1 .. Len(inbox) :
           /\ h[i] = Effect(inbox[i], h[i - 1])
           /\ inbox[i].kind = "tokens" => inbox[i].asked = h[i - 1][inbox[i].uri]
    /\ \A u \in Uris : \A i \in 0 .. Len(inbox) : \A j \in i .. Len(inbox) :
           (\A k \in i + 1 .. j : ~About(inbox[k], u)) => h[i][u] = h[j][u]

\* The last publication about a document under way, or else the one shown, is of
\* the text stored.
Published ==
    inOrder => \A u \in Uris :
        /\ Pending(u) = {} => shown[u].diagnostics = Diagnostics(documents[u])
        /\ \A i \in 1 .. Len(waiting) :
               waiting[i].uri = u /\ (\A j \in i + 1 .. Len(waiting) : waiting[j].uri # u)
                   => waiting[i].diagnostics = Diagnostics(documents[u])

\* A publication, and a message, of the present opening with the editor's version
\* is of the editor's text.
Truthful(p) ==
    /\ p.life <= life[p.uri]
    /\ p.life = life[p.uri] /\ text[p.uri] # None => p.version <= version[p.uri]
    /\ p.life = life[p.uri] /\ p.version = version[p.uri] /\ text[p.uri] # None
           => p.diagnostics = Diagnostics(text[p.uri])
Versioned(m) ==
    m.kind \in {"open", "change"} =>
        /\ m.life <= life[m.uri]
        /\ m.life = life[m.uri] /\ text[m.uri] # None => m.version <= version[m.uri]
        /\ Tells(m) /\ m.life = life[m.uri] /\ m.version = version[m.uri]
                   /\ text[m.uri] # None
               => TextIn(m) = text[m.uri]
VersionsKept ==
    /\ \A u \in Uris : text[u] # None => version[u] > 0
    /\ \A i \in 1 .. Len(inbox) : Versioned(inbox[i])
    /\ \A i \in 1 .. Len(waiting) : Truthful(waiting[i])
    /\ \A u \in Uris : Truthful(shown[u])

Typed ==
    /\ TypeOK
    /\ inbox \in Seq(Message) /\ waiting \in Seq(Publications)
    /\ shown \in [Uris -> Publications]
    /\ answer \in [asked : TextOrNone, of : TextOrNone]

-----------------------------------------------------------------------------
(* Queues: what a sender appends, a handler takes, and an await ends.      *)

LEMMA Appended ==
    ASSUME NEW S, NEW s \in Seq(S), NEW x \in S
    PROVE  /\ Append(s, x) \in Seq(S) /\ Len(Append(s, x)) = Len(s) + 1
           /\ \A i \in 1 .. Len(s) : Append(s, x)[i] = s[i]
           /\ Append(s, x)[Len(s) + 1] = x
OBVIOUS

LEMMA Taken ==
    ASSUME NEW S, NEW s \in Seq(S), s # <<>>
    PROVE  /\ Len(s) \in Nat \ {0} /\ Head(s) = s[1] /\ s[1] \in S
           /\ Tail(s) \in Seq(S) /\ Len(Tail(s)) = Len(s) - 1
           /\ \A i \in 1 .. Len(s) - 1 : Tail(s)[i] = s[i + 1]
BY HeadTailProperties

Without(s, n) == SubSeq(s, 1, n - 1) \o SubSeq(s, n + 1, Len(s))

LEMMA Removed ==
    ASSUME NEW S, NEW s \in Seq(S), NEW n \in 1 .. Len(s)
    PROVE  /\ Without(s, n) \in Seq(S) /\ Len(Without(s, n)) = Len(s) - 1
           /\ \A i \in 1 .. Len(s) - 1 : Without(s, n)[i] = s[IF i < n THEN i ELSE i + 1]
<1> DEFINE a == SubSeq(s, 1, n - 1)
           b == SubSeq(s, n + 1, Len(s))
<1>1. /\ a \in Seq(S) /\ Len(a) = n - 1
      /\ \A i \in 1 .. n - 1 : a[i] = s[i]
  <2>1. 1 \in Int /\ n - 1 \in Int /\ \A i \in 1 .. n - 1 : s[i] \in S
    OBVIOUS
  <2> QED
    BY <2>1, SubSeqProperties
<1>2. /\ b \in Seq(S) /\ Len(b) = Len(s) - n
      /\ \A i \in 1 .. Len(s) - n : b[i] = s[n + i]
  <2>1. n + 1 \in Int /\ Len(s) \in Int /\ \A i \in n + 1 .. Len(s) : s[i] \in S
    OBVIOUS
  <2>2. /\ b \in Seq(S) /\ Len(b) = IF n + 1 <= Len(s) THEN Len(s) - (n + 1) + 1 ELSE 0
        /\ \A i \in 1 .. Len(s) - (n + 1) + 1 : b[i] = s[n + 1 + i - 1]
    BY <2>1, SubSeqProperties
  <2> HIDE DEF b
  <2>3. Len(b) = Len(s) - n /\ Len(s) - (n + 1) + 1 = Len(s) - n
    BY <2>2
  <2>4. ASSUME NEW i \in 1 .. Len(s) - n PROVE b[i] = s[n + i]
    <3>1. b[i] = s[n + 1 + i - 1] /\ n + 1 + i - 1 = n + i
      BY <2>2, <2>3
    <3> QED
      BY <3>1
  <2> QED
    BY <2>2, <2>3, <2>4
<1>3. /\ a \o b \in Seq(S) /\ Len(a \o b) = Len(a) + Len(b)
      /\ \A i \in 1 .. Len(a) + Len(b) :
             (a \o b)[i] = IF i <= Len(a) THEN a[i] ELSE b[i - Len(a)]
  BY <1>1, <1>2, ConcatProperties
<1>4. ASSUME NEW i \in 1 .. Len(s) - 1
      PROVE  (a \o b)[i] = s[IF i < n THEN i ELSE i + 1]
  <2> HIDE DEF a, b
  <2>1. CASE i < n
    BY <1>1, <1>2, <1>3, <2>1
  <2>2. CASE i >= n
    <3>1. i - Len(a) \in 1 .. Len(s) - n /\ n + (i - Len(a)) = i + 1 /\ ~(i <= Len(a))
      BY <1>1, <2>2
    <3>2. (a \o b)[i] = b[i - Len(a)]
      BY <1>1, <1>2, <1>3, <3>1
    <3>3. b[i - Len(a)] = s[n + (i - Len(a))]
      BY <1>2, <3>1
    <3>4. (a \o b)[i] = s[i + 1]
      BY <3>1, <3>2, <3>3
    <3>5. ~(i < n)
      BY <2>2
    <3> QED
      BY <3>4, <3>5
  <2>3. i < n \/ i >= n
    OBVIOUS
  <2> QED
    BY <2>1, <2>2, <2>3
<1>5. a \o b \in Seq(S) /\ Len(a \o b) = Len(s) - 1
  <2> HIDE DEF a, b
  <2> QED
    BY <1>1, <1>2, <1>3
<1>6. Without(s, n) = a \o b
  BY DEF Without
<1> HIDE DEF a, b
<1> QED
  BY <1>4, <1>5, <1>6

-----------------------------------------------------------------------------
(* Messages.                                                               *)

LEMMA MessageParts ==
    ASSUME NEW m \in Message
    PROVE  /\ m.uri \in Uris /\ m.kind \in MessageKinds
           /\ m.kind = "open" => m \in OpenMessage
           /\ m.kind = "change" => m \in ChangeMessage
           /\ m.kind = "save" => m \in SaveMessage
           /\ m.kind = "tokens" => m \in TokensMessage
           /\ Tells(m) => TextIn(m) \in TextOrNone
<1>1. CASE m \in OpenMessage
  BY <1>1 DEF OpenMessage, MessageKinds, Tells, TextIn, TextOrNone
<1>2. CASE m \in ChangeMessage
  BY <1>2 DEF ChangeMessage, MessageKinds, Tells, TextIn, TextOrNone
<1>3. CASE m \in SaveMessage
  BY <1>3 DEF SaveMessage, MessageKinds, Tells, TextIn, TextOrNone
<1>4. CASE m \in CloseMessage
  BY <1>4 DEF CloseMessage, MessageKinds, Tells, TextIn, TextOrNone
<1>5. CASE m \in TokensMessage
  BY <1>5 DEF TokensMessage, MessageKinds, Tells, TextIn, TextOrNone
<1> QED
  BY <1>1, <1>2, <1>3, <1>4, <1>5 DEF Message

LEMMA EffectIs ==
    ASSUME NEW m \in Message, NEW d \in [Uris -> TextOrNone]
    PROVE  /\ Effect(m, d) \in [Uris -> TextOrNone]
           /\ \A u \in Uris : ~About(m, u) => Effect(m, d)[u] = d[u]
           /\ Tells(m) => Effect(m, d)[m.uri] = TextIn(m)
           /\ m.kind = "tokens" => Effect(m, d) = d
<1>1. m.uri \in Uris /\ (Tells(m) => TextIn(m) \in TextOrNone)
  BY MessageParts
<1>2. m.kind = "tokens" => ~Tells(m)
  BY DEF Tells
<1> QED
  BY <1>1, <1>2 DEF Effect, About

-----------------------------------------------------------------------------
(* What the editor does is to send a message, what a handler does is to    *)
(* take the next one.                                                      *)

Sending(m) ==
    /\ m \in Message
    /\ inbox' = Append(inbox, m) /\ text' = Effect(m, text)
    /\ sent < MaxSends /\ sent' = sent + 1
    /\ version' = IF m.kind \in {"open", "change"} THEN [version EXCEPT ![m.uri] = m.version]
                                                   ELSE version
    /\ life' = IF m.kind = "open" THEN [life EXCEPT ![m.uri] = @ + 1] ELSE life
    /\ m.kind = "open" => m.version > 0 /\ m.life = life[m.uri] + 1
    /\ m.kind = "change" => /\ m.version = version[m.uri] + 1 /\ m.life = life[m.uri]
                            /\ text[m.uri] # None
    /\ m.kind = "save" /\ m.text # None => m.text = text[m.uri]
    /\ m.kind = "tokens" => m.asked = text[m.uri]
    /\ UNCHANGED <<server, shown, answer, inOrder>>

Handling(m) ==
    /\ inbox # <<>> /\ m = Head(inbox) /\ inbox' = Tail(inbox)
    /\ documents' = Effect(m, documents)
    /\ answer' = IF m.kind = "tokens"
                 THEN [asked |-> m.asked, of |-> documents[m.uri]] ELSE answer
    /\ \/ waiting' = waiting /\ documents' = documents
       \/ \E v, l \in Nat :
             /\ \/ v = 0 /\ l = 0
                \/ m.kind \in {"open", "change"} /\ Tells(m) /\ v = m.version /\ l = m.life
             /\ Len(waiting) < Lanes
             /\ waiting' = Append(waiting, Publication(m.uri, documents'[m.uri], v, l))
    /\ UNCHANGED <<editor, shown, inOrder>>

LEMMA EditsSend == ASSUME Typed, Edits PROVE \E m : Sending(m)
<1>1. /\ text \in [Uris -> TextOrNone] /\ version \in [Uris -> Nat]
      /\ life \in [Uris -> Nat]
  BY DEF Typed, TypeOK, TextOrNone
<1>2. ASSUME NEW u \in Uris, NEW t \in Texts, Open(u, t) PROVE \E m : Sending(m)
  <2>1. PICK first \in FirstVersions :
            /\ version' = [version EXCEPT ![u] = first]
            /\ Send([kind |-> "open", uri |-> u, text |-> t, version |-> first,
                     life |-> life[u] + 1])
    BY <1>2 DEF Open
  <2> DEFINE m == [kind |-> "open", uri |-> u, text |-> t, version |-> first,
                   life |-> life[u] + 1]
  <2>2. first \in Nat /\ first > 0
    BY FirstVersionsAssumption
  <2>3. m \in Message
    BY <1>1, <2>2 DEF Message, OpenMessage, TextOrNone
  <2>4. Sending(m)
    BY <1>1, <1>2, <2>1, <2>2, <2>3 DEF Open, Send, Sending, Effect, Tells, TextIn
  <2> QED
    BY <2>4
<1>3. ASSUME NEW u \in Uris, NEW n \in 0 .. 2, NEW c \in [1 .. n -> Texts], Change(u, c)
      PROVE  \E m : Sending(m)
  <2> DEFINE m == [kind |-> "change", uri |-> u, changes |-> c, version |-> version[u] + 1,
                   life |-> life[u]]
  <2>1. m \in Message
    <3>1. c \in Seq(Texts) /\ version[u] + 1 \in Nat /\ life[u] \in Nat
      BY <1>1
    <3> QED
      BY <3>1 DEF Message, ChangeMessage
  <2>2. text' = Effect(m, text)
    BY <1>1, <1>3 DEF Change, Effect, Tells, TextIn
  <2>3. Sending(m)
    BY <1>1, <1>3, <2>1, <2>2 DEF Change, Send, Sending
  <2> QED
    BY <2>3
<1>4. ASSUME NEW u \in Uris, NEW with \in BOOLEAN, Save(u, with) PROVE \E m : Sending(m)
  <2> DEFINE m == [kind |-> "save", uri |-> u, text |-> IF with THEN text[u] ELSE None]
  <2>1. m \in Message
    BY <1>1 DEF Message, SaveMessage, TextOrNone
  <2>2. text' = Effect(m, text)
    BY <1>1, <1>4 DEF Save, Effect, Tells, TextIn
  <2>3. Sending(m)
    BY <1>1, <1>4, <2>1, <2>2 DEF Save, Send, Sending
  <2> QED
    BY <2>3
<1>5. ASSUME NEW u \in Uris, Close(u) PROVE \E m : Sending(m)
  <2> DEFINE m == [kind |-> "close", uri |-> u]
  <2>1. m \in Message
    BY DEF Message, CloseMessage
  <2>2. Sending(m)
    BY <1>1, <1>5, <2>1 DEF Close, Send, Sending, Effect, Tells, TextIn
  <2> QED
    BY <2>2
<1>6. ASSUME NEW u \in Uris, Ask(u) PROVE \E m : Sending(m)
  <2> DEFINE m == [kind |-> "tokens", uri |-> u, asked |-> text[u]]
  <2>1. m \in Message
    BY <1>1 DEF Message, TokensMessage
  <2>2. Sending(m)
    BY <1>1, <1>6, <2>1 DEF Ask, Send, Sending, Effect, Tells
  <2> QED
    BY <2>2
<1> QED
  BY <1>2, <1>3, <1>4, <1>5, <1>6 DEF Edits

LEMMA HandlersTake == ASSUME Typed, Handle PROVE \E m \in Message : Handling(m)
<1> DEFINE m == Head(inbox)
<1>1. documents \in [Uris -> TextOrNone] /\ inbox \in Seq(Message)
  BY DEF Typed, TypeOK, TextOrNone
<1>2. inbox # <<>>
  BY DEF Handle, DidOpen, DidChange, DidSave, DidClose, SemanticTokensFull, Takes
<1>3. m \in Message
  BY <1>1, <1>2, Taken
<1> HIDE DEF m
<1>4. m.uri \in Uris
  BY <1>3, MessageParts
<1>5. CASE DidOpen
  <2>1. m.kind = "open" /\ m.version \in Nat /\ m.life \in Nat /\ Tells(m) /\ TextIn(m) = m.text
    BY <1>3, <1>5, MessageParts DEF DidOpen, Takes, m, OpenMessage, Tells, TextIn
  <2>2. documents' = Effect(m, documents) /\ documents'[m.uri] = m.text
    BY <1>1, <1>4, <1>5, <2>1 DEF DidOpen, Refresh, Effect, m
  <2> QED
    BY <1>2, <1>3, <1>5, <2>1, <2>2 DEF DidOpen, Takes, Refresh, Handling, m
<1>6. CASE DidChange
  <2>1. m.kind = "change" /\ m.version \in Nat /\ m.life \in Nat
    BY <1>3, <1>6, MessageParts DEF DidChange, Takes, m, ChangeMessage
  <2>2. CASE m.changes = <<>>
    <3>1. ~Tells(m)
      BY <2>1, <2>2 DEF Tells
    <3> QED
      BY <1>2, <1>3, <1>6, <2>1, <2>2, <3>1 DEF DidChange, Takes, Handling, Effect, m, server
  <2>3. CASE m.changes # <<>>
    <3>1. Tells(m) /\ TextIn(m) = m.changes[Len(m.changes)]
      BY <2>1, <2>3 DEF Tells, TextIn
    <3>2. documents' = Effect(m, documents) /\ documents'[m.uri] = TextIn(m)
      BY <1>1, <1>4, <1>6, <2>3, <3>1 DEF DidChange, Refresh, Effect, m
    <3> QED
      BY <1>2, <1>3, <1>6, <2>1, <2>3, <3>1, <3>2 DEF DidChange, Takes, Refresh, Handling, m
  <2> QED
    BY <2>2, <2>3
<1>7. CASE DidSave
  <2> DEFINE t == IF m.text # None THEN m.text ELSE documents[m.uri]
  <2>1. m.kind = "save"
    BY <1>7 DEF DidSave, Takes, m
  <2>2. CASE t = None
    <3>1. ~Tells(m)
      BY <2>1, <2>2 DEF Tells
    <3> QED
      BY <1>2, <1>3, <1>7, <2>1, <2>2, <3>1 DEF DidSave, Takes, Handling, Effect, m, server
  <2>3. CASE t # None
    <3>1. documents' = [documents EXCEPT ![m.uri] = t]
      BY <1>7, <2>3 DEF DidSave, Refresh, m
    <3>2. documents' = Effect(m, documents) /\ documents'[m.uri] = t
      BY <1>1, <1>4, <2>1, <3>1 DEF Effect, Tells, TextIn
    <3>3. waiting' = Append(waiting, Publication(m.uri, documents'[m.uri], 0, 0))
      BY <1>7, <2>3, <3>2 DEF DidSave, Refresh, m
    <3> QED
      BY <1>2, <1>3, <1>7, <2>1, <2>3, <3>2, <3>3 DEF DidSave, Takes, Refresh, Handling, m
  <2> QED
    BY <2>2, <2>3
<1>8. CASE DidClose
  <2>1. m.kind = "close" /\ Tells(m) /\ TextIn(m) = None
    BY <1>8 DEF DidClose, Takes, m, Tells, TextIn
  <2>2. documents' = Effect(m, documents) /\ documents'[m.uri] = None
    BY <1>1, <1>4, <1>8, <2>1 DEF DidClose, Effect, m
  <2> QED
    BY <1>2, <1>3, <1>8, <2>1, <2>2 DEF DidClose, Takes, Handling, m
<1>9. CASE SemanticTokensFull
  <2>1. m.kind = "tokens" /\ ~Tells(m)
    BY <1>9 DEF SemanticTokensFull, Takes, m, Tells
  <2> QED
    BY <1>2, <1>3, <1>9, <2>1 DEF SemanticTokensFull, Takes, Handling, Effect, m, server
<1> QED
  BY <1>5, <1>6, <1>7, <1>8, <1>9 DEF Handle

-----------------------------------------------------------------------------
(* The types are kept.                                                     *)

LEMMA OfDocuments ==
    ASSUME NEW s \in Seq(Publications) PROVE \A i \in 1 .. Len(s) : s[i].uri \in Uris
<1> SUFFICES ASSUME NEW i \in 1 .. Len(s) PROVE s[i].uri \in Uris
  OBVIOUS
<1>1. s[i] \in Publications
  OBVIOUS
<1> QED
  BY <1>1 DEF Publications

LEMMA SendingTypes == ASSUME Typed, NEW m, Sending(m) PROVE Typed'
<1>1. /\ m \in Message /\ m.uri \in Uris /\ m.kind \in MessageKinds
      /\ text \in [Uris -> TextOrNone] /\ version \in [Uris -> Nat] /\ life \in [Uris -> Nat]
      /\ inbox \in Seq(Message)
  BY MessageParts DEF Sending, Typed, TypeOK, TextOrNone
<1>2. text' \in [Uris -> TextOrNone] /\ version' \in [Uris -> Nat] /\ life' \in [Uris -> Nat]
  <2>1. m.kind \in {"open", "change"} => m.version \in Nat
    BY <1>1, MessageParts DEF OpenMessage, ChangeMessage
  <2> QED
    BY <1>1, <2>1, EffectIs DEF Sending
<1>3. /\ inbox' \in Seq(Message)
      /\ \A i \in 1 .. Len(inbox') : inbox'[i].kind \in MessageKinds /\ inbox'[i].uri \in Uris
  <2>1. inbox' \in Seq(Message)
    BY <1>1 DEF Sending
  <2>2. \A i \in 1 .. Len(inbox') : inbox'[i] \in Message
    BY <2>1
  <2> QED
    BY <2>1, <2>2, MessageParts
<1>4. sent' \in 0 .. MaxSends
  BY MaxSendsAssumption DEF Sending, Typed, TypeOK
<1> QED
  BY <1>2, <1>3, <1>4 DEF Sending, Typed, TypeOK, TextOrNone, server

LEMMA HandlingTypes == ASSUME Typed, NEW m \in Message, Handling(m) PROVE Typed'
<1>1. /\ m.uri \in Uris
      /\ documents \in [Uris -> TextOrNone] /\ inbox \in Seq(Message)
      /\ waiting \in Seq(Publications) /\ Len(waiting) <= Lanes
  BY MessageParts DEF Typed, TypeOK, TextOrNone
<1>2. documents' \in [Uris -> TextOrNone]
  BY <1>1, EffectIs DEF Handling
<1>3. /\ inbox' \in Seq(Message)
      /\ \A i \in 1 .. Len(inbox') : inbox'[i].kind \in MessageKinds /\ inbox'[i].uri \in Uris
  <2>1. inbox' \in Seq(Message)
    BY <1>1, Taken DEF Handling
  <2>2. \A i \in 1 .. Len(inbox') : inbox'[i] \in Message
    BY <2>1
  <2> QED
    BY <2>1, <2>2, MessageParts
<1>4. answer' \in [asked : TextOrNone, of : TextOrNone]
  BY <1>1, MessageParts DEF Handling, Typed, TokensMessage
<1>5. /\ waiting' \in Seq(Publications) /\ Len(waiting') <= Lanes
      /\ \A i \in 1 .. Len(waiting') : waiting'[i].uri \in Uris
  <2>1. waiting' \in Seq(Publications) /\ Len(waiting') <= Lanes
    <3>1. CASE waiting' = waiting
      BY <1>1, <3>1
    <3>2. ASSUME NEW v \in Nat, NEW l \in Nat, Len(waiting) < Lanes,
                 waiting' = Append(waiting, Publication(m.uri, documents'[m.uri], v, l))
          PROVE  waiting' \in Seq(Publications) /\ Len(waiting') <= Lanes
      <4>1. Publication(m.uri, documents'[m.uri], v, l) \in Publications
        BY <1>1, <1>2 DEF Publication, Publications
      <4> QED
        BY <1>1, <3>2, <4>1, Appended, LanesAssumption
    <3> QED
      BY <3>1, <3>2 DEF Handling
  <2> QED
    BY <2>1, OfDocuments
<1> QED
  BY <1>2, <1>3, <1>4, <1>5 DEF Handling, Typed, TypeOK, TextOrNone, editor

LEMMA PublishingTypes ==
    ASSUME Typed, NEW n \in 1 .. Len(waiting), Publish(n) PROVE Typed'
<1>1. /\ waiting \in Seq(Publications) /\ Len(waiting) <= Lanes
      /\ shown \in [Uris -> Publications] /\ \A u \in Uris : shown[u].uri = u
  BY DEF Typed, TypeOK
<1>2. waiting' = Without(waiting, n) /\ waiting[n] \in Publications
  BY <1>1 DEF Publish, Without
<1>3. waiting' \in Seq(Publications) /\ Len(waiting') = Len(waiting) - 1
  BY <1>1, <1>2, Removed
<1>4. Len(waiting') <= Lanes /\ \A i \in 1 .. Len(waiting') : waiting'[i].uri \in Uris
  BY <1>1, <1>3, LanesAssumption, OfDocuments
<1>5. shown' \in [Uris -> Publications] /\ \A u \in Uris : shown'[u].uri = u
  BY <1>1, <1>2 DEF Publish, Publications
<1> QED
  BY <1>3, <1>4, <1>5 DEF Publish, Typed, TypeOK, editor

-----------------------------------------------------------------------------
(* The history grows with a message sent, and begins later with one taken. *)

LEMMA HistoryGrows ==
    ASSUME Typed, NEW m, Sending(m), NEW h, History(h) PROVE \E g : History(g)'
<1> DEFINE n == Len(inbox)
           g == [i \in 0 .. n + 1 |-> IF i <= n THEN h[i] ELSE text']
<1>1. /\ m \in Message /\ inbox \in Seq(Message) /\ n \in Nat
      /\ text \in [Uris -> TextOrNone] /\ h[n] = text
  BY DEF Sending, Typed, TypeOK, TextOrNone, History
<1>2. /\ Len(inbox') = n + 1 /\ inbox'[n + 1] = m
      /\ \A i \in 1 .. n : inbox'[i] = inbox[i]
  BY <1>1, Appended DEF Sending
<1> HIDE DEF n
<1>3. /\ \A i \in 0 .. n : i \in 0 .. n + 1 /\ g[i] = h[i]
      /\ g[n + 1] = text' /\ n + 1 \in 0 .. n + 1
  BY <1>1
<1>4. /\ text' = Effect(m, text) /\ text' \in [Uris -> TextOrNone]
      /\ \A u \in Uris : ~About(m, u) => text'[u] = text[u]
  BY <1>1, EffectIs DEF Sending
<1>5. g \in [0 .. n + 1 -> [Uris -> TextOrNone]]
  BY <1>1, <1>4 DEF History, n
<1> HIDE DEF g
<1>6. g[0] = documents' /\ g[n + 1] = text'
  BY <1>1, <1>3 DEF Sending, server, History
<1>7. ASSUME NEW i \in 1 .. n + 1
      PROVE  /\ g[i] = Effect(inbox'[i], g[i - 1])
             /\ inbox'[i].kind = "tokens" => inbox'[i].asked = g[i - 1][inbox'[i].uri]
  <2>1. CASE i = n + 1
    BY <1>1, <1>2, <1>3, <1>4, <2>1 DEF Sending
  <2>2. CASE i \in 1 .. n
    <3>1. g[i] = h[i] /\ g[i - 1] = h[i - 1] /\ inbox'[i] = inbox[i]
      BY <1>1, <1>2, <1>3, <2>2
    <3> QED
      BY <2>2, <3>1 DEF History, n
  <2>3. i = n + 1 \/ i \in 1 .. n
    BY <1>1
  <2> QED
    BY <2>1, <2>2, <2>3
<1>8. ASSUME NEW u \in Uris, NEW i \in 0 .. n + 1, NEW j \in i .. n + 1,
             \A k \in i + 1 .. j : ~About(inbox'[k], u)
      PROVE  g[i][u] = g[j][u]
  <2>1. CASE i = j
    BY <2>1
  <2>2. CASE j \in 0 .. n
    <3>1. i \in 0 .. n /\ j \in i .. n /\ \A k \in i + 1 .. j : ~About(inbox[k], u)
      BY <1>1, <1>2, <1>8, <2>2
    <3>2. h[i][u] = h[j][u]
      BY <3>1 DEF History, n
    <3> QED
      BY <1>3, <2>2, <3>1, <3>2
  <2>3. CASE i \in 0 .. n /\ j = n + 1
    <3>1. ~About(m, u) /\ \A k \in i + 1 .. n : ~About(inbox[k], u)
      <4>1. n + 1 \in i + 1 .. j /\ \A k \in i + 1 .. n : k \in i + 1 .. j /\ k \in 1 .. n
        BY <1>1, <2>3
      <4> QED
        BY <1>2, <1>8, <4>1
    <3>2. n \in i .. n
      BY <1>1, <2>3
    <3>3. h[i][u] = h[n][u]
      BY <2>3, <3>1, <3>2 DEF History, n
    <3> QED
      BY <1>1, <1>3, <1>4, <2>3, <3>1, <3>3
  <2>4. i = j \/ j \in 0 .. n \/ (i \in 0 .. n /\ j = n + 1)
    BY <1>1
  <2> QED
    BY <2>1, <2>2, <2>3, <2>4
<1>9. PICK c : c = g
  OBVIOUS
<1>10. History(c)'
  <2>1. c \in [0 .. Len(inbox') -> [Uris -> TextOrNone]]
    BY <1>2, <1>5, <1>9
  <2>2. c[0] = documents' /\ c[Len(inbox')] = text'
    BY <1>2, <1>6, <1>9
  <2>3. \A i \in 1 .. Len(inbox') :
            /\ c[i] = Effect(inbox'[i], c[i - 1])
            /\ inbox'[i].kind = "tokens" => inbox'[i].asked = c[i - 1][inbox'[i].uri]
    BY <1>2, <1>7, <1>9
  <2>4. \A u \in Uris : \A i \in 0 .. Len(inbox') : \A j \in i .. Len(inbox') :
            (\A k \in i + 1 .. j : ~About(inbox'[k], u)) => c[i][u] = c[j][u]
    BY <1>2, <1>8, <1>9
  <2> QED
    BY <2>1, <2>2, <2>3, <2>4 DEF History
<1> QED
  BY <1>10

LEMMA HistoryPasses ==
    ASSUME Typed, NEW m \in Message, Handling(m), NEW h, History(h)
    PROVE  (\E g : History(g)') /\ (m.kind = "tokens" => m.asked = documents[m.uri])
<1> DEFINE n == Len(inbox)
<1>1. /\ inbox \in Seq(Message) /\ n \in Nat \ {0} /\ inbox[1] = m
      /\ Len(inbox') = n - 1 /\ \A i \in 1 .. n - 1 : inbox'[i] = inbox[i + 1]
  BY Taken DEF Handling, Typed
<1>2. /\ h[1] = Effect(m, h[0]) /\ h[0] = documents
      /\ m.kind = "tokens" => m.asked = documents[m.uri]
  <2>1. 1 \in 1 .. n /\ 1 - 1 = 0
    BY <1>1
  <2> QED
    BY <1>1, <2>1 DEF History
<1> HIDE DEF n
<1>3. PICK g : /\ g \in [0 .. n - 1 -> [Uris -> TextOrNone]]
               /\ \A i \in 0 .. n - 1 : g[i] = h[i + 1]
  <2>1. \A i \in 0 .. n - 1 : h[i + 1] \in [Uris -> TextOrNone]
    <3>1. h \in [0 .. n -> [Uris -> TextOrNone]]
      BY DEF History, n
    <3>2. \A i \in 0 .. n - 1 : i + 1 \in 0 .. n
      BY <1>1
    <3> QED
      BY <3>1, <3>2
  <2> DEFINE later == [i \in 0 .. n - 1 |-> h[i + 1]]
  <2>2. /\ later \in [0 .. n - 1 -> [Uris -> TextOrNone]]
        /\ \A i \in 0 .. n - 1 : later[i] = h[i + 1]
    BY <2>1
  <2> QED
    BY <2>2
<1>4. g[0] = documents' /\ g[n - 1] = text'
  <2>1. 0 \in 0 .. n - 1 /\ n - 1 \in 0 .. n - 1 /\ (n - 1) + 1 = n /\ h[n] = text
    BY <1>1 DEF History, n
  <2>2. g[0] = h[1] /\ g[n - 1] = h[n]
    BY <1>3, <2>1
  <2> QED
    BY <1>2, <2>1, <2>2 DEF Handling, editor
<1>5. ASSUME NEW i \in 1 .. n - 1
      PROVE  /\ g[i] = Effect(inbox'[i], g[i - 1])
             /\ inbox'[i].kind = "tokens" => inbox'[i].asked = g[i - 1][inbox'[i].uri]
  <2>1. /\ i + 1 \in 1 .. n /\ (i + 1) - 1 = i /\ (i - 1) + 1 = i
        /\ g[i] = h[i + 1] /\ g[i - 1] = h[i] /\ inbox'[i] = inbox[i + 1]
    BY <1>1, <1>3
  <2> QED
    BY <2>1 DEF History, n
<1>6. ASSUME NEW u \in Uris, NEW i \in 0 .. n - 1, NEW j \in i .. n - 1,
             \A k \in i + 1 .. j : ~About(inbox'[k], u)
      PROVE  g[i][u] = g[j][u]
  <2>1. /\ i + 1 \in 0 .. n /\ j + 1 \in i + 1 .. n
        /\ \A k \in (i + 1) + 1 .. j + 1 : k - 1 \in i + 1 .. j /\ k - 1 \in 1 .. n - 1
                                           /\ (k - 1) + 1 = k
    BY <1>1
  <2>2. \A k \in (i + 1) + 1 .. j + 1 : ~About(inbox[k], u)
    BY <1>1, <1>6, <2>1
  <2>3. h[i + 1][u] = h[j + 1][u]
    BY <2>1, <2>2 DEF History, n
  <2> QED
    BY <1>1, <1>3, <2>3
<1>7. History(g)'
  <2>1. Len(inbox') = n - 1
    BY <1>1
  <2>2. \A i \in 1 .. n - 1 :
            /\ g[i] = Effect(inbox'[i], g[i - 1])
            /\ inbox'[i].kind = "tokens" => inbox'[i].asked = g[i - 1][inbox'[i].uri]
    BY <1>5
  <2>3. \A u \in Uris : \A i \in 0 .. n - 1 : \A j \in i .. n - 1 :
            (\A k \in i + 1 .. j : ~About(inbox'[k], u)) => g[i][u] = g[j][u]
    BY <1>6
  <2> QED
    BY <1>3, <1>4, <2>1, <2>2, <2>3 DEF History
<1> QED
  BY <1>2, <1>7

LEMMA HistoryStays ==
    ASSUME NEW h, History(h), UNCHANGED <<documents, text, inbox>> PROVE History(h)'
<1>1. documents' = documents /\ text' = text /\ inbox' = inbox
  OBVIOUS
<1> QED
  BY <1>1, Zenon DEF History

LEMMA CurrentFollows == ASSUME Typed, NEW h, History(h) PROVE StoredIsCurrent
<1> SUFFICES ASSUME NEW u \in Uris, Unhandled(u) = {} PROVE documents[u] = text[u]
  BY DEF StoredIsCurrent
<1>1. Len(inbox) \in Nat
  BY DEF Typed
<1>2. \A k \in 1 .. Len(inbox) : ~About(inbox[k], u)
  BY DEF Unhandled, About
<1>3. 0 \in 0 .. Len(inbox) /\ Len(inbox) \in 0 .. Len(inbox) /\ 0 + 1 = 1
  BY <1>1
<1> QED
  BY <1>2, <1>3 DEF History

-----------------------------------------------------------------------------
(* The publications on their way are of what is stored.                    *)

LEMMA HandlingPublishes ==
    ASSUME Typed, Published, NEW m \in Message, Handling(m) PROVE Published'
<1>1. CASE waiting' = waiting /\ documents' = documents
  BY <1>1 DEF Handling, Published, Pending
<1>2. ASSUME NEW v \in Nat, NEW life0 \in Nat,
             waiting' = Append(waiting, Publication(m.uri, documents'[m.uri], v, life0))
      PROVE  Published'
  <2> DEFINE l == Len(waiting)
  <2>1. /\ waiting \in Seq(Publications) /\ l \in Nat
        /\ documents \in [Uris -> TextOrNone] /\ documents' \in [Uris -> TextOrNone]
        /\ m.uri \in Uris
    BY HandlingTypes, MessageParts DEF Typed, TypeOK, TextOrNone
  <2>2. /\ Len(waiting') = l + 1 /\ \A i \in 1 .. l : waiting'[i] = waiting[i]
        /\ waiting'[l + 1].uri = m.uri
        /\ waiting'[l + 1].diagnostics = Diagnostics(documents'[m.uri])
    <3>1. Publication(m.uri, documents'[m.uri], v, life0) \in Publications
      BY <2>1 DEF Publication, Publications
    <3> QED
      BY <1>2, <2>1, <3>1, Appended DEF Publication
  <2> HIDE DEF l
  <2>3. SUFFICES ASSUME inOrder', NEW u \in Uris
                 PROVE  /\ Pending(u)' = {} => shown'[u].diagnostics = Diagnostics(documents'[u])
                        /\ \A i \in 1 .. Len(waiting') :
                               waiting'[i].uri = u
                                 /\ (\A j \in i + 1 .. Len(waiting') : waiting'[j].uri # u)
                                   => waiting'[i].diagnostics = Diagnostics(documents'[u])
    BY DEF Published
  <2>4. inOrder /\ shown' = shown
    BY <2>3 DEF Handling
  <2>5. CASE u = m.uri
    <3>1. l + 1 \in 1 .. Len(waiting') /\ Pending(u)' # {}
      BY <2>1, <2>2, <2>5 DEF Pending
    <3>2. ASSUME NEW i \in 1 .. Len(waiting'),
                 \A j \in i + 1 .. Len(waiting') : waiting'[j].uri # u
          PROVE  i = l + 1
      BY <2>1, <2>2, <2>5, <3>2
    <3> QED
      BY <2>2, <2>5, <3>1, <3>2
  <2>6. CASE u # m.uri
    <3>1. documents'[u] = documents[u]
      BY <2>1, <2>6, EffectIs DEF Handling, About
    <3>2. Pending(u)' = {} => Pending(u) = {}
      BY <2>1, <2>2 DEF Pending, l
    <3>3. ASSUME NEW i \in 1 .. Len(waiting'), waiting'[i].uri = u,
                 \A j \in i + 1 .. Len(waiting') : waiting'[j].uri # u
          PROVE  waiting'[i].diagnostics = Diagnostics(documents[u])
      <4>1. i \in 1 .. l
        BY <2>1, <2>2, <2>6, <3>3
      <4>2. \A j \in i + 1 .. l : j \in i + 1 .. Len(waiting') /\ j \in 1 .. l
        BY <2>1, <2>2, <4>1
      <4>3. waiting[i].uri = u /\ \A j \in i + 1 .. l : waiting[j].uri # u
        BY <2>2, <3>3, <4>1, <4>2
      <4> QED
        BY <2>2, <2>4, <4>1, <4>3 DEF Published, l
    <3> QED
      BY <2>4, <3>1, <3>2, <3>3 DEF Published
  <2> QED
    BY <2>5, <2>6
<1> QED
  BY <1>1, <1>2 DEF Handling

LEMMA PublishingPublishes ==
    ASSUME Typed, Published, NEW n \in 1 .. Len(waiting), Publish(n) PROVE Published'
<1> DEFINE l == Len(waiting)
<1>1. SUFFICES ASSUME inOrder', NEW u \in Uris
               PROVE  /\ Pending(u)' = {} => shown'[u].diagnostics = Diagnostics(documents'[u])
                      /\ \A i \in 1 .. Len(waiting') :
                             waiting'[i].uri = u
                               /\ (\A j \in i + 1 .. Len(waiting') : waiting'[j].uri # u)
                                 => waiting'[i].diagnostics = Diagnostics(documents'[u])
  BY DEF Published
<1>2. inOrder /\ n = 1 /\ documents' = documents
  BY <1>1 DEF Publish
<1>3. /\ waiting \in Seq(Publications) /\ l \in Nat \ {0} /\ Len(waiting') = l - 1
      /\ \A i \in 1 .. l - 1 : waiting'[i] = waiting[i + 1]
  <2>1. waiting \in Seq(Publications) /\ l \in Nat \ {0}
    BY DEF Typed
  <2>2. waiting' = Without(waiting, 1)
    BY <1>2 DEF Publish, Without
  <2>3. Len(Without(waiting, 1)) = l - 1
        /\ \A i \in 1 .. l - 1 : Without(waiting, 1)[i] = waiting[IF i < 1 THEN i ELSE i + 1]
    BY <1>2, <2>1, Removed
  <2> QED
    BY <2>1, <2>2, <2>3
<1> HIDE DEF l
<1>4. /\ waiting[1].uri \in Uris
      /\ shown' = [shown EXCEPT ![waiting[1].uri] = waiting[1]] /\ shown \in [Uris -> Publications]
  BY <1>2, <1>3, OfDocuments DEF Publish, Typed, l
<1>5. ASSUME NEW i \in 1 .. l - 1, waiting'[i].uri = u,
             \A j \in i + 1 .. l - 1 : waiting'[j].uri # u
      PROVE  waiting'[i].diagnostics = Diagnostics(documents[u])
  <2>1. i + 1 \in 1 .. l /\ waiting[i + 1].uri = u
    BY <1>3, <1>5
  <2>2. ASSUME NEW j \in (i + 1) + 1 .. l PROVE waiting[j].uri # u
    <3>1. j - 1 \in i + 1 .. l - 1 /\ j - 1 \in 1 .. l - 1 /\ (j - 1) + 1 = j
      BY <1>3
    <3> QED
      BY <1>3, <1>5, <3>1
  <2>3. waiting[i + 1].diagnostics = Diagnostics(documents[u])
    BY <1>2, <2>1, <2>2 DEF Published, l
  <2> QED
    BY <1>3, <2>3
<1>6. ASSUME Pending(u)' = {} PROVE shown'[u].diagnostics = Diagnostics(documents[u])
  <2>1. ASSUME NEW j \in 2 .. l PROVE waiting[j].uri # u
    <3>1. j - 1 \in 1 .. l - 1 /\ (j - 1) + 1 = j
      BY <1>3
    <3>2. waiting'[j - 1] = waiting[j] /\ j - 1 \in 1 .. Len(waiting')
      BY <1>3, <3>1
    <3> QED
      BY <1>6, <3>2 DEF Pending
  <2>2. CASE u = waiting[1].uri
    <3>1. 1 \in 1 .. l /\ 1 + 1 = 2
      BY <1>3
    <3>2. waiting[1].diagnostics = Diagnostics(documents[u])
      BY <1>2, <2>1, <2>2, <3>1 DEF Published, l
    <3> QED
      BY <1>4, <2>2, <3>2
  <2>3. CASE u # waiting[1].uri
    <3>1. \A i \in 1 .. l : i = 1 \/ i \in 2 .. l
      BY <1>3
    <3>2. Pending(u) = {}
      BY <2>1, <2>3, <3>1 DEF Pending, l
    <3> QED
      BY <1>2, <1>4, <2>3, <3>2 DEF Published
  <2> QED
    BY <2>2, <2>3
<1> QED
  BY <1>2, <1>3, <1>5, <1>6

-----------------------------------------------------------------------------
(* Versions.                                                               *)

\* A message opens a document, is a new version, or leaves the text or ends it.
LEMMA SendingVersions ==
    ASSUME Typed, NEW m, Sending(m), NEW u \in Uris
    PROVE  \/ u = m.uri /\ m.kind = "open" /\ life'[u] = life[u] + 1
           \/ /\ u = m.uri /\ m.kind = "change" /\ text[u] # None
              /\ life'[u] = life[u] /\ version'[u] = version[u] + 1
           \/ /\ life'[u] = life[u] /\ version'[u] = version[u]
              /\ text'[u] = text[u] \/ text'[u] = None
<1>1. /\ m \in Message /\ m.uri \in Uris
      /\ text \in [Uris -> TextOrNone] /\ version \in [Uris -> Nat] /\ life \in [Uris -> Nat]
  BY MessageParts DEF Sending, Typed, TypeOK, TextOrNone
<1>2. CASE u = m.uri /\ m.kind = "open"
  BY <1>1, <1>2 DEF Sending
<1>3. CASE u = m.uri /\ m.kind = "change"
  BY <1>1, <1>3 DEF Sending
<1>4. CASE ~(u = m.uri /\ m.kind \in {"open", "change"})
  <2>1. version'[u] = version[u] /\ life'[u] = life[u]
    BY <1>1, <1>4 DEF Sending
  <2>2. text'[u] = text[u] \/ text'[u] = None
    <3>1. CASE u # m.uri
      BY <1>1, <3>1, EffectIs DEF Sending, About
    <3>2. CASE u = m.uri /\ m.kind \notin {"open", "change"}
      BY <1>1, <3>2 DEF Sending, Effect, Tells, TextIn
    <3> QED
      BY <1>4, <3>1, <3>2
  <2> QED
    BY <2>1, <2>2
<1> QED
  BY <1>2, <1>3, <1>4

LEMMA SendingTruthful ==
    ASSUME Typed, NEW m, Sending(m), NEW p \in Publications, Truthful(p)
    PROVE  Truthful(p)'
<1>1. /\ p.uri \in Uris /\ p.version \in Nat /\ p.life \in Nat
      /\ version[p.uri] \in Nat /\ life[p.uri] \in Nat
  BY DEF Publications, Typed, TypeOK
<1> QED
  BY <1>1, SendingVersions DEF Truthful

LEMMA SendingVersioned ==
    ASSUME Typed, NEW m, Sending(m), NEW k \in Message, Versioned(k)
    PROVE  Versioned(k)'
<1>1. k.uri \in Uris /\ version[k.uri] \in Nat /\ life[k.uri] \in Nat
  BY MessageParts DEF Typed, TypeOK
<1>2. k.kind \in {"open", "change"} => k.version \in Nat /\ k.life \in Nat
  BY MessageParts DEF OpenMessage, ChangeMessage
<1> QED
  BY <1>1, <1>2, SendingVersions DEF Versioned

LEMMA SendingKeepsVersions ==
    ASSUME Typed, VersionsKept, NEW m, Sending(m) PROVE VersionsKept'
<1>1. /\ m \in Message /\ m.uri \in Uris
      /\ text \in [Uris -> TextOrNone] /\ version \in [Uris -> Nat] /\ life \in [Uris -> Nat]
      /\ waiting \in Seq(Publications) /\ shown \in [Uris -> Publications]
      /\ inbox \in Seq(Message) /\ waiting' = waiting /\ shown' = shown
  BY MessageParts DEF Sending, Typed, TypeOK, TextOrNone, server
<1>2. ASSUME NEW u \in Uris, text'[u] # None PROVE version'[u] > 0
  <2>1. CASE u = m.uri /\ m.kind = "open"
    BY <1>1, <2>1 DEF Sending
  <2>2. CASE ~(u = m.uri /\ m.kind = "open")
    BY <1>1, <1>2, <2>2, SendingVersions DEF VersionsKept
  <2> QED
    BY <2>1, <2>2
<1>3. Versioned(m)'
  <2>1. /\ text' \in [Uris -> TextOrNone]
        /\ Tells(m) => text'[m.uri] = TextIn(m)
    BY <1>1, EffectIs DEF Sending
  <2>2. m.kind \in {"open", "change"} =>
            /\ m.version = version'[m.uri] /\ m.version \in Nat
            /\ m.life = life'[m.uri] /\ m.life \in Nat
    BY <1>1, MessageParts DEF Sending, OpenMessage, ChangeMessage
  <2> QED
    BY <2>1, <2>2 DEF Versioned
<1>4. ASSUME NEW i \in 1 .. Len(inbox') PROVE Versioned(inbox[i])'
  <2>1. /\ Len(inbox') = Len(inbox) + 1 /\ inbox'[Len(inbox) + 1] = m
        /\ \A j \in 1 .. Len(inbox) : inbox'[j] = inbox[j]
    BY <1>1, Appended DEF Sending
  <2>2. i \in 1 .. Len(inbox) \/ i = Len(inbox) + 1
    BY <1>1, <2>1
  <2>3. CASE i = Len(inbox) + 1
    BY <1>3, <2>1, <2>3 DEF Versioned
  <2>4. CASE i \in 1 .. Len(inbox)
    <3>1. PICK k \in Message : k = inbox[i]
      BY <1>1, <2>4
    <3>2. Versioned(k)
      BY <2>4, <3>1 DEF VersionsKept
    <3>3. Versioned(k)'
      BY <3>2, SendingVersioned
    <3> QED
      BY <2>1, <2>4, <3>1, <3>3 DEF Versioned
  <2> QED
    BY <2>2, <2>3, <2>4
<1>5. ASSUME NEW p \in Publications, Truthful(p) PROVE Truthful(p)'
  BY <1>5, SendingTruthful
<1>6. ASSUME NEW i \in 1 .. Len(waiting') PROVE Truthful(waiting[i])'
  <2>1. PICK p \in Publications : p = waiting[i] /\ Truthful(p)
    BY <1>1 DEF VersionsKept
  <2> QED
    BY <1>1, <1>5, <2>1 DEF Truthful
<1>7. ASSUME NEW u \in Uris PROVE Truthful(shown[u])'
  <2>1. PICK p \in Publications : p = shown[u] /\ Truthful(p)
    BY <1>1 DEF VersionsKept
  <2> QED
    BY <1>1, <1>5, <2>1 DEF Truthful
<1> QED
  BY <1>2, <1>4, <1>6, <1>7 DEF VersionsKept

LEMMA HandlingKeepsVersions ==
    ASSUME Typed, VersionsKept, NEW m \in Message, Handling(m) PROVE VersionsKept'
<1>1. /\ m.uri \in Uris /\ text' = text /\ version' = version /\ life' = life
      /\ shown' = shown
      /\ version \in [Uris -> Nat] /\ life \in [Uris -> Nat] /\ waiting \in Seq(Publications)
      /\ documents \in [Uris -> TextOrNone] /\ documents' \in [Uris -> TextOrNone]
  BY HandlingTypes, MessageParts DEF Handling, Typed, TypeOK, TextOrNone, editor
<1>2. /\ Len(inbox) \in Nat \ {0} /\ inbox[1] = m /\ Len(inbox') = Len(inbox) - 1
      /\ \A i \in 1 .. Len(inbox) - 1 : inbox'[i] = inbox[i + 1]
  BY Taken DEF Handling, Typed
<1>3. ASSUME NEW i \in 1 .. Len(inbox') PROVE Versioned(inbox[i])'
  <2>1. i + 1 \in 1 .. Len(inbox) /\ inbox'[i] = inbox[i + 1]
    BY <1>2
  <2>2. Versioned(inbox[i + 1])
    BY <2>1 DEF VersionsKept
  <2> QED
    BY <1>1, <2>1, <2>2 DEF Versioned
<1>4. ASSUME NEW i \in 1 .. Len(waiting') PROVE Truthful(waiting[i])'
  <2>1. CASE waiting' = waiting
    <3>1. Truthful(waiting[i])
      BY <2>1 DEF VersionsKept
    <3> QED
      BY <1>1, <2>1, <3>1 DEF Truthful
  <2>2. ASSUME NEW v \in Nat, NEW l \in Nat,
               \/ v = 0 /\ l = 0
               \/ m.kind \in {"open", "change"} /\ Tells(m) /\ v = m.version /\ l = m.life,
               waiting' = Append(waiting, Publication(m.uri, documents'[m.uri], v, l))
        PROVE  Truthful(waiting[i])'
    <3> DEFINE p == Publication(m.uri, documents'[m.uri], v, l)
    <3>1. /\ p \in Publications /\ p.uri = m.uri /\ p.version = v /\ p.life = l
          /\ p.diagnostics = Diagnostics(documents'[m.uri])
      BY <1>1 DEF Publication, Publications
    <3> HIDE DEF p
    <3>2. /\ Len(waiting') = Len(waiting) + 1 /\ waiting'[Len(waiting) + 1] = p
          /\ \A j \in 1 .. Len(waiting) : waiting'[j] = waiting[j]
      BY <1>1, <2>2, <3>1, Appended DEF p
    <3>3. CASE i \in 1 .. Len(waiting)
      <4>1. Truthful(waiting[i])
        BY <3>3 DEF VersionsKept
      <4> QED
        BY <1>1, <3>2, <3>3, <4>1 DEF Truthful
    <3>4. CASE i = Len(waiting) + 1
      <4>1. CASE v = 0 /\ l = 0
        BY <1>1, <3>1, <3>2, <3>4, <4>1 DEF Truthful, VersionsKept
      <4>2. CASE m.kind \in {"open", "change"} /\ Tells(m) /\ v = m.version
                  /\ l = m.life
        <5>1. 1 \in 1 .. Len(inbox) /\ Versioned(m)
          BY <1>2 DEF VersionsKept
        <5>2. documents'[m.uri] = TextIn(m)
          BY <1>1, <4>2, EffectIs DEF Handling
        <5> QED
          BY <1>1, <3>1, <3>2, <3>4, <4>2, <5>1, <5>2 DEF Truthful, Versioned
      <4> QED
        BY <2>2, <4>1, <4>2
    <3> QED
      BY <1>1, <3>2, <3>3, <3>4
  <2> QED
    BY <2>1, <2>2 DEF Handling
<1>5. ASSUME NEW u \in Uris PROVE Truthful(shown[u])'
  BY <1>1 DEF Truthful, VersionsKept
<1>6. ASSUME NEW u \in Uris, text'[u] # None PROVE version'[u] > 0
  BY <1>1, <1>6 DEF VersionsKept
<1> QED
  BY <1>3, <1>4, <1>5, <1>6 DEF VersionsKept

LEMMA PublishingKeepsVersions ==
    ASSUME Typed, VersionsKept, NEW n \in 1 .. Len(waiting), Publish(n) PROVE VersionsKept'
<1>1. /\ text' = text /\ version' = version /\ life' = life /\ inbox' = inbox
      /\ waiting \in Seq(Publications) /\ shown \in [Uris -> Publications]
      /\ shown' = [shown EXCEPT ![waiting[n].uri] = waiting[n]] /\ waiting[n].uri \in Uris
  BY OfDocuments DEF Publish, Typed, editor
<1>2. ASSUME NEW i \in 1 .. Len(waiting') PROVE Truthful(waiting[i])'
  <2>1. waiting' = Without(waiting, n)
    BY DEF Publish, Without
  <2>2. /\ Len(waiting') = Len(waiting) - 1
        /\ waiting'[i] = waiting[IF i < n THEN i ELSE i + 1]
    BY <1>1, <2>1, Removed
  <2>3. PICK j \in 1 .. Len(waiting) : waiting'[i] = waiting[j]
    BY <1>1, <2>2
  <2>4. Truthful(waiting[j])
    BY DEF VersionsKept
  <2> QED
    BY <1>1, <2>3, <2>4 DEF Truthful
<1>3. ASSUME NEW u \in Uris PROVE Truthful(shown[u])'
  <2>1. Truthful(waiting[n]) /\ Truthful(shown[u])
    BY DEF VersionsKept
  <2>2. shown'[u] = waiting[n] \/ shown'[u] = shown[u]
    BY <1>1
  <2> QED
    BY <1>1, <2>1, <2>2 DEF Truthful
<1> QED
  BY <1>1, <1>2, <1>3 DEF VersionsKept, Versioned

-----------------------------------------------------------------------------
(* The invariant, and what follows from it.                                *)

Explained == \E h : History(h)
Inv == Typed /\ Explained /\ TokensAreCurrent /\ Published /\ VersionsKept

LEMMA InvInit == ASSUME Init PROVE Inv
<1>1. \A u \in Uris : /\ Publication(u, None, 0, 0) \in Publications
                      /\ Publication(u, None, 0, 0).uri = u
                      /\ Publication(u, None, 0, 0).version = 0
                      /\ Publication(u, None, 0, 0).life = 0
                      /\ Publication(u, None, 0, 0).diagnostics = Diagnostics(None)
  BY DEF Publication, Publications, TextOrNone
<1>2. shown \in [Uris -> Publications] /\ \A u \in Uris : shown[u].uri = u
  BY <1>1 DEF Init
<1>3. /\ documents \in [Uris -> TextOrNone] /\ text = documents
      /\ version \in [Uris -> Nat] /\ life \in [Uris -> Nat] /\ Len(waiting) = 0 /\ Len(inbox) = 0
      /\ inbox \in Seq(Message) /\ waiting \in Seq(Publications)
  BY DEF Init, TextOrNone
<1>4. Typed
  BY <1>2, <1>3, LanesAssumption, MaxSendsAssumption DEF Init, Typed, TypeOK, TextOrNone
<1>5. Explained
  <2>1. PICK h : h = [i \in 0 .. 0 |-> documents]
    OBVIOUS
  <2>2. h \in [0 .. 0 -> [Uris -> TextOrNone]] /\ \A i \in 0 .. 0 : i = 0 /\ h[i] = documents
    BY <1>3, <2>1
  <2>3. h[0] = documents /\ 0 \in 0 .. 0
    BY <2>2
  <2>4. \A u \in Uris : \A i \in 0 .. 0 : \A j \in i .. 0 : h[i][u] = h[j][u]
    <3> SUFFICES ASSUME NEW u \in Uris, NEW i \in 0 .. 0, NEW j \in i .. 0
                 PROVE  h[i][u] = h[j][u]
      OBVIOUS
    <3>1. i = 0 /\ j = 0
      OBVIOUS
    <3> QED
      BY <3>1
  <2>5. \A i \in 1 .. 0 : FALSE
    OBVIOUS
  <2>6. History(h)
    BY <1>3, <2>2, <2>3, <2>4, <2>5 DEF History
  <2> QED
    BY <2>6 DEF Explained
<1>6. TokensAreCurrent
  BY DEF Init, TokensAreCurrent
<1>7. Published
  BY <1>1, <1>3 DEF Init, Published
<1>8. VersionsKept
  BY <1>1, <1>2, <1>3 DEF Init, VersionsKept, Truthful
<1> QED
  BY <1>4, <1>5, <1>6, <1>7, <1>8 DEF Inv

LEMMA InvStep == ASSUME Inv, [Next]_vars PROVE Inv'
<1>0. Typed /\ TokensAreCurrent /\ Published /\ VersionsKept
  BY DEF Inv
<1>1. PICK h : History(h)
  BY DEF Inv, Explained
<1>2. CASE Edits
  <2>1. PICK m : Sending(m)
    BY <1>0, <1>2, EditsSend
  <2>2. Explained'
    BY <1>0, <1>1, <2>1, HistoryGrows DEF Explained
  <2>3. TokensAreCurrent' /\ Published'
    BY <1>0, <2>1 DEF Sending, server, TokensAreCurrent, Published, Pending
  <2> QED
    BY <1>0, <2>1, <2>2, <2>3, SendingTypes, SendingKeepsVersions DEF Inv
<1>3. CASE Handle
  <2>1. PICK m \in Message : Handling(m)
    BY <1>0, <1>3, HandlersTake
  <2>2. Explained' /\ (m.kind = "tokens" => m.asked = documents[m.uri])
    BY <1>0, <1>1, <2>1, HistoryPasses DEF Explained
  <2>3. TokensAreCurrent'
    BY <1>0, <2>1, <2>2 DEF Handling, TokensAreCurrent
  <2> QED
    BY <1>0, <2>1, <2>2, <2>3, HandlingTypes, HandlingPublishes, HandlingKeepsVersions DEF Inv
<1>4. ASSUME NEW n \in 1 .. Len(waiting), Publish(n) PROVE Inv'
  <2>1. Explained' /\ TokensAreCurrent'
    BY <1>0, <1>1, <1>4, HistoryStays DEF Publish, editor, Explained, TokensAreCurrent
  <2> QED
    BY <1>0, <1>4, <2>1, PublishingTypes, PublishingPublishes, PublishingKeepsVersions DEF Inv
<1>5. CASE UNCHANGED vars
  <2>1. Typed'
    BY <1>0, <1>5 DEF vars, editor, server, Typed, TypeOK
  <2>2. Explained' /\ TokensAreCurrent'
    BY <1>0, <1>1, <1>5, HistoryStays DEF vars, editor, server, Explained, TokensAreCurrent
  <2>3. Published' /\ VersionsKept'
    BY <1>0, <1>5
       DEF vars, editor, server, Published, Pending, VersionsKept, Versioned, Truthful
  <2> QED
    BY <2>1, <2>2, <2>3 DEF Inv
<1> QED
  BY <1>2, <1>3, <1>4, <1>5 DEF Next

LEMMA InvHolds == Spec => []Inv
BY InvInit, InvStep, PTL DEF Spec

\* The server's state has the types TypeOK states.
\* (the document map and what handlers publish)
THEOREM ServerTypeCorrect == Spec => []TypeOK
<1>1. Inv => TypeOK
  BY DEF Inv, Typed
<1> QED
  BY <1>1, InvHolds, PTL

\* However many messages are under way, the map follows the editor, and tokens
\* are of the text they were asked for.  (refresh, did_close, semantic_tokens_full)
THEOREM ServerServesCurrent == Spec => []ServesCurrent
<1>1. Inv => ServesCurrent
  BY CurrentFollows DEF Inv, Explained, ServesCurrent
<1> QED
  BY <1>1, InvHolds, PTL

\* What the editor shows of a document about which nothing is under way is of its
\* text, if publications arrive in order.  (publish_diagnostics)
THEOREM ServerShowsCurrent == Spec => []ShownIsCurrent
<1>1. Inv => ShownIsCurrent
  <2> SUFFICES ASSUME Inv, NEW u \in Uris, inOrder, Unhandled(u) = {}, Pending(u) = {}
               PROVE  shown[u].diagnostics = Diagnostics(text[u])
    BY DEF ShownIsCurrent
  <2>1. documents[u] = text[u]
    BY CurrentFollows DEF Inv, Explained, StoredIsCurrent
  <2>2. shown[u].diagnostics = Diagnostics(documents[u])
    BY DEF Inv, Published
  <2> QED
    BY <2>1, <2>2
<1> QED
  BY <1>1, InvHolds, PTL

\* In whatever order they arrive, and whatever versions the editor opens documents
\* with, a publication of the present opening with the version of the editor's text
\* is of that text.  (the version arguments of refresh)
THEOREM ServerVersionsTell == Spec => []VersionsTell
<1>1. Inv => VersionsTell
  BY DEF Inv, Typed, TypeOK, VersionsKept, Truthful, VersionsTell
<1> QED
  BY <1>1, InvHolds, PTL

=============================================================================
