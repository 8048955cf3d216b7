---------------------------- MODULE LanguageServer ----------------------------
(***************************************************************************)
(* The language server (crates/foresee-semantics/src/lsp.rs) and an editor *)
(* that talks to it over a pipe.  The server handles one message after the *)
(* other; the editor does not wait for it, so that its documents are ahead *)
(* of the server's by what is in the pipe.                                 *)
(*                                                                         *)
(* The editor keeps to the protocol, with lapses: it may repeat or confuse *)
(* messages about documents, and ask before it is welcome.  It shows what  *)
(* was published last.  What the compiler has to say of a text stands for  *)
(* it: diagnostics, symbols and hover are the text they are about.  Frames *)
(* are whole, damaged within, or cut off.                                  *)
(***************************************************************************)
EXTENDS Naturals, Sequences, FiniteSets, Functions

CONSTANTS
    Uris, Texts,
    LongUris,        \* above 4096 bytes
    Oversized,       \* texts above MAX_SOURCE_BYTES
    MaxDocuments,    \* MAX_DOCUMENTS
    None,            \* nothing: no diagnostics, a null result
    Limit,           \* the diagnostic of a limit, F0001
    Error,           \* an error response
    MaxVersion, MaxRequests, MaxLapses, MaxUnread   \* bounds

ASSUME LanguageServerAssumption ==
    /\ IsFiniteSet(Uris) /\ LongUris \subseteq Uris /\ Oversized \subseteq Texts
    /\ {None, Limit, Error} \cap Texts = {}
    /\ None \notin [version : Nat, text : Texts] \cup [version : Nat, shows : Texts \cup {Limit}]
    /\ {MaxDocuments, MaxVersion, MaxRequests, MaxLapses, MaxUnread} \subseteq Nat

VARIABLES
    initialized, shutdown, documents,   \* Server
    exit,        \* exit status of the process, or None
    unread,      \* the pipe to the server
    session,     \* the editor's: "new", "open", "closing", "over"
    buffer,      \* a document's [version, text], None if not open
    crowded,     \* documents opened while MaxDocuments others were open
    screen,      \* the last diagnostics: [version, shows], or None
    asked,       \* requests so far: the answers each may get
    answers,     \* those given
    lapses

server == <<initialized, shutdown, documents, exit>>
documentsSeen == <<buffer, crowded>>
editor == <<session, documentsSeen, asked, lapses>>
vars == <<server, unread, editor, screen, answers>>

NoDocuments == [u \in {} |-> None]

Init ==
    /\ initialized = FALSE /\ shutdown = FALSE
    /\ documents = NoDocuments
    /\ exit = None
    /\ unread = <<>>
    /\ session = "new"
    /\ buffer = [u \in Uris |-> None]
    /\ crowded = {}
    /\ screen = [u \in Uris |-> None]
    /\ asked = <<>>
    /\ answers = [n \in {} |-> None]
    /\ lapses = 0

-----------------------------------------------------------------------------
(* Server::handle.  A request has the number under which it was asked.     *)
IsRequest(m) == "id" \in DOMAIN m
Respond(m, result) ==
    answers' = [n \in DOMAIN answers \cup {m.id} |-> IF n = m.id THEN result ELSE answers[n]]

Receive(m) ==
    /\ exit = None /\ unread # <<>> /\ m = Head(unread)
    /\ unread' = Tail(unread)
    /\ UNCHANGED editor

Exits(m) ==
    /\ m.method = "exit"
    /\ exit' = IF shutdown THEN 0 ELSE 1
    /\ UNCHANGED <<initialized, shutdown, documents, screen, answers>>

Initialize(m) ==
    /\ m.method = "initialize" /\ ~initialized
    /\ initialized' = TRUE
    /\ Respond(m, None)
    /\ UNCHANGED <<shutdown, documents, exit, screen>>

(* Already initialized, not yet, or shut down: requests get an error and   *)
(* notifications nothing.                                                  *)
Rejected(m) ==
    IF m.method = "initialize" THEN initialized ELSE m.method # "exit" /\ (~initialized \/ shutdown)
Reject(m) ==
    /\ Rejected(m)
    /\ IF IsRequest(m) THEN Respond(m, Error) ELSE UNCHANGED answers
    /\ UNCHANGED <<server, screen>>

Serving(m) == initialized /\ ~shutdown /\ m.method \notin {"initialize", "exit"}

Shutdown(m) ==
    /\ Serving(m) /\ m.method = "shutdown"
    /\ shutdown' = TRUE
    /\ documents' = NoDocuments
    /\ Respond(m, None)
    /\ UNCHANGED <<initialized, exit, screen>>

(* documentSymbol and hover; nothing is known of a text that is too long.  *)
Inspect(m) ==
    /\ Serving(m) /\ m.method = "inspect"
    /\ Respond(m, IF m.uri \in DOMAIN documents THEN documents[m.uri].text ELSE None)
    /\ UNCHANGED <<server, screen>>

Unsupported(m) ==
    /\ Serving(m) /\ m.method = "unknown"
    /\ IF IsRequest(m) THEN Respond(m, Error) ELSE UNCHANGED answers
    /\ UNCHANGED <<server, screen>>

-----------------------------------------------------------------------------
(* Documents.  (Mutant of Retained: a text of any size is kept.)           *)
KeptWhole(text) == text
Retained(text) == IF text \in Oversized THEN None ELSE text
Diagnostics(document) == IF document.text = None THEN Limit ELSE document.text

Publish(u, shown) == screen' = [screen EXCEPT ![u] = shown]

Store(m, text) ==
    LET document == [version |-> m.version, text |-> Retained(text)] IN
    /\ documents' = [u \in DOMAIN documents \cup {m.uri} |->
                        IF u = m.uri THEN document ELSE documents[u]]
    /\ Publish(m.uri, [version |-> m.version, shows |-> Diagnostics(document)])

Ignore == UNCHANGED <<documents, screen>>

DocumentMethods == {"didOpen", "didChange", "didClose"}

(* didOpen: logged if it is open, refused if too many are.                 *)
DidOpen(m) ==
    \/ m.uri \in DOMAIN documents /\ Ignore
    \/ /\ m.uri \notin DOMAIN documents
       /\ Cardinality(DOMAIN documents) >= MaxDocuments
       /\ Publish(m.uri, [version |-> m.version, shows |-> Limit])
       /\ UNCHANGED documents
    \/ /\ m.uri \notin DOMAIN documents
       /\ Cardinality(DOMAIN documents) < MaxDocuments
       /\ Store(m, m.text)

(* didChange: nothing happens to a document that is not open, with a       *)
(* version that does not grow (mutant: that is older), or for a change     *)
(* that is not the full text.  The last of several texts counts.           *)
Older(version, previous) == version < previous
Stale(version, previous) == version <= previous

Current(m) == m.uri \in DOMAIN documents /\ ~Stale(m.version, documents[m.uri].version)
DidChange(m) ==
    \/ Current(m) /\ m.texts # <<>> /\ Store(m, m.texts[Len(m.texts)])
    \/ ~(Current(m) /\ m.texts # <<>>) /\ Ignore

DidClose(m) ==
    /\ documents' = Restrict(documents, DOMAIN documents \ {m.uri})
    /\ Publish(m.uri, None)

(* Under a name that is too long nothing is stored or published: the       *)
(* message is only logged.                                                 *)
HandleDocument(m) ==
    /\ Serving(m)
    /\ \/ m.method \in DocumentMethods /\ m.uri \in LongUris /\ Ignore
       \/ m.method = "didOpen" /\ m.uri \notin LongUris /\ DidOpen(m)
       \/ m.method = "didChange" /\ m.uri \notin LongUris /\ DidChange(m)
       \/ m.method = "didClose" /\ m.uri \notin LongUris /\ DidClose(m)
    /\ UNCHANGED <<initialized, shutdown, exit, answers>>

-----------------------------------------------------------------------------
(* A whole frame that is no JSON or no request changes nothing; the end of *)
(* the pipe ends the process, and within a frame that is a failure.        *)
Frame(m) ==
    \/ m.method = "damaged" /\ UNCHANGED <<server, screen, answers>>
    \/ /\ m.method \in {"end", "cut"}
       /\ exit' = IF m.method = "cut" THEN 2 ELSE IF shutdown THEN 0 ELSE 1
       /\ UNCHANGED <<initialized, shutdown, documents, screen, answers>>

Whole(m) == m.method \notin {"damaged", "end", "cut"}
Handle(m) ==
    \/ Exits(m) \/ Initialize(m) \/ Reject(m)
    \/ Shutdown(m) \/ Inspect(m) \/ Unsupported(m) \/ HandleDocument(m)

Serve ==
    \E m \in {unread[i] : i \in 1 .. Len(unread)} :
        Receive(m) /\ IF Whole(m) THEN Handle(m) ELSE Frame(m)

-----------------------------------------------------------------------------
(* The editor.                                                             *)
Send(m) ==
    /\ session # "over" /\ Len(unread) < MaxUnread
    /\ unread' = Append(unread, m)
    /\ UNCHANGED <<server, screen, answers>>

Lapse == lapses < MaxLapses /\ lapses' = lapses + 1

(* A request gets the next number; "due" is what may be answered.          *)
Ask(method, u, due) ==
    /\ Len(asked) < MaxRequests
    /\ Send([method |-> method, uri |-> u, id |-> Len(asked) + 1])
    /\ asked' = Append(asked, due)

Start == /\ session = "new" /\ session' = "open"
         /\ Ask("initialize", None, {None})
         /\ UNCHANGED <<documentsSeen, lapses>>

Finish == /\ session = "open" /\ session' = "closing"
          /\ Ask("shutdown", None, {None})
          /\ UNCHANGED <<documentsSeen, lapses>>

Leave == /\ \/ session = "closing" /\ Send([method |-> "exit"]) /\ UNCHANGED lapses
            \/ Lapse /\ \E how \in {"exit", "end", "cut"} : Send([method |-> how])
         /\ session' = "over"
         /\ UNCHANGED <<documentsSeen, asked>>

IsOpen(u) == buffer[u] # None
Followed(u) == IsOpen(u) /\ u \notin LongUris
Understood(u) == {IF Followed(u) /\ buffer[u].text \notin Oversized THEN buffer[u].text ELSE None}

(* What the editor may be told of a document now.                          *)
Due(u) ==
    IF session # "open" THEN {Error}
    ELSE Understood(u) \cup (IF u \in crowded THEN {None} ELSE {})

Inquire(u) == /\ Ask("inspect", u, Due(u))
              /\ UNCHANGED <<session, documentsSeen, lapses>>

Edit(u, version, text) == buffer' = [buffer EXCEPT ![u] = [version |-> version, text |-> text]]
Room(u) == u \in LongUris \/ Cardinality({v \in Uris \ {u} : Followed(v)}) < MaxDocuments
Crowd(u) == crowded' = IF Room(u) THEN crowded \ {u} ELSE crowded \cup {u}

(* A document that was refused may be sent again.                          *)
Open(u, text) ==
    /\ session = "open" /\ ~IsOpen(u)
    /\ Send([method |-> "didOpen", uri |-> u, version |-> 1, text |-> text])
    /\ Edit(u, 1, text) /\ Crowd(u)
    /\ UNCHANGED <<session, asked, lapses>>

OpenAgain(u) ==
    /\ session = "open" /\ u \in crowded
    /\ Send([method |-> "didOpen", uri |-> u, version |-> buffer[u].version, text |-> buffer[u].text])
    /\ Crowd(u)
    /\ UNCHANGED <<session, asked, lapses, buffer>>

Change(u, texts) ==
    /\ session = "open" /\ IsOpen(u) /\ buffer[u].version < MaxVersion
    /\ LET version == buffer[u].version + 1 IN
       /\ Send([method |-> "didChange", uri |-> u, version |-> version, texts |-> texts])
       /\ Edit(u, version, texts[Len(texts)])
    /\ UNCHANGED <<session, crowded, asked, lapses>>

Close(u) ==
    /\ session = "open" /\ IsOpen(u)
    /\ Send([method |-> "didClose", uri |-> u])
    /\ buffer' = [buffer EXCEPT ![u] = None]
    /\ crowded' = crowded \ {u}
    /\ UNCHANGED <<session, asked, lapses>>

(* What must not change anything: an old change, or one of a part of the   *)
(* text, a second opening, a document that is not open, a broken message,  *)
(* a request that nobody knows.                                            *)
Lapses(u) ==
    [method : {"didChange"}, uri : {u}, version : 1 .. MaxVersion, texts : {<<>>}]
    \cup {m \in [method : {"didChange"}, uri : {u}, version : 1 .. MaxVersion, texts : {<<t>> : t \in Texts}] :
              IsOpen(u) => m.version <= buffer[u].version}
    \cup {m \in [method : {"didOpen"}, uri : {u}, version : {MaxVersion}, text : Texts] :
              IsOpen(u) /\ u \notin crowded}
    \cup {m \in [method : {"didClose"}, uri : {u}] : ~IsOpen(u)}
    \cup [method : {"damaged", "unknown"}]

Err(u) == /\ Lapse
          /\ session = "open"
          /\ \E m \in Lapses(u) : Send(m)
          /\ UNCHANGED <<session, documentsSeen, asked>>

AskInVain == /\ Lapse
             /\ \E method \in {"initialize", "unknown"} :
                   /\ method = "initialize" => session # "new"
                   /\ Ask(method, None, {Error})
             /\ UNCHANGED <<session, documentsSeen>>

Act(u) ==
    \/ Inquire(u) \/ OpenAgain(u) \/ Close(u) \/ Err(u)
    \/ \E t \in Texts : Open(u, t) \/ Change(u, <<t>>) \/ \E s \in Texts : Change(u, <<s, t>>)

Next == Serve \/ Start \/ Finish \/ Leave \/ AskInVain \/ \E u \in Uris : Act(u)

Spec == Init /\ [][Next]_vars
-----------------------------------------------------------------------------
(* Once the server has read everything, the screen shows the diagnostics   *)
(* of every document as the editor has it, under its version, and nothing  *)
(* for others, or for a document whose name is too long.  Only a document  *)
(* that was opened among too many may be said to exceed the limit.         *)
Refused(u) == screen[u] # None /\ screen[u].shows = Limit
Expected(u) ==
    IF ~Followed(u) THEN None
    ELSE [version |-> buffer[u].version,
          shows |-> IF buffer[u].text \in Oversized THEN Limit ELSE buffer[u].text]

ScreenIsCurrent ==
    session = "open" /\ unread = <<>> =>
        \A u \in Uris : screen[u] = Expected(u) \/ (u \in crowded /\ Refused(u))

(* Every request that was read has an answer that tells of the document as *)
(* it was in the editor when it asked, never of an older or newer text.    *)
AnswersFitTheirRequests ==
    /\ \A n \in DOMAIN answers : answers[n] \in asked[n]
    /\ exit = None =>
          \A n \in 1 .. Len(asked) :
              n \in DOMAIN answers <=> ~\E i \in 1 .. Len(unread) : IsRequest(unread[i]) /\ unread[i].id = n

(* The editor and the server agree, however far apart they are: the screen *)
(* settles on the editor's own documents and requests are answered about   *)
(* the text they were asked about.                                         *)
EditorAndServerAgree == ScreenIsCurrent /\ AnswersFitTheirRequests
=============================================================================
