-------------------------- MODULE LanguageToolsProofs --------------------------
(***************************************************************************)
(* What an editor and a writer see of the language, for any documents,     *)
(* texts, limits and number of messages in the pipe, and for sources and   *)
(* programs of any length.                                                 *)
(*                                                                         *)
(* Language server.  What the server knows lags behind what the editor     *)
(* did, so the invariant cannot compare the two as they are.  It looks     *)
(* ahead instead: however the server handles what is in the pipe, it meets *)
(* every request in a state whose answer is due, and ends in a state that  *)
(* agrees with the editor.  The editor's steps add to the end of such a    *)
(* run, the server's own steps take from its beginning.                    *)
(*                                                                         *)
(* Front ends.  The loops of the lexers are followed turn by turn: both    *)
(* lexers stand at the same place with the same tokens and errors until    *)
(* the native one gives up with a code of its own.  The parsers are        *)
(* compared by how many readings may be within one another: if at most n   *)
(* read alike, so do n + 1, unless the native one meets a limit.  Quoted   *)
(* text is followed character by character.                                *)
(***************************************************************************)
EXTENDS LanguageServer, Documents, FiniteSetTheorems, SequenceTheorems,
        NaturalsInduction, WellFoundedInduction, TLAPS

Requests == {"initialize", "shutdown", "inspect"}
Leaving == {"exit", "end", "cut"}

(* What the server knows: a state of a run is a record like this.          *)
Phase == IF ~initialized THEN "new" ELSE IF shutdown THEN "closing" ELSE "open"
Now == [phase |-> Phase, documents |-> documents, screen |-> screen]

(* What handling a message makes of such a state.                          *)
Newer(s, m) ==
    /\ m.uri \in DOMAIN s.documents /\ ~Stale(m.version, s.documents[m.uri].version)
    /\ m.texts # <<>>
Shows(s, t, u, shown) == t.screen = [s.screen EXCEPT ![u] = shown]
Stores(s, m, text, t) ==
    /\ t.phase = "open"
    /\ t.documents = [u \in DOMAIN s.documents \cup {m.uri} |->
                        IF u = m.uri THEN [version |-> m.version, text |-> Retained(text)]
                        ELSE s.documents[u]]
    /\ Shows(s, t, m.uri, [version |-> m.version,
                           shows |-> IF Retained(text) = None THEN Limit ELSE Retained(text)])
Refuses(s, m, t) ==
    /\ t.phase = "open" /\ t.documents = s.documents
    /\ Shows(s, t, m.uri, [version |-> m.version, shows |-> Limit])
Drops(s, m, t) ==
    /\ t.phase = "open"
    /\ t.documents = [u \in DOMAIN s.documents \ {m.uri} |-> s.documents[u]]
    /\ Shows(s, t, m.uri, None)

Opens(s, m, t) ==
    /\ s.phase = "open" /\ m.method = "didOpen"
    /\ m.uri \notin LongUris /\ m.uri \notin DOMAIN s.documents
    /\ \/ Cardinality(DOMAIN s.documents) >= MaxDocuments /\ Refuses(s, m, t)
       \/ Cardinality(DOMAIN s.documents) < MaxDocuments /\ Stores(s, m, m.text, t)
Changes(s, m, t) ==
    /\ s.phase = "open" /\ m.method = "didChange" /\ m.uri \notin LongUris /\ Newer(s, m)
    /\ Stores(s, m, m.texts[Len(m.texts)], t)
Closes(s, m, t) ==
    /\ s.phase = "open" /\ m.method = "didClose" /\ m.uri \notin LongUris /\ Drops(s, m, t)
Begins(s, m, t) ==
    /\ s.phase = "new" /\ m.method = "initialize"
    /\ t.phase = "open" /\ t.documents = s.documents /\ t.screen = s.screen
Stops(s, m, t) ==
    /\ s.phase = "open" /\ m.method = "shutdown"
    /\ t.phase = "closing"
Skips(s, m, t) ==
    /\ m.method = "initialize" => s.phase # "new"
    /\ s.phase = "open" =>
          /\ m.method # "shutdown"
          /\ m.method \in DocumentMethods /\ m.uri \notin LongUris =>
                /\ m.method # "didClose"
                /\ m.method = "didOpen" => m.uri \in DOMAIN s.documents
                /\ m.method = "didChange" => ~Newer(s, m)
    /\ t = s
Handled(s, m, t) ==
    Opens(s, m, t) \/ Changes(s, m, t) \/ Closes(s, m, t)
    \/ Begins(s, m, t) \/ Stops(s, m, t) \/ Skips(s, m, t)

(* What a request is told.                                                 *)
Answer(s, m) ==
    IF m.method = "initialize" THEN IF s.phase = "new" THEN None ELSE Error
    ELSE IF s.phase # "open" \/ m.method = "unknown" THEN Error
    ELSE IF m.method = "inspect" /\ m.uri \in DOMAIN s.documents THEN s.documents[m.uri].text
    ELSE None
-----------------------------------------------------------------------------
(* The inductive invariant.                                                *)
Sequence(s) == \E S : s \in Seq(S)
Typed ==
    /\ session \in {"new", "open", "closing", "over"}
    /\ shutdown => initialized
    /\ Sequence(unread) /\ Sequence(asked)
    /\ buffer \in [Uris -> {None} \cup [version : Nat, text : Texts]]
    /\ crowded \subseteq {u \in Uris : IsOpen(u)}

(* The pipe holds each request without an answer once, and nothing follows *)
(* the message the editor leaves with.                                     *)
Numbered(m) ==
    /\ m.method \in Requests => IsRequest(m)
    /\ m.method \notin Requests \cup {"unknown"} => ~IsRequest(m)
    /\ IsRequest(m) => m.id \in 1 .. Len(asked) /\ m.id \notin DOMAIN answers
Pipe ==
    /\ \A i \in 1 .. Len(unread) : Numbered(unread[i])
    /\ \A i, j \in 1 .. Len(unread) :
          IsRequest(unread[i]) /\ IsRequest(unread[j]) /\ unread[i].id = unread[j].id => i = j
    /\ \A n \in 1 .. Len(asked) :
          n \in DOMAIN answers \/ \E i \in 1 .. Len(unread) : IsRequest(unread[i]) /\ unread[i].id = n
    /\ \A i \in 1 .. Len(unread) :
          unread[i].method \in Leaving => i = Len(unread) /\ session = "over"
    /\ exit # None => unread = <<>> /\ session = "over"
Answered == \A n \in DOMAIN answers : n \in 1 .. Len(asked) /\ answers[n] \in asked[n]

(* A state of the server that agrees with the editor.                      *)
Faithful(s, u) ==
    IF u \in LongUris THEN u \notin DOMAIN s.documents /\ s.screen[u] = None
    ELSE IF u \in DOMAIN s.documents
    THEN /\ IsOpen(u)
         /\ s.documents[u] = [version |-> buffer[u].version, text |-> Retained(buffer[u].text)]
         /\ s.screen[u] = Expected(u)
    ELSE IF IsOpen(u) THEN u \in crowded /\ s.screen[u] # None /\ s.screen[u].shows = Limit
    ELSE s.screen[u] = None
Agrees(s) ==
    /\ s.phase = session
    /\ session \in {"new", "open"} =>
          /\ DOMAIN s.documents \subseteq Uris /\ DOMAIN s.screen = Uris
          /\ \A u \in Uris : Faithful(s, u)

(* A run over the first k messages, and what is to come.                   *)
Run(run, k) ==
    /\ run[0] = Now
    /\ \A i \in 1 .. k : Handled(run[i - 1], unread[i], run[i])
Ahead ==
    \A k \in 0 .. Len(unread) : \A run :
        Run(run, k) =>
            /\ k < Len(unread) /\ IsRequest(unread[k + 1]) =>
                  Answer(run[k], unread[k + 1]) \in asked[unread[k + 1].id]
            /\ k = Len(unread) /\ session # "over" => Agrees(run[k])

IInv == Typed /\ Pipe /\ Answered /\ Ahead
-----------------------------------------------------------------------------
(* Sequences: what Append and Tail return.                                 *)
LEMMA Appended ==
    ASSUME NEW s, Sequence(s), NEW e
    PROVE  /\ Sequence(Append(s, e)) /\ Len(s) \in Nat /\ Len(Append(s, e)) = Len(s) + 1
           /\ \A i \in 1 .. Len(s) : Append(s, e)[i] = s[i]
           /\ Append(s, e)[Len(s) + 1] = e
<1>1. PICK S : s \in Seq(S)
  BY DEF Sequence
<1>2. s \in Seq(S \cup {e}) /\ e \in S \cup {e}
  BY <1>1
<1>3. Append(s, e) \in Seq(S \cup {e})
  BY <1>2, AppendProperties
<1> QED
  BY <1>2, <1>3, AppendProperties DEF Sequence

LEMMA Taken ==
    ASSUME NEW s, Sequence(s), s # <<>>
    PROVE  /\ Sequence(Tail(s)) /\ Len(s) \in Nat \ {0} /\ Len(Tail(s)) = Len(s) - 1
           /\ Head(s) = s[1]
           /\ \A i \in 1 .. Len(s) - 1 : Tail(s)[i] = s[i + 1]
<1>1. PICK S : s \in Seq(S)
  BY DEF Sequence
<1>2. Tail(s) \in Seq(S) /\ Len(Tail(s)) = Len(s) - 1 /\ Len(s) \in Nat /\ Len(s) # 0
  BY <1>1, HeadTailProperties, EmptySeq
<1>3. \A i \in 1 .. Len(Tail(s)) : Tail(s)[i] = s[i + 1]
  BY <1>1, HeadTailProperties
<1> QED
  BY <1>1, <1>2, <1>3 DEF Sequence

LEMMA EmptySequence ==
    ASSUME NEW s, Sequence(s), Len(s) = 0
    PROVE  s = <<>>
BY EmptySeq DEF Sequence

LEMMA Initially == Init => IInv
<1> SUFFICES ASSUME Init PROVE IInv
  OBVIOUS
<1>1. Sequence(<<>>) /\ Len(<<>>) = 0
  <2>1. <<>> \in Seq({})
    OBVIOUS
  <2> QED
    BY <2>1 DEF Sequence
<1>2. Typed
  BY <1>1 DEF Init, Typed, IsOpen
<1>3. Pipe /\ Answered
  BY <1>1 DEF Init, Pipe, Answered
<1>4. Phase = "new"
  BY DEF Init, Phase
<1>5. Agrees(Now)
  BY <1>4 DEF Init, Agrees, Faithful, Now, NoDocuments, IsOpen
<1>6. Ahead
  <2> SUFFICES ASSUME NEW k \in 0 .. Len(unread), NEW run, Run(run, k)
               PROVE  k = 0 /\ Agrees(run[k])
    BY <1>1 DEF Ahead, Init
  <2>1. k = 0 /\ run[0] = Now
    BY <1>1 DEF Init, Run
  <2> QED
    BY <2>1, <1>5
<1> QED
  BY <1>2, <1>3, <1>6 DEF IInv
-----------------------------------------------------------------------------
(* The editor's side.  A message that no request is, and that leaves only  *)
(* a session that is over, keeps the pipe in order.                        *)
LEMMA Told ==
    ASSUME IInv, NEW m, Send(m), asked' = asked,
           ~IsRequest(m), m.method \notin Requests,
           m.method \in Leaving => session' = "over"
    PROVE  Sequence(unread') /\ Sequence(asked') /\ Pipe' /\ Answered'
<1>1. /\ Sequence(unread') /\ Len(unread) \in Nat /\ Len(unread') = Len(unread) + 1
      /\ \A i \in 1 .. Len(unread) : unread'[i] = unread[i]
      /\ unread'[Len(unread) + 1] = m
  BY Appended DEF IInv, Typed, Send
<1>2. answers' = answers /\ exit' = exit /\ session # "over"
  BY DEF Send, server
<1>3. \A x : Numbered(x)' <=> Numbered(x)
  BY <1>2 DEF Numbered, IsRequest
<1>4. Numbered(m)
  BY DEF Numbered
<1>5. (\A i \in 1 .. Len(unread) : Numbered(unread[i]))'
  BY <1>1, <1>3, <1>4 DEF IInv, Pipe
<1>6. \A i, j \in 1 .. Len(unread') :
         IsRequest(unread'[i]) /\ IsRequest(unread'[j]) /\ unread'[i].id = unread'[j].id => i = j
  BY <1>1 DEF IInv, Pipe
<1>7. \A n \in 1 .. Len(asked') :
         n \in DOMAIN answers' \/ \E i \in 1 .. Len(unread') : IsRequest(unread'[i]) /\ unread'[i].id = n
  BY <1>1, <1>2 DEF IInv, Pipe
<1>8. /\ \A i \in 1 .. Len(unread') :
            unread'[i].method \in Leaving => i = Len(unread') /\ session' = "over"
      /\ exit' = None
  BY <1>1, <1>2 DEF IInv, Pipe
<1>9. Answered'
  BY <1>2 DEF IInv, Answered
<1> QED
  BY <1>1, <1>5, <1>6, <1>7, <1>8, <1>9 DEF Pipe, IInv, Typed

LEMMA Requested ==
    ASSUME IInv, NEW method, NEW u, NEW due, Ask(method, u, due),
           method \in Requests \cup {"unknown"}
    PROVE  Sequence(unread') /\ Sequence(asked') /\ Pipe' /\ Answered'
<1>1. PICK m : m = [method |-> method, uri |-> u, id |-> Len(asked) + 1]
  OBVIOUS
<1>2. /\ Sequence(unread') /\ Len(unread) \in Nat /\ Len(unread') = Len(unread) + 1
      /\ \A i \in 1 .. Len(unread) : unread'[i] = unread[i]
      /\ unread'[Len(unread) + 1] = m
  BY <1>1, Appended DEF IInv, Typed, Ask, Send
<1>3. /\ Sequence(asked') /\ Len(asked) \in Nat /\ Len(asked') = Len(asked) + 1
      /\ \A i \in 1 .. Len(asked) : asked'[i] = asked[i]
  BY Appended DEF IInv, Typed, Ask
<1>4. answers' = answers /\ exit' = exit /\ session # "over"
  BY DEF Ask, Send, server
<1>5. IsRequest(m) /\ m.method = method /\ m.id = Len(asked) + 1 /\ Len(asked) + 1 \notin DOMAIN answers
  BY <1>1, <1>3 DEF IsRequest, IInv, Answered
<1>6. Numbered(m)'
  BY <1>3, <1>4, <1>5 DEF Numbered
<1>7. \A x : Numbered(x) => Numbered(x)'
  BY <1>3, <1>4 DEF Numbered, IsRequest
<1>8. (\A i \in 1 .. Len(unread) : Numbered(unread[i]))'
  BY <1>2, <1>6, <1>7 DEF IInv, Pipe
<1>9. \A i \in 1 .. Len(unread) : IsRequest(unread[i]) => unread[i].id # m.id
  BY <1>3, <1>5 DEF IInv, Pipe, Numbered
<1>10. \A i, j \in 1 .. Len(unread') :
          IsRequest(unread'[i]) /\ IsRequest(unread'[j]) /\ unread'[i].id = unread'[j].id => i = j
  BY <1>2, <1>9 DEF IInv, Pipe
<1>11. \A n \in 1 .. Len(asked') :
         n \in DOMAIN answers' \/ \E i \in 1 .. Len(unread') : IsRequest(unread'[i]) /\ unread'[i].id = n
  BY <1>2, <1>3, <1>4, <1>5 DEF IInv, Pipe
<1>12. /\ \A i \in 1 .. Len(unread') :
            unread'[i].method \in Leaving => i = Len(unread') /\ session' = "over"
       /\ exit' = None
  BY <1>2, <1>4, <1>5 DEF IInv, Pipe, Leaving, Requests
<1>13. Answered'
  BY <1>3, <1>4 DEF IInv, Answered
<1> QED
  BY <1>2, <1>3, <1>8, <1>10, <1>11, <1>12, <1>13 DEF Pipe

(* A run over a longer pipe is one over the shorter, with one step more.   *)
LEMMA LooksFurther ==
    ASSUME IInv, NEW m, Send(m),
           \A n \in 1 .. Len(asked) : asked'[n] = asked[n],
           \A s : Agrees(s) /\ IsRequest(m) => Answer(s, m) \in asked'[m.id],
           \A s, t : Agrees(s) /\ Handled(s, m, t) /\ session' # "over" => Agrees(t)'
    PROVE  Ahead'
<1>1. /\ Len(unread) \in Nat /\ Len(unread') = Len(unread) + 1
      /\ \A i \in 1 .. Len(unread) : unread'[i] = unread[i]
      /\ unread'[Len(unread) + 1] = m
  BY Appended DEF IInv, Typed, Send
<1>2. Now' = Now /\ session # "over"
  BY DEF Send, Now, Phase, server
<1> SUFFICES ASSUME NEW k \in 0 .. Len(unread'), NEW run, Run(run, k)'
             PROVE  /\ k < Len(unread') /\ IsRequest(unread'[k + 1]) =>
                          Answer(run[k], unread'[k + 1]) \in asked'[unread'[k + 1].id]
                    /\ k = Len(unread') /\ session' # "over" => Agrees(run[k])'
  BY DEF Ahead
<1>3. run[0] = Now /\ \A i \in 1 .. k : Handled(run[i - 1], unread'[i], run[i])
  BY <1>2 DEF Run
<1>4. CASE k < Len(unread)
  <2>1. Run(run, k)
    BY <1>1, <1>3, <1>4 DEF Run
  <2>2. /\ k \in 0 .. Len(unread) /\ k + 1 \in 1 .. Len(unread) /\ unread'[k + 1] = unread[k + 1]
        /\ k < Len(unread') /\ k # Len(unread')
    BY <1>1, <1>4
  <2>3. IsRequest(unread[k + 1]) => unread[k + 1].id \in 1 .. Len(asked)
    BY <2>2 DEF IInv, Pipe, Numbered
  <2> QED
    BY <1>4, <2>1, <2>2, <2>3 DEF IInv, Ahead
<1>5. ASSUME NEW l \in 0 .. Len(unread), l = Len(unread), Run(run, l)
      PROVE  Agrees(run[l])
  BY <1>2, <1>5 DEF IInv, Ahead
<1>6. CASE k = Len(unread)
  <2>1. Run(run, k)
    BY <1>1, <1>3, <1>6 DEF Run
  <2>2. Agrees(run[k])
    BY <1>1, <1>5, <1>6, <2>1
  <2> QED
    BY <1>1, <1>6, <2>2
<1>7. CASE k = Len(unread) + 1
  <2>1. Run(run, Len(unread))
    BY <1>1, <1>3, <1>7 DEF Run
  <2>2. Agrees(run[Len(unread)])
    BY <1>1, <1>5, <2>1
  <2>3. Handled(run[Len(unread)], m, run[k])
    BY <1>1, <1>3, <1>7
  <2> QED
    BY <1>1, <1>7, <2>2, <2>3
<1> QED
  BY <1>1, <1>4, <1>6, <1>7
-----------------------------------------------------------------------------
(* Agreement.  A document that a step does not touch.                      *)
LEMMA Elsewhere ==
    ASSUME NEW s, NEW t, NEW v \in Uris, Faithful(s, v),
           buffer'[v] = buffer[v], v \in crowded => v \in crowded',
           t.screen[v] = s.screen[v],
           v \in DOMAIN t.documents <=> v \in DOMAIN s.documents,
           v \in DOMAIN s.documents => t.documents[v] = s.documents[v]
    PROVE  Faithful(t, v)'
<1>1. IsOpen(v)' <=> IsOpen(v)
  BY DEF IsOpen
<1>2. Expected(v)' = Expected(v)
  BY <1>1 DEF Expected, Followed
<1>3. CASE v \in DOMAIN s.documents
  BY <1>1, <1>2, <1>3 DEF Faithful
<1>4. CASE v \notin DOMAIN s.documents /\ IsOpen(v)
  BY <1>1, <1>4 DEF Faithful
<1>5. CASE v \notin DOMAIN s.documents /\ ~IsOpen(v)
  BY <1>1, <1>5 DEF Faithful
<1>6. CASE v \in LongUris
  BY <1>6 DEF Faithful
<1> QED
  BY <1>3, <1>4, <1>5, <1>6

LEMMA Unaffected ==
    ASSUME NEW s, Agrees(s), session' = session, buffer' = buffer,
           \A u \in Uris : u \in crowded => u \in crowded' \/ u \in DOMAIN s.documents
    PROVE  Agrees(s)'
<1>1. \A u \in Uris : IsOpen(u)' <=> IsOpen(u)
  BY DEF IsOpen
<1>2. \A u \in Uris : Expected(u)' = Expected(u)
  BY <1>1 DEF Expected, Followed
<1>3. \A u \in Uris : Faithful(s, u) => Faithful(s, u)'
  <2> SUFFICES ASSUME NEW u \in Uris, Faithful(s, u) PROVE Faithful(s, u)'
    OBVIOUS
  <2>1. CASE u \in DOMAIN s.documents
    BY <1>1, <1>2, <2>1 DEF Faithful
  <2>2. CASE u \notin DOMAIN s.documents /\ IsOpen(u)
    BY <1>1, <2>2 DEF Faithful
  <2>3. CASE u \notin DOMAIN s.documents /\ ~IsOpen(u)
    BY <1>1, <2>3 DEF Faithful
  <2>4. CASE u \in LongUris
    BY <2>4 DEF Faithful
  <2> QED
    BY <2>1, <2>2, <2>3, <2>4
<1> QED
  BY <1>3 DEF Agrees

(* What the editor does to a document whose name is too long does not      *)
(* matter.                                                                 *)
LEMMA LongNamesPass ==
    ASSUME NEW s, Agrees(s), session' = session, NEW u \in LongUris,
           \A v \in Uris \ {u} : buffer'[v] = buffer[v] /\ (v \in crowded => v \in crowded')
    PROVE  Agrees(s)'
<1>1. ASSUME session \in {"new", "open"}, NEW v \in Uris, Faithful(s, v) PROVE Faithful(s, v)'
  <2>1. CASE v = u
    BY <1>1, <2>1 DEF Faithful
  <2>2. CASE v # u
    BY <1>1, <2>2, Elsewhere
  <2> QED
    BY <2>1, <2>2
<1> QED
  BY <1>1 DEF Agrees

LEMMA StoringAgrees ==
    ASSUME NEW s, Agrees(s), session = "open", session' = "open",
           NEW u \in Uris \ LongUris, NEW version \in Nat, NEW text \in Texts,
           NEW m, m.uri = u, m.version = version, NEW t, Stores(s, m, text, t),
           buffer'[u] = [version |-> version, text |-> text],
           \A v \in Uris \ {u} : buffer'[v] = buffer[v] /\ (v \in crowded => v \in crowded')
    PROVE  Agrees(t)'
<1>1. /\ t.phase = "open" /\ DOMAIN t.documents = DOMAIN s.documents \cup {u}
      /\ t.documents[u] = [version |-> version, text |-> Retained(text)]
      /\ \A v \in DOMAIN s.documents \ {u} : t.documents[v] = s.documents[v]
  BY DEF Stores
<1>2. /\ DOMAIN s.screen = Uris /\ DOMAIN s.documents \subseteq Uris
      /\ \A v \in Uris : Faithful(s, v)
  BY DEF Agrees
<1>3. /\ DOMAIN t.screen = Uris
      /\ t.screen[u] = [version |-> version, shows |-> IF Retained(text) = None THEN Limit ELSE Retained(text)]
      /\ \A v \in Uris \ {u} : t.screen[v] = s.screen[v]
  BY <1>2 DEF Stores, Shows
<1>4. [version |-> version, text |-> text] # None
  BY LanguageServerAssumption
<1>5. IsOpen(u)'
  BY <1>4 DEF IsOpen
<1>6. (IF Retained(text) = None THEN Limit ELSE Retained(text)) = IF text \in Oversized THEN Limit ELSE text
  BY LanguageServerAssumption DEF Retained
<1>7. t.screen[u] = Expected(u)'
  BY <1>3, <1>5, <1>6 DEF Expected, Followed
<1>8. Faithful(t, u)'
  BY <1>1, <1>5, <1>7 DEF Faithful
<1>9. ASSUME NEW v \in Uris \ {u} PROVE Faithful(t, v)'
  BY <1>1, <1>2, <1>3, Elsewhere
<1>10. \A v \in Uris : Faithful(t, v)'
  BY <1>8, <1>9
<1> QED
  BY <1>1, <1>2, <1>3, <1>10 DEF Agrees

LEMMA RefusingAgrees ==
    ASSUME NEW s, Agrees(s), session = "open", session' = "open",
           NEW m, m.uri \in Uris \ LongUris, m.uri \notin DOMAIN s.documents, m.version \in Nat,
           NEW t, Refuses(s, m, t),
           IsOpen(m.uri)', m.uri \in crowded',
           \A v \in Uris \ {m.uri} : buffer'[v] = buffer[v] /\ (v \in crowded => v \in crowded')
    PROVE  Agrees(t)'
<1>1. t.phase = "open" /\ t.documents = s.documents
  BY DEF Refuses
<1>2. /\ DOMAIN s.screen = Uris /\ DOMAIN s.documents \subseteq Uris
      /\ \A v \in Uris : Faithful(s, v)
  BY DEF Agrees
<1>3. /\ DOMAIN t.screen = Uris
      /\ t.screen[m.uri] = [version |-> m.version, shows |-> Limit]
      /\ \A v \in Uris \ {m.uri} : t.screen[v] = s.screen[v]
  BY <1>2 DEF Refuses, Shows
<1>4. t.screen[m.uri] # None /\ t.screen[m.uri].shows = Limit
  <2>1. [version |-> m.version, shows |-> Limit] \in [version : Nat, shows : Texts \cup {Limit}]
    OBVIOUS
  <2> QED
    BY <1>3, <2>1, LanguageServerAssumption
<1>5. Faithful(t, m.uri)'
  BY <1>1, <1>4 DEF Faithful
<1>6. ASSUME NEW v \in Uris \ {m.uri} PROVE Faithful(t, v)'
  BY <1>1, <1>2, <1>3, Elsewhere
<1>7. \A v \in Uris : Faithful(t, v)'
  BY <1>5, <1>6
<1> QED
  BY <1>1, <1>2, <1>3, <1>7 DEF Agrees

LEMMA DroppingAgrees ==
    ASSUME NEW s, Agrees(s), session = "open", session' = "open",
           NEW m, m.uri \in Uris \ LongUris, NEW t, Drops(s, m, t),
           ~IsOpen(m.uri)',
           \A v \in Uris \ {m.uri} : buffer'[v] = buffer[v] /\ (v \in crowded => v \in crowded')
    PROVE  Agrees(t)'
<1>1. /\ t.phase = "open" /\ DOMAIN t.documents = DOMAIN s.documents \ {m.uri}
      /\ \A v \in DOMAIN t.documents : t.documents[v] = s.documents[v]
  BY DEF Drops
<1>2. /\ DOMAIN s.screen = Uris /\ DOMAIN s.documents \subseteq Uris
      /\ \A v \in Uris : Faithful(s, v)
  BY DEF Agrees
<1>3. /\ DOMAIN t.screen = Uris /\ t.screen[m.uri] = None
      /\ \A v \in Uris \ {m.uri} : t.screen[v] = s.screen[v]
  BY <1>2 DEF Drops, Shows
<1>4. Faithful(t, m.uri)'
  BY <1>1, <1>3 DEF Faithful
<1>5. ASSUME NEW v \in Uris \ {m.uri} PROVE Faithful(t, v)'
  BY <1>1, <1>2, <1>3, Elsewhere
<1>6. \A v \in Uris : Faithful(t, v)'
  BY <1>4, <1>5
<1> QED
  BY <1>1, <1>2, <1>3, <1>6 DEF Agrees
-----------------------------------------------------------------------------
(* Requests about the server itself.                                       *)
LEMMA AskedLonger ==
    ASSUME IInv, NEW method, NEW u, NEW due, Ask(method, u, due)
    PROVE  /\ Len(asked) \in Nat
           /\ \A n \in 1 .. Len(asked) : asked'[n] = asked[n]
           /\ asked'[Len(asked) + 1] = due
BY Appended DEF IInv, Typed, Ask

LEMMA StartStep == ASSUME IInv, Start PROVE IInv'
<1>1. PICK m : m = [method |-> "initialize", uri |-> None, id |-> Len(asked) + 1]
  OBVIOUS
<1>2. /\ Ask("initialize", None, {None}) /\ Send(m) /\ session = "new" /\ session' = "open"
      /\ buffer' = buffer /\ crowded' = crowded
  BY <1>1 DEF Start, Ask, documentsSeen
<1>3. Sequence(unread') /\ Sequence(asked') /\ Pipe' /\ Answered'
  BY <1>2, Requested DEF Requests
<1>4. Typed'
  <2>1. \A u : IsOpen(u)' <=> IsOpen(u)
    BY <1>2 DEF IsOpen
  <2> QED
    BY <1>2, <1>3, <2>1 DEF IInv, Typed, Send, server
<1>5. \A s : Agrees(s) /\ IsRequest(m) => Answer(s, m) \in asked'[m.id]
  BY <1>1, <1>2, AskedLonger DEF Agrees, Answer
<1>6. ASSUME NEW s, NEW t, Agrees(s), Handled(s, m, t) PROVE Agrees(t)'
  <2>1. s.phase = "new" /\ Begins(s, m, t)
    BY <1>1, <1>2, <1>6 DEF Agrees, Handled, Opens, Changes, Closes, Stops, Skips
  <2>2. /\ t.phase = "open" /\ t.documents = s.documents /\ t.screen = s.screen
        /\ DOMAIN s.documents \subseteq Uris /\ DOMAIN s.screen = Uris
        /\ \A u \in Uris : Faithful(s, u)
    BY <1>2, <1>6, <2>1 DEF Begins, Agrees
  <2>3. \A u \in Uris : Faithful(t, u)'
    BY <1>2, <2>2, Elsewhere
  <2> QED
    BY <1>2, <2>2, <2>3 DEF Agrees
<1>7. Ahead'
  <2>1. \A n \in 1 .. Len(asked) : asked'[n] = asked[n]
    BY <1>2, AskedLonger
  <2> QED
    BY <1>2, <1>5, <1>6, <2>1, LooksFurther
<1> QED
  BY <1>3, <1>4, <1>7 DEF IInv

LEMMA FinishStep == ASSUME IInv, Finish PROVE IInv'
<1>1. PICK m : m = [method |-> "shutdown", uri |-> None, id |-> Len(asked) + 1]
  OBVIOUS
<1>2. /\ Ask("shutdown", None, {None}) /\ Send(m) /\ session = "open" /\ session' = "closing"
      /\ buffer' = buffer /\ crowded' = crowded
  BY <1>1 DEF Finish, Ask, documentsSeen
<1>3. Sequence(unread') /\ Sequence(asked') /\ Pipe' /\ Answered'
  BY <1>2, Requested DEF Requests
<1>4. Typed'
  <2>1. \A u : IsOpen(u)' <=> IsOpen(u)
    BY <1>2 DEF IsOpen
  <2> QED
    BY <1>2, <1>3, <2>1 DEF IInv, Typed, Send, server
<1>5. \A s : Agrees(s) /\ IsRequest(m) => Answer(s, m) \in asked'[m.id]
  BY <1>1, <1>2, AskedLonger DEF Agrees, Answer
<1>6. ASSUME NEW s, NEW t, Agrees(s), Handled(s, m, t) PROVE Agrees(t)'
  <2>1. s.phase = "open" /\ Stops(s, m, t)
    BY <1>1, <1>2, <1>6 DEF Agrees, Handled, Opens, Changes, Closes, Begins, Skips
  <2> QED
    BY <1>2, <2>1 DEF Agrees, Stops
<1>7. Ahead'
  <2>1. \A n \in 1 .. Len(asked) : asked'[n] = asked[n]
    BY <1>2, AskedLonger
  <2> QED
    BY <1>2, <1>5, <1>6, <2>1, LooksFurther
<1> QED
  BY <1>3, <1>4, <1>7 DEF IInv

LEMMA LeaveStep == ASSUME IInv, Leave PROVE IInv'
<1>1. PICK how \in Leaving : Send([method |-> how])
  BY DEF Leave, Leaving
<1>2. PICK m : m = [method |-> how]
  OBVIOUS
<1>3. /\ Send(m) /\ session' = "over" /\ asked' = asked /\ buffer' = buffer /\ crowded' = crowded
      /\ ~IsRequest(m) /\ m.method \in Leaving
  BY <1>1, <1>2 DEF Leave, documentsSeen, IsRequest
<1>4. Sequence(unread') /\ Sequence(asked') /\ Pipe' /\ Answered'
  BY <1>3, Told DEF Requests, Leaving
<1>5. Typed'
  <2>1. \A u : IsOpen(u)' <=> IsOpen(u)
    BY <1>3 DEF IsOpen
  <2> QED
    BY <1>3, <1>4, <2>1 DEF IInv, Typed, Send, server
<1>6. Ahead'
  BY <1>3, LooksFurther
<1> QED
  BY <1>4, <1>5, <1>6 DEF IInv

LEMMA AskInVainStep == ASSUME IInv, AskInVain PROVE IInv'
<1>1. PICK method \in {"initialize", "unknown"} :
         (method = "initialize" => session # "new") /\ Ask(method, None, {Error})
  BY DEF AskInVain
<1>2. PICK m : m = [method |-> method, uri |-> None, id |-> Len(asked) + 1]
  OBVIOUS
<1>3. Send(m) /\ session' = session /\ buffer' = buffer /\ crowded' = crowded
  BY <1>1, <1>2 DEF AskInVain, Ask, documentsSeen
<1>4. Sequence(unread') /\ Sequence(asked') /\ Pipe' /\ Answered'
  BY <1>1, Requested DEF Requests
<1>5. Typed'
  <2>1. \A u : IsOpen(u)' <=> IsOpen(u)
    BY <1>3 DEF IsOpen
  <2> QED
    BY <1>3, <1>4, <2>1 DEF IInv, Typed, Send, server
<1>6. \A s : Agrees(s) /\ IsRequest(m) => Answer(s, m) \in asked'[m.id]
  BY <1>1, <1>2, AskedLonger DEF Agrees, Answer
<1>7. ASSUME NEW s, NEW t, Agrees(s), Handled(s, m, t) PROVE Agrees(t)'
  <2>1. t = s
    BY <1>1, <1>2, <1>7 DEF Agrees, Handled, Opens, Changes, Closes, Begins, Stops, Skips
  <2> QED
    BY <1>3, <1>7, <2>1, Unaffected
<1>8. Ahead'
  <2>1. \A n \in 1 .. Len(asked) : asked'[n] = asked[n]
    BY <1>1, AskedLonger
  <2> QED
    BY <1>3, <1>6, <1>7, <2>1, LooksFurther
<1> QED
  BY <1>4, <1>5, <1>8 DEF IInv

LEMMA InquireStep == ASSUME IInv, NEW u \in Uris, Inquire(u) PROVE IInv'
<1>1. PICK m : m = [method |-> "inspect", uri |-> u, id |-> Len(asked) + 1]
  OBVIOUS
<1>2. /\ Ask("inspect", u, Due(u)) /\ Send(m) /\ session' = session
      /\ buffer' = buffer /\ crowded' = crowded
  BY <1>1 DEF Inquire, Ask, documentsSeen
<1>3. Sequence(unread') /\ Sequence(asked') /\ Pipe' /\ Answered'
  BY <1>2, Requested DEF Requests
<1>4. Typed'
  <2>1. \A v : IsOpen(v)' <=> IsOpen(v)
    BY <1>2 DEF IsOpen
  <2> QED
    BY <1>2, <1>3, <2>1 DEF IInv, Typed, Send, server
<1>5. ASSUME NEW s, Agrees(s) PROVE Answer(s, m) \in Due(u)
  <2>1. CASE session # "open"
    BY <1>1, <1>5, <2>1 DEF Agrees, Answer, Due
  <2>2. CASE session = "open"
    <3>1. s.phase = "open" /\ Faithful(s, u)
      BY <1>5, <2>2 DEF Agrees
    <3>2. CASE u \in DOMAIN s.documents
      <4>1. Answer(s, m) = Retained(buffer[u].text) /\ IsOpen(u)
        BY <1>1, <3>1, <3>2 DEF Answer, Faithful
      <4> QED
        BY <2>2, <3>1, <3>2, <4>1 DEF Due, Understood, Followed, Retained, Faithful
    <3>3. CASE u \notin DOMAIN s.documents
      <4>1. Answer(s, m) = None /\ (Followed(u) => u \in crowded)
        BY <1>1, <3>1, <3>3 DEF Answer, Faithful, Followed
      <4> QED
        BY <2>2, <4>1 DEF Due, Understood
    <3> QED
      BY <3>2, <3>3
  <2> QED
    BY <2>1, <2>2
<1>6. \A s : Agrees(s) /\ IsRequest(m) => Answer(s, m) \in asked'[m.id]
  BY <1>1, <1>2, <1>5, AskedLonger
<1>7. ASSUME NEW s, NEW t, Agrees(s), Handled(s, m, t) PROVE Agrees(t)'
  <2>1. t = s
    BY <1>1, <1>7 DEF Agrees, Handled, Opens, Changes, Closes, Begins, Stops, Skips
  <2> QED
    BY <1>2, <1>7, <2>1, Unaffected
<1>8. Ahead'
  <2>1. \A n \in 1 .. Len(asked) : asked'[n] = asked[n]
    BY <1>2, AskedLonger
  <2> QED
    BY <1>2, <1>6, <1>7, <2>1, LooksFurther
<1> QED
  BY <1>3, <1>4, <1>8 DEF IInv
-----------------------------------------------------------------------------
(* Messages about documents.                                               *)
LEMMA BufferedDocument ==
    ASSUME Typed, NEW u \in Uris, IsOpen(u)
    PROVE  /\ buffer[u].version \in Nat /\ buffer[u].text \in Texts
           /\ buffer[u] = [version |-> buffer[u].version, text |-> buffer[u].text]
BY DEF Typed, IsOpen

(* A server that agrees has room for a document that the editor did not    *)
(* open among too many.                                                    *)
LEMMA RoomIsThere ==
    ASSUME NEW s, Agrees(s), session = "open", NEW u \in Uris, u \notin DOMAIN s.documents,
           u \notin LongUris, Cardinality(DOMAIN s.documents) >= MaxDocuments
    PROVE  ~Room(u)
<1> DEFINE Others == {v \in Uris \ {u} : Followed(v)}
<1>1. DOMAIN s.documents \subseteq Others
  BY DEF Agrees, Faithful, Followed
<1>2. IsFiniteSet(Others)
  BY LanguageServerAssumption, FS_Subset
<1>3. Cardinality(DOMAIN s.documents) <= Cardinality(Others) /\ IsFiniteSet(DOMAIN s.documents)
  BY <1>1, <1>2, FS_Subset
<1>4. Cardinality(DOMAIN s.documents) \in Nat /\ Cardinality(Others) \in Nat
  BY <1>2, <1>3, FS_CardinalityType
<1> QED
  BY <1>3, <1>4, LanguageServerAssumption DEF Room

(* A document that is sent whole agrees with what was sent, or was refused *)
(* as it may be.                                                           *)
LEMMA SentWhole ==
    ASSUME NEW s, Agrees(s), session = "open", session' = "open",
           NEW u \in Uris, NEW version \in Nat, NEW text \in Texts,
           u \notin LongUris, u \notin DOMAIN s.documents,
           NEW m, m.method = "didOpen", m.uri = u, m.version = version, m.text = text,
           NEW t, Handled(s, m, t), Crowd(u),
           buffer'[u] = [version |-> version, text |-> text],
           \A v \in Uris \ {u} : buffer'[v] = buffer[v]
    PROVE  Agrees(t)'
<1>1. s.phase = "open" /\ Opens(s, m, t)
  BY DEF Agrees, Handled, Changes, Closes, Begins, Stops, Skips, DocumentMethods
<1>2. \A v \in Uris \ {u} : v \in crowded => v \in crowded'
  BY DEF Crowd
<1>3. CASE Stores(s, m, text, t)
  BY <1>1, <1>2, <1>3, StoringAgrees DEF Opens
<1>4. CASE Cardinality(DOMAIN s.documents) >= MaxDocuments /\ Refuses(s, m, t)
  <2>1. u \in crowded'
    BY <1>1, <1>4, RoomIsThere DEF Crowd
  <2>2. IsOpen(u)'
    BY LanguageServerAssumption DEF IsOpen
  <2> QED
    BY <1>2, <1>4, <2>1, <2>2, RefusingAgrees
<1> QED
  BY <1>1, <1>3, <1>4 DEF Opens

LEMMA OpenStep == ASSUME IInv, NEW u \in Uris, NEW text \in Texts, Open(u, text) PROVE IInv'
<1>1. PICK m : m = [method |-> "didOpen", uri |-> u, version |-> 1, text |-> text]
  OBVIOUS
<1>2. /\ Send(m) /\ session = "open" /\ session' = "open" /\ asked' = asked /\ ~IsOpen(u) /\ Crowd(u)
      /\ Edit(u, 1, text)
  BY <1>1 DEF Open
<1>3. Sequence(unread') /\ Sequence(asked') /\ Pipe' /\ Answered'
  BY <1>1, <1>2, Told DEF Requests, Leaving, IsRequest
<1>4. /\ buffer' \in [Uris -> {None} \cup [version : Nat, text : Texts]]
      /\ buffer'[u] = [version |-> 1, text |-> text]
      /\ \A v \in Uris \ {u} : buffer'[v] = buffer[v]
  BY <1>2 DEF Edit, IInv, Typed
<1>5. IsOpen(u)' /\ \A v \in Uris \ {u} : IsOpen(v)' <=> IsOpen(v)
  BY <1>4, LanguageServerAssumption DEF IsOpen
<1>6. Typed'
  BY <1>2, <1>3, <1>4, <1>5 DEF IInv, Typed, Send, server, Crowd
<1>7. ASSUME NEW s, NEW t, Agrees(s), Handled(s, m, t) PROVE Agrees(t)'
  <2>1. u \notin DOMAIN s.documents
    BY <1>2, <1>7 DEF Agrees, Faithful
  <2>2. CASE u \notin LongUris
    BY <1>1, <1>2, <1>4, <1>7, <2>1, <2>2, SentWhole
  <2>3. CASE u \in LongUris
    <3>1. t = s
      BY <1>1, <1>7, <2>3 DEF Handled, Opens, Changes, Closes, Begins, Stops, Skips
    <3>2. \A v \in Uris \ {u} : v \in crowded => v \in crowded'
      BY <1>2 DEF Crowd
    <3> QED
      BY <1>2, <1>4, <1>7, <2>3, <3>1, <3>2, LongNamesPass
  <2> QED
    BY <2>2, <2>3
<1>8. Ahead'
  BY <1>1, <1>2, <1>7, LooksFurther DEF IsRequest
<1> QED
  BY <1>3, <1>6, <1>8 DEF IInv

LEMMA OpenAgainStep == ASSUME IInv, NEW u \in Uris, OpenAgain(u) PROVE IInv'
<1>1. PICK m : m = [method |-> "didOpen", uri |-> u, version |-> buffer[u].version, text |-> buffer[u].text]
  OBVIOUS
<1>2. /\ Send(m) /\ session = "open" /\ session' = "open" /\ asked' = asked /\ u \in crowded /\ Crowd(u)
      /\ buffer' = buffer
  BY <1>1 DEF OpenAgain
<1>3. Sequence(unread') /\ Sequence(asked') /\ Pipe' /\ Answered'
  BY <1>1, <1>2, Told DEF Requests, Leaving, IsRequest
<1>4. \A v : IsOpen(v)' <=> IsOpen(v)
  BY <1>2 DEF IsOpen
<1>5. Typed'
  BY <1>2, <1>3, <1>4 DEF IInv, Typed, Send, server, Crowd
<1>6. /\ IsOpen(u) /\ buffer[u].version \in Nat /\ buffer[u].text \in Texts
      /\ buffer[u] = [version |-> buffer[u].version, text |-> buffer[u].text]
  BY <1>2, BufferedDocument DEF IInv, Typed
<1>7. ASSUME NEW s, NEW t, Agrees(s), Handled(s, m, t) PROVE Agrees(t)'
  <2>1. CASE u \notin DOMAIN s.documents /\ u \notin LongUris
    BY <1>1, <1>2, <1>6, <1>7, <2>1, SentWhole
  <2>2. CASE u \in DOMAIN s.documents
    <3>1. t = s
      BY <1>1, <1>7, <2>2 DEF Handled, Opens, Changes, Closes, Begins, Stops, Skips
    <3>2. \A v \in Uris : v \in crowded => v \in crowded' \/ v \in DOMAIN s.documents
      BY <1>2, <2>2 DEF Crowd
    <3> QED
      BY <1>2, <1>7, <3>1, <3>2, Unaffected
  <2>3. CASE u \in LongUris
    <3>1. t = s
      BY <1>1, <1>7, <2>3 DEF Handled, Opens, Changes, Closes, Begins, Stops, Skips
    <3>2. \A v \in Uris \ {u} : v \in crowded => v \in crowded'
      BY <1>2 DEF Crowd
    <3> QED
      BY <1>2, <1>7, <2>3, <3>1, <3>2, LongNamesPass
  <2> QED
    BY <2>1, <2>2, <2>3
<1>8. Ahead'
  BY <1>1, <1>2, <1>7, LooksFurther DEF IsRequest
<1> QED
  BY <1>3, <1>5, <1>8 DEF IInv

LEMMA ChangeStep ==
    ASSUME IInv, NEW u \in Uris, NEW texts \in Seq(Texts), texts # <<>>, Change(u, texts)
    PROVE  IInv'
<1>1. PICK version : version = buffer[u].version + 1
  OBVIOUS
<1>2. PICK m : m = [method |-> "didChange", uri |-> u, version |-> version, texts |-> texts]
  OBVIOUS
<1>3. PICK text : text = texts[Len(texts)]
  OBVIOUS
<1>4. /\ Send(m) /\ session = "open" /\ session' = "open" /\ asked' = asked /\ crowded' = crowded
      /\ IsOpen(u) /\ Edit(u, version, text)
  BY <1>1, <1>2, <1>3 DEF Change
<1>5. Sequence(unread') /\ Sequence(asked') /\ Pipe' /\ Answered'
  BY <1>2, <1>4, Told DEF Requests, Leaving, IsRequest
<1>6. text \in Texts
  <2>1. Len(texts) \in 1 .. Len(texts)
    BY EmptySeq, LenProperties
  <2> QED
    BY <1>3, <2>1, ElementOfSeq
<1>7. version \in Nat /\ buffer[u].version \in Nat /\ buffer[u].version < version
  <2>1. Typed
    BY DEF IInv
  <2>2. buffer[u].version \in Nat
    BY <1>4, <2>1, BufferedDocument
  <2> QED
    BY <1>1, <2>2
<1>8. /\ buffer' \in [Uris -> {None} \cup [version : Nat, text : Texts]]
      /\ buffer'[u] = [version |-> version, text |-> text]
      /\ \A v \in Uris \ {u} : buffer'[v] = buffer[v]
  BY <1>4, <1>6, <1>7 DEF Edit, IInv, Typed
<1>9. IsOpen(u)' /\ \A v \in Uris \ {u} : IsOpen(v)' <=> IsOpen(v)
  BY <1>7, <1>6, <1>8, LanguageServerAssumption DEF IsOpen
<1>10. Typed'
  BY <1>4, <1>5, <1>8, <1>9 DEF IInv, Typed, Send, server
<1>11. ASSUME NEW s, NEW t, Agrees(s), Handled(s, m, t) PROVE Agrees(t)'
  <2>1. s.phase = "open" /\ Faithful(s, u)
    BY <1>4, <1>11 DEF Agrees
  <2>2. CASE u \in DOMAIN s.documents
    <3>1. Newer(s, m) /\ u \notin LongUris
      BY <1>2, <1>7, <2>1, <2>2 DEF Newer, Stale, Faithful
    <3>2. Stores(s, m, text, t)
      BY <1>2, <1>3, <1>11, <2>1, <3>1
         DEF Handled, Opens, Changes, Closes, Begins, Stops, Skips, DocumentMethods
    <3> QED
      BY <1>2, <1>4, <1>6, <1>7, <1>8, <1>11, <3>1, <3>2, StoringAgrees
  <2>3. CASE u \notin DOMAIN s.documents
    <3>1. t = s
      BY <1>2, <1>11, <2>3 DEF Handled, Opens, Changes, Closes, Begins, Stops, Skips, Newer
    <3>2. Faithful(s, u)'
      BY <1>4, <1>9, <2>1, <2>3 DEF Faithful
    <3>3. \A v \in Uris \ {u} : Faithful(s, v)'
      BY <1>4, <1>8, <1>11, Elsewhere DEF Agrees
    <3> QED
      BY <1>4, <1>11, <3>1, <3>2, <3>3 DEF Agrees
  <2> QED
    BY <2>2, <2>3
<1>12. Ahead'
  BY <1>2, <1>4, <1>11, LooksFurther DEF IsRequest
<1> QED
  BY <1>5, <1>10, <1>12 DEF IInv

LEMMA CloseStep == ASSUME IInv, NEW u \in Uris, Close(u) PROVE IInv'
<1>1. PICK m : m = [method |-> "didClose", uri |-> u]
  OBVIOUS
<1>2. /\ Send(m) /\ session = "open" /\ session' = "open" /\ asked' = asked
      /\ buffer' = [buffer EXCEPT ![u] = None] /\ crowded' = crowded \ {u}
  BY <1>1 DEF Close
<1>3. Sequence(unread') /\ Sequence(asked') /\ Pipe' /\ Answered'
  BY <1>1, <1>2, Told DEF Requests, Leaving, IsRequest
<1>4. /\ buffer' \in [Uris -> {None} \cup [version : Nat, text : Texts]]
      /\ buffer'[u] = None /\ \A v \in Uris \ {u} : buffer'[v] = buffer[v]
  BY <1>2 DEF IInv, Typed
<1>5. ~IsOpen(u)' /\ \A v \in Uris \ {u} : IsOpen(v)' <=> IsOpen(v)
  BY <1>4 DEF IsOpen
<1>6. Typed'
  BY <1>2, <1>3, <1>4, <1>5 DEF IInv, Typed, Send, server
<1>7. ASSUME NEW s, NEW t, Agrees(s), Handled(s, m, t) PROVE Agrees(t)'
  <2>1. CASE u \notin LongUris
    <3>1. Drops(s, m, t)
      BY <1>1, <1>2, <1>7, <2>1
         DEF Agrees, Handled, Opens, Changes, Closes, Begins, Stops, Skips, DocumentMethods
    <3> QED
      BY <1>1, <1>2, <1>4, <1>5, <1>7, <2>1, <3>1, DroppingAgrees
  <2>2. CASE u \in LongUris
    <3>1. t = s
      BY <1>1, <1>7, <2>2 DEF Handled, Opens, Changes, Closes, Begins, Stops, Skips
    <3> QED
      BY <1>2, <1>4, <1>7, <2>2, <3>1, LongNamesPass
  <2> QED
    BY <2>1, <2>2
<1>8. Ahead'
  BY <1>1, <1>2, <1>7, LooksFurther DEF IsRequest
<1> QED
  BY <1>3, <1>6, <1>8 DEF IInv
(* A lapse leaves a server that agrees as it is.                           *)
LEMMA LapsesAreIgnored ==
    ASSUME IInv, session = "open", NEW u \in Uris, NEW m \in Lapses(u),
           NEW s, Agrees(s), NEW t, Handled(s, m, t),
           session' = session, buffer' = buffer, crowded' = crowded
    PROVE  Agrees(t)'
<1>1. s.phase = "open" /\ Faithful(s, u)
  BY DEF Agrees
<1>2. CASE t = s
  BY <1>2, Unaffected
<1>3. CASE m \in [method : {"didChange"}, uri : {u}, version : 1 .. MaxVersion, texts : {<<>>}]
  <2>1. t = s
    BY <1>3 DEF Handled, Opens, Changes, Closes, Begins, Stops, Skips, Newer
  <2> QED
    BY <1>2, <2>1
<1>4. CASE /\ m \in [method : {"didChange"}, uri : {u}, version : 1 .. MaxVersion, texts : {<<x>> : x \in Texts}]
           /\ IsOpen(u) => m.version <= buffer[u].version
  <2>1. ~Newer(s, m)
    BY <1>1, <1>4 DEF Newer, Stale, Faithful
  <2>2. t = s
    BY <1>4, <2>1 DEF Handled, Opens, Changes, Closes, Begins, Stops, Skips
  <2> QED
    BY <1>2, <2>2
<1>5. CASE /\ m \in [method : {"didOpen"}, uri : {u}, version : {MaxVersion}, text : Texts]
           /\ IsOpen(u) /\ u \notin crowded
  <2>1. u \in DOMAIN s.documents \/ u \in LongUris
    BY <1>1, <1>5 DEF Faithful
  <2>2. t = s
    BY <1>5, <2>1 DEF Handled, Opens, Changes, Closes, Begins, Stops, Skips
  <2> QED
    BY <1>2, <2>2
<1>6. CASE m \in [method : {"didClose"}, uri : {u}] /\ ~IsOpen(u)
  <2>1. CASE u \notin LongUris
    <3>1. Drops(s, m, t)
      BY <1>1, <1>6, <2>1 DEF Handled, Opens, Changes, Closes, Begins, Stops, Skips, DocumentMethods
    <3>2. ~IsOpen(u)' /\ m.uri = u
      BY <1>6 DEF IsOpen
    <3> QED
      BY <2>1, <3>1, <3>2, DroppingAgrees
  <2>2. CASE u \in LongUris
    <3>1. t = s
      BY <1>6, <2>2 DEF Handled, Opens, Changes, Closes, Begins, Stops, Skips
    <3> QED
      BY <1>2, <3>1
  <2> QED
    BY <2>1, <2>2
<1>7. CASE m \in [method : {"damaged", "unknown"}]
  <2>1. t = s
    BY <1>7 DEF Handled, Opens, Changes, Closes, Begins, Stops, Skips
  <2> QED
    BY <1>2, <2>1
<1> QED
  BY <1>3, <1>4, <1>5, <1>6, <1>7 DEF Lapses

LEMMA ErrStep == ASSUME IInv, NEW u \in Uris, Err(u) PROVE IInv'
<1>1. PICK m \in Lapses(u) : Send(m)
  BY DEF Err
<1>2. /\ session = "open" /\ session' = session /\ asked' = asked
      /\ buffer' = buffer /\ crowded' = crowded
  BY DEF Err, documentsSeen
<1>3. ~IsRequest(m) /\ m.method \in {"didOpen", "didChange", "didClose", "damaged", "unknown"}
  <2>1. CASE m \in [method : {"didChange"}, uri : {u}, version : 1 .. MaxVersion,
                    texts : {<<>>} \cup {<<x>> : x \in Texts}]
    BY <2>1 DEF IsRequest
  <2>2. CASE m \in [method : {"didOpen"}, uri : {u}, version : {MaxVersion}, text : Texts]
    BY <2>2 DEF IsRequest
  <2>3. CASE m \in [method : {"didClose"}, uri : {u}]
    BY <2>3 DEF IsRequest
  <2>4. CASE m \in [method : {"damaged", "unknown"}]
    BY <2>4 DEF IsRequest
  <2> QED
    BY <2>1, <2>2, <2>3, <2>4 DEF Lapses
<1>4. Sequence(unread') /\ Sequence(asked') /\ Pipe' /\ Answered'
  BY <1>1, <1>2, <1>3, Told DEF Requests, Leaving
<1>5. Typed'
  <2>1. \A v : IsOpen(v)' <=> IsOpen(v)
    BY <1>2 DEF IsOpen
  <2> QED
    BY <1>1, <1>2, <1>4, <2>1 DEF IInv, Typed, Send, server
<1>6. \A s, t : Agrees(s) /\ Handled(s, m, t) => Agrees(t)'
  BY <1>2, LapsesAreIgnored
<1>7. Ahead'
  BY <1>1, <1>2, <1>3, <1>6, LooksFurther
<1> QED
  BY <1>4, <1>5, <1>7 DEF IInv
-----------------------------------------------------------------------------
(* The server's side: a step of the server is one that a run may take.     *)
LEMMA ServesTheFirst ==
    ASSUME IInv, Serve
    PROVE  /\ exit = None /\ unread # <<>> /\ unread' = Tail(unread)
           /\ UNCHANGED editor
           /\ IF Whole(unread[1]) THEN Handle(unread[1]) ELSE Frame(unread[1])
<1>1. PICK m : Receive(m) /\ IF Whole(m) THEN Handle(m) ELSE Frame(m)
  BY DEF Serve
<1>2. m = unread[1]
  BY <1>1, Taken DEF Receive, IInv, Typed
<1> QED
  BY <1>1, <1>2 DEF Receive

Responds(m) ==
    IF IsRequest(m)
    THEN answers' = [n \in DOMAIN answers \cup {m.id} |-> IF n = m.id THEN Answer(Now, m) ELSE answers[n]]
    ELSE answers' = answers

LEMMA StorePublishes ==
    ASSUME NEW m, NEW text, Store(m, text), Phase = "open", Phase' = "open"
    PROVE  Stores(Now, m, text, Now')
BY DEF Store, Stores, Now, Shows, Publish, Diagnostics

LEMMA ServingIsOpen ==
    ASSUME NEW m
    PROVE  /\ Serving(m) => Phase = "open" /\ m.method # "initialize"
           /\ (shutdown => initialized) /\ Phase = "open" => initialized /\ ~shutdown
           /\ (shutdown => initialized) /\ Phase = "new" => ~initialized
BY DEF Serving, Phase
LEMMA DocumentHandled ==
    ASSUME IInv, NEW m, Numbered(m), HandleDocument(m)
    PROVE  Handled(Now, m, Now')
<1>1. Phase = "open" /\ Phase' = "open" /\ Now.phase = "open" /\ Now'.phase = "open"
  BY DEF HandleDocument, Serving, Phase, Now
<1>2. CASE m.method = "didOpen" /\ m.uri \notin LongUris /\ DidOpen(m)
  <2>1. CASE m.uri \in DOMAIN documents /\ Ignore
    BY <1>1, <1>2, <2>1 DEF Handled, Skips, Ignore, Now
  <2>2. CASE /\ m.uri \notin DOMAIN documents
             /\ Cardinality(DOMAIN documents) >= MaxDocuments
             /\ Publish(m.uri, [version |-> m.version, shows |-> Limit])
             /\ UNCHANGED documents
    <3>1. Refuses(Now, m, Now')
      BY <1>1, <2>2 DEF Refuses, Publish, Now, Shows
    <3> QED
      BY <1>1, <1>2, <2>2, <3>1 DEF Handled, Opens, Now
  <2>3. CASE /\ m.uri \notin DOMAIN documents
             /\ Cardinality(DOMAIN documents) < MaxDocuments
             /\ Store(m, m.text)
    <3>1. Stores(Now, m, m.text, Now')
      BY <1>1, <2>3, StorePublishes
    <3> QED
      BY <1>1, <1>2, <2>3, <3>1 DEF Handled, Opens, Now
  <2> QED
    BY <1>2, <2>1, <2>2, <2>3 DEF DidOpen
<1>3. CASE m.method = "didChange" /\ m.uri \notin LongUris /\ DidChange(m)
  <2>1. Newer(Now, m) <=> Current(m) /\ m.texts # <<>>
    BY DEF Newer, Current, Now
  <2>2. CASE Current(m) /\ m.texts # <<>> /\ Store(m, m.texts[Len(m.texts)])
    <3>1. Stores(Now, m, m.texts[Len(m.texts)], Now')
      BY <1>1, <2>2, StorePublishes
    <3> QED
      BY <1>1, <1>3, <2>1, <2>2, <3>1 DEF Handled, Changes
  <2>3. CASE ~(Current(m) /\ m.texts # <<>>) /\ Ignore
    <3>1. Now' = Now
      BY <1>1, <2>3 DEF Ignore, Now
    <3> QED
      BY <1>1, <1>3, <2>1, <2>3, <3>1 DEF Handled, Skips
  <2> QED
    BY <1>3, <2>2, <2>3 DEF DidChange
<1>4. CASE m.method = "didClose" /\ m.uri \notin LongUris /\ DidClose(m)
  <2>1. documents' = [u \in DOMAIN documents \ {m.uri} |-> documents[u]]
    BY <1>4 DEF DidClose, Restrict
  <2>2. Drops(Now, m, Now')
    BY <1>1, <1>4, <2>1 DEF Drops, DidClose, Publish, Now, Shows
  <2> QED
    BY <1>1, <1>4, <2>2 DEF Handled, Closes
<1>5. CASE m.method \in DocumentMethods /\ m.uri \in LongUris /\ Ignore
  <2>1. Now' = Now
    BY <1>1, <1>5 DEF Ignore, Now
  <2> QED
    BY <1>1, <1>5, <2>1 DEF Handled, Skips, DocumentMethods
<1> QED
  BY <1>2, <1>3, <1>4, <1>5 DEF HandleDocument

LEMMA ServeHandles ==
    ASSUME IInv, Serve, NEW m, m = unread[1]
    PROVE  /\ Handled(Now, m, Now') /\ Responds(m)
           /\ shutdown' => initialized'
           /\ exit' # exit => m.method \in Leaving
<1>1. IF Whole(m) THEN Handle(m) ELSE Frame(m)
  BY ServesTheFirst
<1>2. Numbered(m)
  <2>1. 1 \in 1 .. Len(unread)
    BY ServesTheFirst, Taken DEF IInv, Typed
  <2> QED
    BY <2>1 DEF IInv, Pipe
<1>3. shutdown => initialized
  BY DEF IInv, Typed
<1> DEFINE Goal == /\ Handled(Now, m, Now') /\ Responds(m)
                   /\ shutdown' => initialized'
                   /\ exit' # exit => m.method \in Leaving
<1>4. CASE Exits(m)
  <2>1. Now' = Now /\ answers' = answers /\ ~IsRequest(m)
    BY <1>2, <1>4 DEF Exits, Now, Phase, Numbered, Requests
  <2> QED
    BY <1>3, <1>4, <2>1 DEF Exits, Handled, Skips, Responds, Leaving
<1>5. CASE Initialize(m)
  <2>1. /\ Phase = "new" /\ Phase' = "open" /\ Now.phase = "new" /\ Now'.phase = "open"
        /\ Now'.documents = Now.documents /\ Now'.screen = Now.screen
    BY <1>3, <1>5 DEF Initialize, Phase, Now
  <2>2. IsRequest(m) /\ Answer(Now, m) = None
    BY <1>2, <1>5, <2>1 DEF Initialize, Numbered, Requests, Answer
  <2> QED
    BY <1>5, <2>1, <2>2 DEF Initialize, Handled, Begins, Responds, Respond
<1>6. CASE Reject(m)
  <2>1. Now' = Now /\ Now.phase = Phase
    BY <1>6 DEF Reject, server, Now, Phase
  <2>2. (m.method = "initialize" => Phase # "new") /\ (m.method # "initialize" => Phase # "open")
    BY <1>6 DEF Reject, Rejected, Phase
  <2>3. Handled(Now, m, Now')
    BY <2>1, <2>2 DEF Handled, Skips
  <2>4. Answer(Now, m) = Error
    BY <2>1, <2>2 DEF Answer
  <2> QED
    BY <1>3, <1>6, <2>3, <2>4 DEF Reject, server, Responds, Respond
<1>7. CASE Shutdown(m)
  <2>1. /\ Phase = "open" /\ Phase' = "closing" /\ Now.phase = "open" /\ Now'.phase = "closing"
        /\ m.method = "shutdown"
    BY <1>7 DEF Shutdown, Serving, Phase, Now
  <2>2. IsRequest(m) /\ Answer(Now, m) = None
    BY <1>2, <2>1 DEF Numbered, Requests, Answer
  <2>3. Handled(Now, m, Now')
    BY <2>1 DEF Handled, Stops
  <2>4. Responds(m)
    BY <1>7, <2>2 DEF Shutdown, Responds, Respond
  <2>5. shutdown' => initialized'
    BY <1>7 DEF Shutdown, Serving
  <2>6. exit' = exit
    BY <1>7 DEF Shutdown
  <2> QED
    BY <2>3, <2>4, <2>5, <2>6
<1>8. CASE Inspect(m)
  <2>1. Now' = Now /\ Now.phase = "open" /\ Now.documents = documents /\ m.method = "inspect"
    BY <1>8 DEF Inspect, Serving, server, Now, Phase
  <2>2. IsRequest(m) /\ Answer(Now, m) = IF m.uri \in DOMAIN documents THEN documents[m.uri].text ELSE None
    BY <1>2, <2>1 DEF Numbered, Requests, Answer
  <2>3. Handled(Now, m, Now')
    BY <2>1 DEF Handled, Skips
  <2> QED
    BY <1>3, <1>8, <2>2, <2>3 DEF Inspect, server, Responds, Respond
<1>9. CASE Unsupported(m)
  <2>1. Now' = Now /\ Now.phase = "open" /\ m.method = "unknown"
    BY <1>9 DEF Unsupported, Serving, server, Now, Phase
  <2>2. Answer(Now, m) = Error /\ Handled(Now, m, Now')
    BY <2>1 DEF Handled, Skips, Answer
  <2> QED
    BY <1>3, <1>9, <2>2 DEF Unsupported, server, Responds, Respond
<1>10. CASE HandleDocument(m)
  <2>1. ~IsRequest(m)
    BY <1>2, <1>10 DEF HandleDocument, DocumentMethods, Numbered, Requests
  <2>2. Handled(Now, m, Now')
    BY <1>2, <1>10, DocumentHandled
  <2> QED
    BY <1>3, <1>10, <2>1, <2>2 DEF HandleDocument, Responds
<1>11. CASE Frame(m)
  <2>1. Now' = Now /\ answers' = answers /\ m.method \in {"damaged", "end", "cut"}
    BY <1>11 DEF Frame, server, Now, Phase
  <2>2. ~IsRequest(m) /\ Handled(Now, m, Now')
    BY <1>2, <2>1 DEF Numbered, Requests, Handled, Skips
  <2> QED
    BY <1>3, <1>11, <2>1, <2>2 DEF Frame, server, Responds, Leaving
<1> QED
  BY <1>1, <1>4, <1>5, <1>6, <1>7, <1>8, <1>9, <1>10, <1>11 DEF Handle

LEMMA ServeStep == ASSUME IInv, Serve PROVE IInv'
<1>1. PICK m : m = unread[1]
  OBVIOUS
<1>2. /\ exit = None /\ unread # <<>> /\ unread' = Tail(unread)
      /\ session' = session /\ buffer' = buffer /\ crowded' = crowded /\ asked' = asked
  BY ServesTheFirst DEF editor, documentsSeen
<1>3. /\ Handled(Now, m, Now') /\ Responds(m)
      /\ shutdown' => initialized'
      /\ exit' # exit => m.method \in Leaving
  BY <1>1, ServeHandles
<1>4. /\ Sequence(unread') /\ Len(unread) \in Nat \ {0} /\ Len(unread') = Len(unread) - 1
      /\ \A i \in 1 .. Len(unread') : unread'[i] = unread[i + 1]
  BY <1>2, Taken DEF IInv, Typed
<1>5. Len(unread) \in Nat /\ Len(unread') \in Nat /\ Len(unread') = Len(unread) - 1
  BY <1>4
<1>6. Typed'
  <2>1. \A v : IsOpen(v)' <=> IsOpen(v)
    BY <1>2 DEF IsOpen
  <2> QED
    BY <1>2, <1>3, <1>4, <2>1 DEF IInv, Typed
<1>7. 1 \in 1 .. Len(unread) /\ Numbered(m)
  BY <1>1, <1>4 DEF IInv, Pipe
<1>8. IsRequest(m) => Answer(Now, m) \in asked[m.id]
  <2>1. PICK run : run = [i \in {0} |-> Now]
    OBVIOUS
  <2>2. Run(run, 0) /\ run[0] = Now
    BY <2>1 DEF Run
  <2>3. 0 \in 0 .. Len(unread) /\ 0 < Len(unread) /\ 0 + 1 = 1
    BY <1>4
  <2> QED
    BY <1>1, <2>2, <2>3 DEF IInv, Ahead
<1>9. /\ DOMAIN answers' = IF IsRequest(m) THEN DOMAIN answers \cup {m.id} ELSE DOMAIN answers
      /\ \A n \in DOMAIN answers \ {m.id} : answers'[n] = answers[n]
      /\ IsRequest(m) => answers'[m.id] = Answer(Now, m)
  BY <1>3 DEF Responds
<1>10. Answered'
  <2>1. CASE IsRequest(m)
    BY <1>2, <1>7, <1>8, <1>9, <2>1 DEF IInv, Answered, Numbered
  <2>2. CASE ~IsRequest(m)
    BY <1>2, <1>3, <2>2 DEF IInv, Answered, Responds
  <2> QED
    BY <2>1, <2>2
<1>11. \A i \in 1 .. Len(unread') :
          i + 1 \in 1 .. Len(unread) /\ i + 1 # 1 /\ unread'[i] = unread[i + 1]
  BY <1>4
<1>12. \A i \in 1 .. Len(unread') :
          IsRequest(unread'[i]) =>
              unread'[i].id \in 1 .. Len(asked) /\ unread'[i].id \notin DOMAIN answers'
  <2> SUFFICES ASSUME NEW i \in 1 .. Len(unread'), IsRequest(unread'[i])
               PROVE  unread'[i].id \in 1 .. Len(asked) /\ unread'[i].id \notin DOMAIN answers'
    OBVIOUS
  <2>1. Numbered(unread[i + 1]) /\ (IsRequest(m) => unread[i + 1].id # m.id)
    BY <1>1, <1>7, <1>11 DEF IInv, Pipe
  <2> QED
    BY <1>9, <1>11, <2>1 DEF Numbered
<1>13. (\A i \in 1 .. Len(unread) : Numbered(unread[i]))'
  BY <1>2, <1>11, <1>12 DEF IInv, Pipe, Numbered, IsRequest
<1>14. \A i, j \in 1 .. Len(unread') :
          IsRequest(unread'[i]) /\ IsRequest(unread'[j]) /\ unread'[i].id = unread'[j].id => i = j
  <2> SUFFICES ASSUME NEW i \in 1 .. Len(unread'), NEW j \in 1 .. Len(unread'),
                      IsRequest(unread'[i]), IsRequest(unread'[j]), unread'[i].id = unread'[j].id
               PROVE  i = j
    OBVIOUS
  <2>1. i + 1 = j + 1
    BY <1>11 DEF IInv, Pipe
  <2> QED
    BY <1>4, <2>1
<1>15. \A n \in 1 .. Len(asked') :
          n \in DOMAIN answers' \/ \E i \in 1 .. Len(unread') : IsRequest(unread'[i]) /\ unread'[i].id = n
  <2> SUFFICES ASSUME NEW n \in 1 .. Len(asked), n \notin DOMAIN answers'
               PROVE  \E i \in 1 .. Len(unread') : IsRequest(unread'[i]) /\ unread'[i].id = n
    BY <1>2
  <2>1. PICK i \in 1 .. Len(unread) : IsRequest(unread[i]) /\ unread[i].id = n
    BY <1>9 DEF IInv, Pipe
  <2>2. i # 1
    BY <1>1, <1>9, <2>1
  <2>3. i - 1 \in 1 .. Len(unread') /\ unread'[i - 1] = unread[i]
    BY <1>4, <2>2
  <2> QED
    BY <2>1, <2>3
<1>16. \A i \in 1 .. Len(unread') :
          unread'[i].method \in Leaving => i = Len(unread') /\ session' = "over"
  <2> SUFFICES ASSUME NEW i \in 1 .. Len(unread'), unread'[i].method \in Leaving
               PROVE  i = Len(unread') /\ session' = "over"
    OBVIOUS
  <2>1. Len(unread) = i + 1 /\ session = "over"
    BY <1>11 DEF IInv, Pipe
  <2> QED
    BY <1>2, <1>5, <2>1
<1>17. exit' # None => unread' = <<>> /\ session' = "over"
  <2> SUFFICES ASSUME exit' # None PROVE unread' = <<>> /\ session' = "over"
    OBVIOUS
  <2>1. Len(unread) = 1 /\ session = "over"
    BY <1>1, <1>2, <1>3, <1>7 DEF IInv, Pipe
  <2> QED
    <3>1. Len(unread') = 0
      BY <1>5, <2>1
    <3>2. unread' = <<>>
      BY <1>4, <3>1, EmptySequence
    <3> QED
      BY <1>2, <2>1, <3>2
<1>18. Pipe'
  BY <1>13, <1>14, <1>15, <1>16, <1>17 DEF Pipe, IsRequest
<1>19. \A s : Agrees(s) => Agrees(s)'
  BY <1>2, Unaffected
<1>20. Ahead'
  <2> SUFFICES ASSUME NEW k \in 0 .. Len(unread'), NEW run, Run(run, k)'
               PROVE  /\ k < Len(unread') /\ IsRequest(unread'[k + 1]) =>
                            Answer(run[k], unread'[k + 1]) \in asked'[unread'[k + 1].id]
                      /\ k = Len(unread') /\ session' # "over" => Agrees(run[k])'
    BY DEF Ahead
  <2>1. run[0] = Now' /\ \A i \in 1 .. k : Handled(run[i - 1], unread'[i], run[i])
    BY DEF Run
  <2>2. PICK now : now = Now
    OBVIOUS
  <2>3. PICK longer : longer = [i \in 0 .. k + 1 |-> IF i = 0 THEN now ELSE run[i - 1]]
    OBVIOUS
  <2>4. k + 1 \in 0 .. Len(unread) /\ longer[0] = Now /\ longer[k + 1] = run[k]
    BY <1>4, <2>2, <2>3
  <2>5. ASSUME NEW i \in 1 .. k + 1 PROVE Handled(longer[i - 1], unread[i], longer[i])
    <3>1. CASE i = 1
      BY <1>1, <1>3, <2>1, <2>2, <2>3, <3>1
    <3>2. CASE i # 1
      <4>1. i - 1 \in 1 .. k /\ i - 1 \in 1 .. Len(unread') /\ (i - 1) + 1 = i
        BY <1>4, <3>2
      <4>2. longer[i - 1] = run[(i - 1) - 1] /\ longer[i] = run[i - 1]
        BY <2>3, <4>1
      <4>3. unread'[i - 1] = unread[i]
        BY <1>4, <4>1
      <4> QED
        BY <2>1, <4>1, <4>2, <4>3
    <3> QED
      BY <3>1, <3>2
  <2>6. Run(longer, k + 1)
    BY <2>4, <2>5 DEF Run
  <2>7. /\ k + 1 < Len(unread) /\ IsRequest(unread[(k + 1) + 1]) =>
              Answer(run[k], unread[(k + 1) + 1]) \in asked[unread[(k + 1) + 1].id]
        /\ k + 1 = Len(unread) /\ session # "over" => Agrees(run[k])
    BY <2>4, <2>6 DEF IInv, Ahead
  <2>8. k < Len(unread') => k + 1 \in 1 .. Len(unread') /\ unread'[k + 1] = unread[(k + 1) + 1]
                             /\ k + 1 < Len(unread)
    BY <1>4
  <2>9. k = Len(unread') => k + 1 = Len(unread)
    BY <1>4
  <2> QED
    BY <1>2, <1>19, <2>7, <2>8, <2>9
<1> QED
  BY <1>6, <1>10, <1>18, <1>20 DEF IInv
LEMMA Stutters == ASSUME IInv, UNCHANGED vars PROVE IInv'
<1>1. /\ UNCHANGED <<initialized, shutdown, documents, exit, unread, session, buffer, crowded, screen>>
      /\ UNCHANGED <<asked, answers>>
  BY DEF vars, server, editor, documentsSeen
<1>2. \A u : IsOpen(u)' <=> IsOpen(u)
  BY <1>1 DEF IsOpen
<1>3. Typed'
  BY <1>1, <1>2 DEF IInv, Typed
<1>4. Pipe' /\ Answered'
  BY <1>1 DEF IInv, Pipe, Answered, Numbered
<1>5. \A s : Agrees(s) => Agrees(s)'
  BY <1>1, Unaffected
<1>6. Now' = Now
  BY <1>1 DEF Now, Phase
<1>7. \A k, run : Run(run, k)' <=> Run(run, k)
  BY <1>1, <1>6 DEF Run
<1>8. Ahead'
  BY <1>1, <1>5, <1>7 DEF IInv, Ahead
<1> QED
  BY <1>3, <1>4, <1>8 DEF IInv

(* The invariant holds in every state of the editor and the server.        *)
LEMMA Inductive == Spec => []IInv
<1>1. Init => IInv
  BY Initially
<1>2. IInv /\ [Next]_vars => IInv'
  <2> SUFFICES ASSUME IInv, [Next]_vars PROVE IInv'
    OBVIOUS
  <2>1. ASSUME NEW u \in Uris, Act(u) PROVE IInv'
    <3>1. ASSUME NEW t \in Texts, Open(u, t) \/ Change(u, <<t>>) \/ \E s \in Texts : Change(u, <<s, t>>)
          PROVE  IInv'
      <4>1. CASE Open(u, t)
        BY <4>1, OpenStep
      <4>2. CASE Change(u, <<t>>)
        <5>1. <<t>> \in Seq(Texts) /\ <<t>> # <<>>
          OBVIOUS
        <5> QED
          BY <4>2, <5>1, ChangeStep
      <4>3. ASSUME NEW s \in Texts, Change(u, <<s, t>>) PROVE IInv'
        <5>1. <<s, t>> \in Seq(Texts) /\ <<s, t>> # <<>>
          OBVIOUS
        <5> QED
          BY <4>3, <5>1, ChangeStep
      <4> QED
        BY <3>1, <4>1, <4>2, <4>3
    <3> QED
      BY <2>1, <3>1, InquireStep, OpenAgainStep, CloseStep, ErrStep DEF Act
  <2> QED
    BY <2>1, ServeStep, StartStep, FinishStep, LeaveStep, AskInVainStep, Stutters DEF Next
<1> QED
  BY <1>1, <1>2, PTL DEF Spec

-----------------------------------------------------------------------------
(* Induction up to a number: a set that contains zero and is closed under  *)
(* successors up to n contains all numbers up to n.                        *)
LEMMA Climbs ==
    ASSUME NEW n \in Nat, NEW S, 0 \in S, \A i \in 0 .. n - 1 : i \in S => i + 1 \in S
    PROVE  \A i \in 0 .. n : i \in S
<1>1. SUFFICES ASSUME NEW k \in 0 .. n, k \notin S PROVE FALSE
  OBVIOUS
<1> DEFINE T == {i \in 0 .. n : i \notin S}
<1>2. T \subseteq Nat /\ T # {}
  BY <1>1
<1>3. PICK R : IsWellFoundedOn(R, Nat) /\ R = {ss \in Nat \X Nat : ss[1] < ss[2]}
  BY NatLessThanWellFounded DEF OpToRel
<1> HIDE DEF T
<1>4. PICK i \in T : \A j \in T : <<j, i>> \notin R
  BY <1>2, <1>3, WFMin
<1>5. \A j \in T : ~(j < i)
  BY <1>2, <1>3, <1>4
<1>6. i \in 0 .. n /\ i \notin S
  BY <1>4 DEF T
<1>7. i # 0 /\ i - 1 \in 0 .. n - 1
  BY <1>6
<1>8. i - 1 \in 0 .. n /\ i - 1 < i
  BY <1>6, <1>7
<1>9. i - 1 \in S
  BY <1>5, <1>8 DEF T
<1>10. (i - 1) + 1 = i
  BY <1>6
<1> QED
  BY <1>6, <1>7, <1>9, <1>10

-----------------------------------------------------------------------------
(* Loops: what one turn does with what the turns before it left.           *)
Goes(loop, x, i) ==
    CASE loop.of = "literal" -> Inside(loop.s, x)
      [] loop.of = "native literal" -> NativeInside(loop.s, x)
      [] loop.of = "source" -> Turn(loop.s, x)
      [] loop.of = "native source" -> NativeTurn(loop.s, x)
      [] loop.of = "production" -> NextPart(loop.items[i], loop.read, loop.room, x)
      [] loop.of = "quoting" -> x \o Written(loop.text[i])
      [] loop.of = "nesting" -> Around(loop.t, loop.limit, x)
Looped(loop, start, f, k) ==
    f = [i \in 0 .. k |-> IF i = 0 THEN start ELSE Goes(loop, f[i - 1], i)]
LEMMA Loops ==
    ASSUME NEW loop, NEW start, NEW n \in Nat
    PROVE  \E f : Looped(loop, start, f, n)
<1> DEFINE S == {k \in 0 .. n : \E f : Looped(loop, start, f, k)}
<1>1. 0 \in S
  <2>1. PICK f : f = [i \in 0 .. 0 |-> start]
    OBVIOUS
  <2>2. f = [i \in 0 .. 0 |-> IF i = 0 THEN start ELSE Goes(loop, f[i - 1], i)]
    BY <2>1
  <2> QED
    BY <2>2 DEF Looped
<1>2. ASSUME NEW k \in 0 .. n - 1, k \in S PROVE k + 1 \in S
  <2>1. PICK f : Looped(loop, start, f, k)
    BY <1>2
  <2>2. PICK x : x = Goes(loop, f[k], k + 1)
    OBVIOUS
  <2>3. k \in Nat
    OBVIOUS
  <2>4. PICK g : g = [i \in 0 .. k + 1 |-> IF i = k + 1 THEN x ELSE f[i]]
    OBVIOUS
  <2>5. g = [i \in 0 .. k + 1 |-> g[i]] /\ (\A i \in 0 .. k : g[i] = f[i]) /\ g[k + 1] = x
    <3>1. g = [i \in 0 .. k + 1 |-> g[i]]
      BY <2>4
    <3>2. g[k + 1] = x
      BY <2>3, <2>4
    <3>3. \A i \in 0 .. k : i # k + 1 /\ i \in 0 .. k + 1
      BY <2>3
    <3>4. \A i \in 0 .. k : g[i] = f[i]
      BY <2>4, <3>3
    <3> QED
      BY <3>1, <3>2, <3>4
  <2>6. ASSUME NEW i \in 0 .. k + 1
        PROVE  g[i] = IF i = 0 THEN start ELSE Goes(loop, g[i - 1], i)
    <3>1. CASE i = k + 1
      <4>1. i # 0 /\ i - 1 = k /\ k \in 0 .. k
        BY <3>1
      <4>2. g[k] = f[k]
        BY <2>5, <4>1
      <4> QED
        BY <2>2, <2>5, <3>1, <4>1, <4>2
    <3>2. CASE i # k + 1
      <4>1. i \in 0 .. k /\ (i # 0 => i - 1 \in 0 .. k)
        BY <3>2
      <4>2. g[i] = f[i] /\ (i # 0 => g[i - 1] = f[i - 1])
        BY <2>5, <4>1
      <4>3. f[i] = IF i = 0 THEN start ELSE Goes(loop, f[i - 1], i)
        BY <2>1, <4>1 DEF Looped
      <4> QED
        BY <4>2, <4>3
    <3> QED
      BY <3>1, <3>2
  <2>7. Looped(loop, start, g, k + 1)
    BY <2>5, <2>6 DEF Looped
  <2> QED
    BY <2>7
<1>3. \A i \in 0 .. n : i \in S
  <2> HIDE DEF S
  <2> QED
    BY <1>1, <1>2, Climbs
<1> QED
  BY <1>3

LEMMA LiteralLoop ==
    ASSUME NEW s, NEW scan, Len(s) \in Nat
    PROVE  \E f : /\ f[0] = Opened(scan)
                  /\ \A k \in 0 .. Len(s) - 1 : f[k + 1] = Inside(s, f[k])
                  /\ Literal(s, scan) = f[Len(s)]
<1>1. PICK loop : loop = [of |-> "literal", s |-> s]
  OBVIOUS
<1>2. \A x, i : Goes(loop, x, i) = Inside(s, x)
  BY <1>1 DEF Goes
<1>3. PICK f : f = CHOOSE g : g = [k \in 0 .. Len(s) |->
                                     IF k = 0 THEN Opened(scan) ELSE Inside(s, g[k - 1])]
  OBVIOUS
<1>4. \A g : Looped(loop, Opened(scan), g, Len(s)) <=>
                g = [k \in 0 .. Len(s) |-> IF k = 0 THEN Opened(scan) ELSE Inside(s, g[k - 1])]
  BY <1>2 DEF Looped
<1>5. PICK n \in Nat : n = Len(s)
  OBVIOUS
<1>6. Looped(loop, Opened(scan), f, n)
  <2>1. \E g : Looped(loop, Opened(scan), g, n)
    BY Loops
  <2> QED
    BY <1>3, <1>4, <1>5, <2>1
<1>7. f[0] = Opened(scan)
  BY <1>6 DEF Looped
<1>8. Literal(s, scan) = f[Len(s)]
  BY <1>3 DEF Literal
<1>9. ASSUME NEW k \in 0 .. Len(s) - 1 PROVE f[k + 1] = Inside(s, f[k])
  <2>1. k + 1 \in 0 .. n /\ k + 1 # 0 /\ (k + 1) - 1 = k
    BY <1>5
  <2>2. f[k + 1] = Goes(loop, f[k], k + 1)
    BY <1>6, <2>1 DEF Looped
  <2> QED
    BY <1>2, <2>2
<1> QED
  BY <1>7, <1>8, <1>9

LEMMA NativeLiteralLoop ==
    ASSUME NEW s, NEW scan, Len(s) \in Nat
    PROVE  \E f : /\ f[0] = NativeOpened(scan)
                  /\ \A k \in 0 .. Len(s) - 1 : f[k + 1] = NativeInside(s, f[k])
                  /\ NativeLiteral(s, scan) = f[Len(s)].scan
<1>1. PICK loop : loop = [of |-> "native literal", s |-> s]
  OBVIOUS
<1>2. \A x, i : Goes(loop, x, i) = NativeInside(s, x)
  BY <1>1 DEF Goes
<1>3. PICK f : f = CHOOSE g : g = [k \in 0 .. Len(s) |->
                                     IF k = 0 THEN NativeOpened(scan) ELSE NativeInside(s, g[k - 1])]
  OBVIOUS
<1>4. \A g : Looped(loop, NativeOpened(scan), g, Len(s)) <=>
                g = [k \in 0 .. Len(s) |-> IF k = 0 THEN NativeOpened(scan) ELSE NativeInside(s, g[k - 1])]
  BY <1>2 DEF Looped
<1>5. PICK n \in Nat : n = Len(s)
  OBVIOUS
<1>6. Looped(loop, NativeOpened(scan), f, n)
  <2>1. \E g : Looped(loop, NativeOpened(scan), g, n)
    BY Loops
  <2> QED
    BY <1>3, <1>4, <1>5, <2>1
<1>7. f[0] = NativeOpened(scan)
  BY <1>6 DEF Looped
<1>8. NativeLiteral(s, scan) = f[Len(s)].scan
  BY <1>3 DEF NativeLiteral
<1>9. ASSUME NEW k \in 0 .. Len(s) - 1 PROVE f[k + 1] = NativeInside(s, f[k])
  <2>1. k + 1 \in 0 .. n /\ k + 1 # 0 /\ (k + 1) - 1 = k
    BY <1>5
  <2>2. f[k + 1] = Goes(loop, f[k], k + 1)
    BY <1>6, <2>1 DEF Looped
  <2> QED
    BY <1>2, <2>2
<1> QED
  BY <1>7, <1>8, <1>9

LEMMA SourceLoop ==
    ASSUME NEW s, Len(s) \in Nat
    PROVE  \E f : /\ f[0] = Begin
                  /\ \A k \in 0 .. Len(s) - 1 : f[k + 1] = Turn(s, f[k])
                  /\ ReadAll(s) = f[Len(s)]
<1>1. PICK loop : loop = [of |-> "source", s |-> s]
  OBVIOUS
<1>2. \A x, i : Goes(loop, x, i) = Turn(s, x)
  BY <1>1 DEF Goes
<1>3. PICK f : f = CHOOSE g : g = [k \in 0 .. Len(s) |->
                                     IF k = 0 THEN Begin ELSE Turn(s, g[k - 1])]
  OBVIOUS
<1>4. \A g : Looped(loop, Begin, g, Len(s)) <=>
                g = [k \in 0 .. Len(s) |-> IF k = 0 THEN Begin ELSE Turn(s, g[k - 1])]
  BY <1>2 DEF Looped
<1>5. PICK n \in Nat : n = Len(s)
  OBVIOUS
<1>6. Looped(loop, Begin, f, n)
  <2>1. \E g : Looped(loop, Begin, g, n)
    BY Loops
  <2> QED
    BY <1>3, <1>4, <1>5, <2>1
<1>7. f[0] = Begin
  BY <1>6 DEF Looped
<1>8. ReadAll(s) = f[Len(s)]
  BY <1>3 DEF ReadAll
<1>9. ASSUME NEW k \in 0 .. Len(s) - 1 PROVE f[k + 1] = Turn(s, f[k])
  <2>1. k + 1 \in 0 .. n /\ k + 1 # 0 /\ (k + 1) - 1 = k
    BY <1>5
  <2>2. f[k + 1] = Goes(loop, f[k], k + 1)
    BY <1>6, <2>1 DEF Looped
  <2> QED
    BY <1>2, <2>2
<1> QED
  BY <1>7, <1>8, <1>9

LEMMA NativeSourceLoop ==
    ASSUME NEW s, Len(s) \in Nat
    PROVE  \E f : /\ f[0] = Begin
                  /\ \A k \in 0 .. Len(s) - 1 : f[k + 1] = NativeTurn(s, f[k])
                  /\ NativeReadAll(s) = f[Len(s)]
<1>1. PICK loop : loop = [of |-> "native source", s |-> s]
  OBVIOUS
<1>2. \A x, i : Goes(loop, x, i) = NativeTurn(s, x)
  BY <1>1 DEF Goes
<1>3. PICK f : f = CHOOSE g : g = [k \in 0 .. Len(s) |->
                                     IF k = 0 THEN Begin ELSE NativeTurn(s, g[k - 1])]
  OBVIOUS
<1>4. \A g : Looped(loop, Begin, g, Len(s)) <=>
                g = [k \in 0 .. Len(s) |-> IF k = 0 THEN Begin ELSE NativeTurn(s, g[k - 1])]
  BY <1>2 DEF Looped
<1>5. PICK n \in Nat : n = Len(s)
  OBVIOUS
<1>6. Looped(loop, Begin, f, n)
  <2>1. \E g : Looped(loop, Begin, g, n)
    BY Loops
  <2> QED
    BY <1>3, <1>4, <1>5, <2>1
<1>7. f[0] = Begin
  BY <1>6 DEF Looped
<1>8. NativeReadAll(s) = f[Len(s)]
  BY <1>3 DEF NativeReadAll
<1>9. ASSUME NEW k \in 0 .. Len(s) - 1 PROVE f[k + 1] = NativeTurn(s, f[k])
  <2>1. k + 1 \in 0 .. n /\ k + 1 # 0 /\ (k + 1) - 1 = k
    BY <1>5
  <2>2. f[k + 1] = Goes(loop, f[k], k + 1)
    BY <1>6, <2>1 DEF Looped
  <2> QED
    BY <1>2, <2>2
<1> QED
  BY <1>7, <1>8, <1>9

-----------------------------------------------------------------------------
(* What is read of a source over characters S.  Escapes stand for the      *)
(* marks.                                                                  *)
Marks == {NewLine, "cr", "tab", Quote, Backslash}
Sorts == {"SYMBOL", "IDENT", "INT", "STRING", "EOF"}
Reasons == {"F0001", "F0002", "F1001", "F1002", "F1003", "F1004"}
Spans == [start : Int, end : Int, line : Int, column : Int]
TokensOf(S) == [kind : Sorts, value : Seq(S), span : Spans]
Faults == [code : Reasons, span : Spans]
ScansOf(S) ==
    [at : Int, line : Int, column : Int, tokens : Seq(TokensOf(S)), errors : Seq(Faults)]

LEMMA Grows ==
    ASSUME NEW T, NEW s \in Seq(T), NEW x \in T
    PROVE  /\ Append(s, x) \in Seq(T) /\ Len(Append(s, x)) = Len(s) + 1 /\ Len(s) \in Nat
           /\ Append(s, x)[Len(s) + 1] = x
           /\ \A i \in 1 .. Len(s) : Append(s, x)[i] = s[i]
           /\ DOMAIN Append(s, x) = 1 .. Len(s) + 1 /\ DOMAIN s = 1 .. Len(s)
OBVIOUS

LEMMA SpanFacts ==
    ASSUME NEW S, NEW scan \in ScansOf(S), NEW end \in Int
    PROVE  SpanTo(scan, end) \in Spans
BY DEF ScansOf, SpanTo, Spans

LEMMA PastFacts ==
    ASSUME NEW S, NEW scan \in ScansOf(S), NEW end \in Int
    PROVE  LET past == Past(scan, end) IN
           /\ past \in ScansOf(S) /\ past.at = end /\ past.line = scan.line
           /\ past.column = scan.column + (end - scan.at)
           /\ past.tokens = scan.tokens /\ past.errors = scan.errors
<1>1. PICK column : column = scan.column + (end - scan.at)
  OBVIOUS
<1>2. column \in Int
  BY <1>1 DEF ScansOf
<1>3. Past(scan, end) = [scan EXCEPT !.at = end, !.column = column]
  BY <1>1 DEF Past
<1> QED
  BY <1>1, <1>2, <1>3 DEF ScansOf

Token(scan, kind, value, end) == [kind |-> kind, value |-> value, span |-> SpanTo(scan, end)]
LEMMA EmitFacts ==
    ASSUME NEW S, NEW scan \in ScansOf(S), NEW kind \in Sorts, NEW value \in Seq(S), NEW end \in Int
    PROVE  LET emitted == Emit(scan, kind, value, end) IN
           /\ emitted \in ScansOf(S) /\ emitted.at = end /\ emitted.line = scan.line
           /\ emitted.column = scan.column + (end - scan.at)
           /\ emitted.errors = scan.errors
           /\ emitted.tokens = Append(scan.tokens, Token(scan, kind, value, end))
<1>1. PICK past : past = Past(scan, end)
  OBVIOUS
<1>2. PICK token : token = Token(scan, kind, value, end)
  OBVIOUS
<1>3. token \in TokensOf(S)
  BY <1>2, SpanFacts DEF TokensOf, Token
<1>4. /\ past \in ScansOf(S) /\ past.at = end /\ past.line = scan.line
      /\ past.column = scan.column + (end - scan.at)
      /\ past.tokens = scan.tokens /\ past.errors = scan.errors
  BY <1>1, PastFacts
<1>5. Append(past.tokens, token) \in Seq(TokensOf(S))
  BY <1>3, <1>4, Grows DEF ScansOf
<1>6. Emit(scan, kind, value, end) = [past EXCEPT !.tokens = Append(past.tokens, token)]
  BY <1>1, <1>2 DEF Emit, Token
<1> QED
  BY <1>2, <1>4, <1>5, <1>6 DEF ScansOf

Fault(scan, code, end) == [code |-> code, span |-> SpanTo(scan, end)]
LEMMA ComplainFacts ==
    ASSUME NEW S, NEW scan \in ScansOf(S), NEW code \in Reasons, NEW end \in Int
    PROVE  LET complained == Complain(scan, code, end)
               fault == Fault(scan, code, end)
           IN  /\ complained \in ScansOf(S) /\ complained.at = scan.at
               /\ complained.line = scan.line /\ complained.column = scan.column
               /\ complained.tokens = scan.tokens
               /\ complained.errors = Append(scan.errors, fault)
               /\ Append(scan.errors, fault) \in Seq(Faults) /\ complained.errors # <<>>
               /\ Codes(complained) = Codes(scan) \cup {code}
<1>1. PICK fault : fault = Fault(scan, code, end)
  OBVIOUS
<1>2. fault \in Faults /\ fault.code = code
  BY <1>1, SpanFacts DEF Faults, Fault
<1>3. scan.errors \in Seq(Faults)
  BY DEF ScansOf
<1>4. PICK errors, n : errors = Append(scan.errors, fault) /\ n = Len(scan.errors)
  OBVIOUS
<1>5. /\ errors \in Seq(Faults) /\ errors # <<>> /\ n \in Nat /\ DOMAIN scan.errors = 1 .. n
      /\ DOMAIN errors = 1 .. n + 1 /\ errors[n + 1] = fault
      /\ \A i \in 1 .. n : errors[i] = scan.errors[i]
  <2>1. Len(errors) = n + 1 /\ n \in Nat
    BY <1>2, <1>3, <1>4, Grows
  <2>2. errors # <<>>
    BY <2>1
  <2> QED
    BY <1>2, <1>3, <1>4, <2>1, <2>2, Grows
<1>6. Complain(scan, code, end) = [scan EXCEPT !.errors = errors]
  BY <1>1, <1>4 DEF Complain, Fault
<1>7. PICK complained : complained = [scan EXCEPT !.errors = errors]
  OBVIOUS
<1>8. /\ complained \in ScansOf(S) /\ complained.at = scan.at /\ complained.line = scan.line
      /\ complained.column = scan.column /\ complained.tokens = scan.tokens
      /\ complained.errors = errors
  BY <1>5, <1>7 DEF ScansOf
<1>9. {errors[i].code : i \in DOMAIN errors}
         = {scan.errors[i].code : i \in DOMAIN scan.errors} \cup {code}
  <2>1. \A i \in 1 .. n : i \in DOMAIN errors /\ errors[i].code = scan.errors[i].code
    BY <1>5
  <2>2. n + 1 \in DOMAIN errors /\ errors[n + 1].code = code
    BY <1>2, <1>5
  <2>3. \A i \in DOMAIN errors : i \in 1 .. n \/ i = n + 1
    BY <1>5
  <2> QED
    BY <1>5, <2>1, <2>2, <2>3
<1>10. Codes(complained) = Codes(scan) \cup {code}
  BY <1>8, <1>9 DEF Codes
<1> QED
  BY <1>1, <1>4, <1>5, <1>6, <1>7, <1>8, <1>10

(* A reading that ran into a budget, or into a character outside ASCII.    *)
Marked(scan) == Codes(scan) \cap {"F0001", "F0002", "F1004"} # {}

LEMMA MarkedStays ==
    ASSUME NEW S, NEW scan \in ScansOf(S), Marked(scan)
    PROVE  /\ \A end \in Int : Marked(Past(scan, end))
           /\ \A kind \in Sorts, value \in Seq(S), end \in Int : Marked(Emit(scan, kind, value, end))
           /\ \A code \in Reasons, end \in Int : Marked(Complain(scan, code, end))
<1>1. \A other : other.errors = scan.errors => Marked(other)
  BY DEF Marked, Codes
<1>2. \A code \in Reasons, end \in Int : Marked(Complain(scan, code, end))
  <2>1. ASSUME NEW code \in Reasons, NEW end \in Int PROVE Marked(Complain(scan, code, end))
    <3>1. Codes(Complain(scan, code, end)) = Codes(scan) \cup {code}
      BY ComplainFacts
    <3> QED
      BY <3>1 DEF Marked
  <2> QED
    BY <2>1
<1>3. \A end \in Int : Marked(Past(scan, end))
  BY <1>1, PastFacts
<1>4. \A kind \in Sorts, value \in Seq(S), end \in Int : Marked(Emit(scan, kind, value, end))
  <2>1. ASSUME NEW kind \in Sorts, NEW value \in Seq(S), NEW end \in Int
        PROVE  Emit(scan, kind, value, end).errors = scan.errors
    BY EmitFacts
  <2> QED
    BY <1>1, <2>1
<1> QED
  BY <1>2, <1>3, <1>4

LEMMA RefuseFacts ==
    ASSUME NEW S, NEW scan \in ScansOf(S), NEW span \in Spans
    PROVE  LET refused == Refuse(scan, span) IN
           refused \in ScansOf(S) /\ refused.at = Ended /\ Marked(refused)
<1>1. PICK errors : errors = <<[code |-> "F0001", span |-> span]>>
  OBVIOUS
<1>2. errors \in Seq(Faults) /\ 1 \in DOMAIN errors /\ errors[1].code = "F0001"
  <2>1. [code |-> "F0001", span |-> span] \in Faults
    BY DEF Faults, Reasons
  <2> QED
    BY <1>1, <2>1
<1>3. PICK refused : refused = [scan EXCEPT !.at = Ended, !.errors = errors]
  OBVIOUS
<1>4. refused \in ScansOf(S) /\ refused.at = Ended /\ refused.errors = errors
  <2>1. Ended \in Int
    BY DEF Ended
  <2> QED
    BY <1>2, <1>3, <2>1 DEF ScansOf
<1>5. Marked(refused)
  BY <1>2, <1>4 DEF Marked, Codes
<1> QED
  BY <1>1, <1>3, <1>4, <1>5 DEF Refuse

LEMMA CappedFacts ==
    ASSUME NEW S, NEW scan \in ScansOf(S), TooMany(scan)
    PROVE  Capped(scan) \in ScansOf(S) /\ Capped(scan).at = Ended /\ Marked(Capped(scan))
<1>1. PICK max, old : max = Budget["errors"] /\ old = scan.errors
  OBVIOUS
<1>2. max \in Nat /\ max >= 1
  BY <1>1, BudgetAssumption
<1>3. old \in Seq(Faults) /\ Len(old) \in Nat /\ max <= Len(old)
  BY <1>1, <1>2 DEF ScansOf, TooMany
<1>4. PICK errors : errors = [i \in 1 .. max |->
                                 IF i = max THEN [old[i] EXCEPT !.code = "F0002"] ELSE old[i]]
  OBVIOUS
<1>5. \A i \in 1 .. max : old[i] \in Faults
  BY <1>2, <1>3
<1>6. errors \in Seq(Faults) /\ DOMAIN errors = 1 .. max /\ errors[max].code = "F0002"
  <2>1. [old[max] EXCEPT !.code = "F0002"] \in Faults /\ [old[max] EXCEPT !.code = "F0002"].code = "F0002"
    <3>1. PICK fault : fault = old[max]
      OBVIOUS
    <3>2. fault \in Faults
      BY <1>2, <1>5, <3>1
    <3>3. [fault EXCEPT !.code = "F0002"] \in Faults /\ [fault EXCEPT !.code = "F0002"].code = "F0002"
      BY <3>2 DEF Faults, Reasons
    <3> QED
      BY <3>1, <3>3
  <2>2. \A i \in 1 .. max : errors[i] \in Faults
    BY <1>4, <1>5, <2>1
  <2>3. DOMAIN errors = 1 .. max /\ errors[max] = [old[max] EXCEPT !.code = "F0002"]
    BY <1>2, <1>4
  <2>4. errors \in [1 .. max -> Faults]
    BY <1>4, <2>2
  <2> QED
    BY <1>2, <2>1, <2>3, <2>4
<1>7. PICK capped : capped = [scan EXCEPT !.at = Ended, !.errors = errors]
  OBVIOUS
<1>8. capped = Capped(scan)
  BY <1>1, <1>4, <1>7 DEF Capped, ScansOf
<1>9. capped \in ScansOf(S) /\ capped.at = Ended /\ capped.errors = errors
  <2>1. Ended \in Int
    BY DEF Ended
  <2> QED
    BY <1>6, <1>7, <2>1 DEF ScansOf
<1>10. Marked(capped)
  BY <1>2, <1>6, <1>9 DEF Marked, Codes
<1> QED
  BY <1>8, <1>9, <1>10

(* A token is kept, or the reading ends.                                   *)
LEMMA KeepFacts ==
    ASSUME NEW S, NEW scan \in ScansOf(S), NEW kind \in Sorts, NEW value \in Seq(S), NEW end \in Int
    PROVE  LET kept == Keep(scan, kind, value, end) IN
           /\ kept \in ScansOf(S)
           /\ \/ kept = Emit(scan, kind, value, end)
              \/ kept.at = Ended /\ Marked(kept)
<1>1. SpanTo(scan, end) \in Spans
  BY SpanFacts
<1>2. PICK span : span = [start |-> end, end |-> end, line |-> scan.line, column |-> Past(scan, end).column]
  OBVIOUS
<1>3. span \in Spans
  BY <1>2, PastFacts DEF Spans, ScansOf
<1>4. \/ Keep(scan, kind, value, end) = Refuse(scan, SpanTo(scan, end))
      \/ Keep(scan, kind, value, end) = Refuse(scan, span)
      \/ Keep(scan, kind, value, end) = Emit(scan, kind, value, end)
  BY <1>2 DEF Keep
<1>5. Emit(scan, kind, value, end) \in ScansOf(S)
  BY EmitFacts
<1>6. \A place \in Spans :
         Refuse(scan, place) \in ScansOf(S) /\ Refuse(scan, place).at = Ended /\ Marked(Refuse(scan, place))
  BY RefuseFacts
<1> QED
  BY <1>1, <1>3, <1>4, <1>5, <1>6

-----------------------------------------------------------------------------
(* Where the run of a class ends.                                          *)
LEMMA RunEndFacts ==
    ASSUME NEW S, NEW s \in Seq(S), NEW i \in 1 .. Len(s), NEW class
    PROVE  /\ RunEnd(s, i, class) \in i .. Len(s) + 1
           /\ \A k \in i .. RunEnd(s, i, class) - 1 : s[k] \in class
           /\ RunEnd(s, i, class) <= Len(s) => s[RunEnd(s, i, class)] \notin class
           /\ s[i] \in class => RunEnd(s, i, class) >= i + 1
<1>1. Len(s) \in Nat /\ i \in Nat /\ i >= 1 /\ i <= Len(s)
  OBVIOUS
<1>2. \E end \in i .. Len(s) + 1 :
         (\A k \in i .. end - 1 : s[k] \in class) /\ (end <= Len(s) => s[end] \notin class)
  <2>1. SUFFICES ASSUME \A end \in i .. Len(s) + 1 :
                           ~((\A k \in i .. end - 1 : s[k] \in class)
                               /\ (end <= Len(s) => s[end] \notin class))
                 PROVE  FALSE
    OBVIOUS
  <2>2. PICK n : n = Len(s) + 1 - i
    OBVIOUS
  <2> DEFINE U == {m \in 0 .. n : \A k \in i .. i + m - 1 : s[k] \in class}
  <2>3. n \in Nat
    BY <1>1, <2>2
  <2>4. 0 \in U
    BY <1>1, <2>3
  <2>5. ASSUME NEW m \in 0 .. n - 1, m \in U PROVE m + 1 \in U
    <3>1. i + m \in i .. Len(s) + 1 /\ i + m <= Len(s) /\ m + 1 \in 0 .. n
      BY <1>1, <2>2, <2>3
    <3>2. s[i + m] \in class
      BY <2>1, <2>5, <3>1
    <3>3. \A k \in i .. i + (m + 1) - 1 : k = i + m \/ k \in i .. i + m - 1
      BY <1>1
    <3> QED
      BY <2>5, <3>1, <3>2, <3>3
  <2> HIDE DEF U
  <2>6. n \in U
    <3>1. \A m \in 0 .. n : m \in U
      BY <2>3, <2>4, <2>5, Climbs
    <3> QED
      BY <2>3, <3>1
  <2>7. Len(s) + 1 \in i .. Len(s) + 1 /\ i + n - 1 = (Len(s) + 1) - 1 /\ ~(Len(s) + 1 <= Len(s))
    BY <1>1, <2>2
  <2> QED
    BY <2>1, <2>6, <2>7 DEF U
<1>3. PICK end : end = RunEnd(s, i, class)
  OBVIOUS
<1>4. /\ end \in i .. Len(s) + 1 /\ \A k \in i .. end - 1 : s[k] \in class
      /\ end <= Len(s) => s[end] \notin class
  BY <1>2, <1>3 DEF RunEnd
<1>5. s[i] \in class => end # i
  BY <1>1, <1>4
<1> QED
  BY <1>1, <1>3, <1>4, <1>5

(* A run of more characters is longer only by one of the others.           *)
LEMMA LongerRun ==
    ASSUME NEW S, NEW s \in Seq(S), NEW i \in 1 .. Len(s), NEW class, NEW wider,
           class \subseteq wider, RunEnd(s, i, class) # RunEnd(s, i, wider)
    PROVE  RunEnd(s, i, class) <= Len(s) /\ s[RunEnd(s, i, class)] \in wider \ class
<1>1. PICK a, b : a = RunEnd(s, i, class) /\ b = RunEnd(s, i, wider)
  OBVIOUS
<1>2. /\ a \in i .. Len(s) + 1 /\ \A k \in i .. a - 1 : s[k] \in class
      /\ a <= Len(s) => s[a] \notin class
  BY <1>1, RunEndFacts
<1>3. /\ b \in i .. Len(s) + 1 /\ \A k \in i .. b - 1 : s[k] \in wider
      /\ b <= Len(s) => s[b] \notin wider
  BY <1>1, RunEndFacts
<1>4. a # b /\ Len(s) \in Nat
  BY <1>1
<1>5. ~(b < a)
  <2>1. SUFFICES ASSUME b < a PROVE FALSE
    OBVIOUS
  <2>2. b \in i .. a - 1 /\ b <= Len(s)
    BY <1>2, <1>3, <1>4, <2>1
  <2> QED
    BY <1>2, <1>3, <2>2
<1>6. a < b /\ a \in i .. b - 1 /\ a <= Len(s)
  BY <1>2, <1>3, <1>4, <1>5
<1> QED
  BY <1>1, <1>2, <1>3, <1>6

-----------------------------------------------------------------------------
(* Literals.                                                               *)
LiteralsOf(S) == [scan : ScansOf(S), text : Seq(S), end : Int, closed : BOOLEAN]

(* What a turn inside a literal changes.                                   *)
Nothing == <<>>
One(c) == <<c>>
Closed(p, end) == [p EXCEPT !.end = end, !.closed = TRUE]
Moved(p, end, more) == [p EXCEPT !.end = end, !.text = @ \o more]
Warned(p, end, scan) == [p EXCEPT !.end = end, !.text = @ \o <<>>, !.scan = scan]
LEMMA LiteralFields ==
    ASSUME NEW S, NEW p \in LiteralsOf(S)
    PROVE  p.scan \in ScansOf(S) /\ p.text \in Seq(S) /\ p.end \in Int /\ p.closed \in BOOLEAN
BY DEF LiteralsOf

LEMMA LiteralMoved ==
    ASSUME NEW S, NEW p \in LiteralsOf(S), NEW end \in Int, NEW more \in Seq(S)
    PROVE  LET q == Moved(p, end, more) IN
           /\ q \in LiteralsOf(S) /\ q.scan = p.scan /\ q.text = p.text \o more /\ q.end = end
           /\ q.closed = p.closed
<1>1. PICK text : text = p.text \o more
  OBVIOUS
<1>2. text \in Seq(S)
  BY <1>1, LiteralFields
<1>3. Moved(p, end, more) = [p EXCEPT !.end = end, !.text = text]
  BY <1>1 DEF Moved, LiteralsOf
<1> QED
  BY <1>1, <1>2, <1>3 DEF LiteralsOf

LEMMA LiteralWarned ==
    ASSUME NEW S, NEW p \in LiteralsOf(S), NEW end \in Int, NEW scan \in ScansOf(S)
    PROVE  LET q == Warned(p, end, scan) IN
           /\ q \in LiteralsOf(S) /\ q.scan = scan /\ q.text = p.text \o <<>> /\ q.end = end
           /\ q.closed = p.closed
<1>1. PICK text : text = p.text \o <<>>
  OBVIOUS
<1>2. text \in Seq(S)
  BY <1>1, LiteralFields
<1>3. Warned(p, end, scan) = [p EXCEPT !.end = end, !.text = text, !.scan = scan]
  BY <1>1 DEF Warned, LiteralsOf
<1> QED
  BY <1>1, <1>2, <1>3 DEF LiteralsOf

LEMMA LiteralClosed ==
    ASSUME NEW S, NEW p \in LiteralsOf(S), NEW end \in Int
    PROVE  LET q == Closed(p, end) IN
           q \in LiteralsOf(S) /\ q.scan = p.scan /\ q.text = p.text /\ q.end = end /\ q.closed
BY DEF LiteralsOf, Closed

(* What a turn inside a literal does with the character it is at.          *)
LEMMA InsideCases ==
    ASSUME NEW S, NEW s \in Seq(S), NEW p \in LiteralsOf(S), p.end >= 1, ~Over(s, p)
    PROVE  LET i == p.end IN
           /\ i \in 1 .. Len(s) /\ s[i] \in S /\ ~p.closed /\ s[i] # NewLine
           /\ s[i] = Quote => Inside(s, p) = Closed(p, i + 1)
           /\ s[i] = Backslash /\ i = Len(s) => Inside(s, p) = Moved(p, i + 1, Nothing)
           /\ s[i] = Backslash /\ i < Len(s) /\ s[i + 1] \in DOMAIN Escapes =>
                 Inside(s, p) = Moved(p, i + 2, One(Escapes[s[i + 1]]))
           /\ s[i] = Backslash /\ i < Len(s) /\ s[i + 1] \notin DOMAIN Escapes =>
                 Inside(s, p) = Warned(p, i + 2, Complain(p.scan, "F1003", i + 1))
           /\ s[i] \notin {Quote, Backslash} => Inside(s, p) = Moved(p, i + 1, One(s[i]))
<1>1. PICK i \in Int : i = p.end /\ i >= 1
  BY DEF LiteralsOf
<1>2. Len(s) \in Nat
  OBVIOUS
<1>3. i \in 1 .. Len(s) /\ s[i] \in S /\ ~p.closed /\ s[i] # NewLine
  BY <1>1, <1>2 DEF Over
<1>4. Quote # Backslash
  BY DEF Quote, Backslash
<1>5. s[i] = Quote => Inside(s, p) = Closed(p, i + 1)
  BY <1>1, <1>4 DEF Inside, Closed
<1>6. s[i] = Backslash /\ i = Len(s) => Inside(s, p) = Moved(p, i + 1, Nothing)
  BY <1>1, <1>4 DEF Inside, Moved, One, Nothing, LiteralsOf
<1>7. s[i] = Backslash /\ i < Len(s) /\ s[i + 1] \in DOMAIN Escapes =>
         Inside(s, p) = Moved(p, i + 2, One(Escapes[s[i + 1]]))
  BY <1>1, <1>2, <1>4 DEF Inside, Moved, One, Nothing, LiteralsOf
<1>8. ASSUME s[i] = Backslash, i < Len(s), s[i + 1] \notin DOMAIN Escapes
      PROVE  Inside(s, p) = Warned(p, i + 2, Complain(p.scan, "F1003", i + 1))
  <2>1. PICK r : r = [p EXCEPT !.end = i + 2, !.text = p.text \o <<>>]
    OBVIOUS
  <2>2. Inside(s, p) = [r EXCEPT !.scan = Complain(@, "F1003", i + 1)]
    BY <1>1, <1>2, <1>4, <1>8, <2>1 DEF Inside, LiteralsOf
  <2>3. r.scan = p.scan
    BY <2>1 DEF LiteralsOf
  <2>4. Inside(s, p) = [r EXCEPT !.scan = Complain(p.scan, "F1003", i + 1)]
    BY <2>1, <2>2, <2>3 DEF LiteralsOf
  <2> QED
    BY <2>1, <2>4 DEF Warned, LiteralsOf
<1>9. s[i] \notin {Quote, Backslash} => Inside(s, p) = Moved(p, i + 1, One(s[i]))
  BY <1>1, <1>4 DEF Inside, Moved, One, Nothing, LiteralsOf
<1> QED
  BY <1>1, <1>3, <1>5, <1>6, <1>7, <1>8, <1>9

LEMMA MoreText ==
    ASSUME NEW S, Marks \subseteq S
    PROVE  /\ Nothing \in Seq(S)
           /\ \A c \in S : One(c) \in Seq(S)
           /\ \A c \in DOMAIN Escapes : One(Escapes[c]) \in Seq(S)
<1>1. \A c \in DOMAIN Escapes : Escapes[c] \in S
  BY DEF Escapes, Marks
<1>2. \A c \in S : One(c) \in Seq(S)
  BY DEF One
<1> QED
  BY <1>1, <1>2 DEF Nothing

LEMMA InsideFacts ==
    ASSUME NEW S, Marks \subseteq S, NEW s \in Seq(S), NEW p \in LiteralsOf(S), p.end >= 1
    PROVE  /\ Inside(s, p) \in LiteralsOf(S) /\ Inside(s, p).end >= p.end
           /\ Over(s, p) => Inside(s, p) = p
<1>1. Over(s, p) => Inside(s, p) = p
  BY DEF Inside
<1>2. ASSUME ~Over(s, p) PROVE Inside(s, p) \in LiteralsOf(S) /\ Inside(s, p).end >= p.end
  <2>1. PICK i \in Int : i = p.end /\ i >= 1
    BY LiteralFields
  <2>2. PICK j \in Int, k \in Int : j = i + 1 /\ k = i + 2 /\ j >= 1 /\ k >= 1
    BY <2>1
  <2>3. PICK c : c = s[i]
    OBVIOUS
  <2>4. i \in 1 .. Len(s) /\ c \in S
    BY <1>2, <2>1, <2>3, InsideCases
  <2>5. PICK q : q = Inside(s, p)
    OBVIOUS
  <2>6. SUFFICES q \in LiteralsOf(S) /\ (q.end = j \/ q.end = k)
    BY <2>1, <2>2, <2>5
  <2>7. p.text \in Seq(S) /\ p.scan \in ScansOf(S)
    BY LiteralFields
  <2>8. Nothing \in Seq(S) /\ One(c) \in Seq(S) /\ \A e \in DOMAIN Escapes : One(Escapes[e]) \in Seq(S)
    BY <2>4, MoreText
  <2>9. PICK told : told = Complain(p.scan, "F1003", j)
    OBVIOUS
  <2>10. told \in ScansOf(S)
    BY <2>7, <2>9, ComplainFacts DEF Reasons
  <2>11. CASE c = Quote
    <3>1. q = Closed(p, j)
      BY <1>2, <2>1, <2>2, <2>3, <2>11, <2>5, InsideCases
    <3> QED
      BY <2>2, <3>1, LiteralClosed
  <2>12. CASE c = Backslash /\ i = Len(s)
    <3>1. q = Moved(p, j, Nothing)
      BY <1>2, <2>1, <2>2, <2>3, <2>12, <2>5, InsideCases
    <3> QED
      BY <2>2, <2>8, <3>1, LiteralMoved
  <2>13. CASE c = Backslash /\ i < Len(s) /\ s[i + 1] \in DOMAIN Escapes
    <3>1. PICK more : more = One(Escapes[s[i + 1]])
      OBVIOUS
    <3>2. more \in Seq(S)
      BY <2>8, <2>13, <3>1
    <3>3. q = Moved(p, k, more)
      BY <1>2, <2>1, <2>2, <2>3, <2>13, <3>1, <2>5, InsideCases
    <3> QED
      BY <2>2, <3>2, <3>3, LiteralMoved
  <2>14. CASE c = Backslash /\ i < Len(s) /\ s[i + 1] \notin DOMAIN Escapes
    <3>1. q = Warned(p, k, told)
      BY <1>2, <2>1, <2>2, <2>3, <2>9, <2>14, <2>5, InsideCases
    <3> QED
      BY <2>2, <2>10, <3>1, LiteralWarned
  <2>15. CASE c \notin {Quote, Backslash}
    <3>1. q = Moved(p, j, One(c))
      BY <1>2, <2>1, <2>2, <2>3, <2>15, <2>5, InsideCases
    <3> QED
      BY <2>2, <2>8, <3>1, LiteralMoved
  <2> QED
    BY <2>4, <2>11, <2>12, <2>13, <2>14, <2>15
<1> QED
  <2>1. p.end >= p.end
    BY LiteralFields
  <2> QED
    BY <1>1, <1>2, <2>1

NativeLiteralsOf(S) == [scan : ScansOf(S), text : Seq(S), end : Int, done : BOOLEAN]
Left(n, scan) == [n EXCEPT !.scan = scan, !.done = TRUE]
LEMMA NativeLiteralFields ==
    ASSUME NEW S, NEW n \in NativeLiteralsOf(S)
    PROVE  n.scan \in ScansOf(S) /\ n.text \in Seq(S) /\ n.end \in Int /\ n.done \in BOOLEAN
BY DEF NativeLiteralsOf

LEMMA NativeLiteralMoved ==
    ASSUME NEW S, NEW n \in NativeLiteralsOf(S), NEW end \in Int, NEW more \in Seq(S)
    PROVE  LET q == Moved(n, end, more) IN
           /\ q \in NativeLiteralsOf(S) /\ q.scan = n.scan /\ q.text = n.text \o more /\ q.end = end
           /\ q.done = n.done
<1>1. PICK text : text = n.text \o more
  OBVIOUS
<1>2. text \in Seq(S)
  BY <1>1, NativeLiteralFields
<1>3. Moved(n, end, more) = [n EXCEPT !.end = end, !.text = text]
  BY <1>1 DEF Moved, NativeLiteralsOf
<1> QED
  BY <1>1, <1>2, <1>3 DEF NativeLiteralsOf

LEMMA NativeLiteralWarned ==
    ASSUME NEW S, NEW n \in NativeLiteralsOf(S), NEW end \in Int, NEW scan \in ScansOf(S)
    PROVE  LET q == Warned(n, end, scan) IN
           /\ q \in NativeLiteralsOf(S) /\ q.scan = scan /\ q.text = n.text \o <<>> /\ q.end = end
           /\ q.done = n.done
<1>1. PICK text : text = n.text \o <<>>
  OBVIOUS
<1>2. text \in Seq(S)
  BY <1>1, NativeLiteralFields
<1>3. Warned(n, end, scan) = [n EXCEPT !.end = end, !.text = text, !.scan = scan]
  BY <1>1 DEF Warned, NativeLiteralsOf
<1> QED
  BY <1>1, <1>2, <1>3 DEF NativeLiteralsOf

(* What a native turn inside a literal does.                               *)
Unclosed(n, end) == Keep(Complain(n.scan, "F1002", end), "STRING", n.text, end)
LEMMA NativeInsideCases ==
    ASSUME NEW S, NEW s \in Seq(S), NEW n \in NativeLiteralsOf(S), n.end >= 1, ~n.done
    PROVE  LET i == n.end IN
           /\ i > Len(s) => NativeInside(s, n) = Left(n, Unclosed(n, i))
           /\ i <= Len(s) /\ TooMany(n.scan) => NativeInside(s, n) = Left(n, Capped(n.scan))
           /\ i <= Len(s) /\ ~TooMany(n.scan) =>
                \/ NativeInside(s, n) = Left(n, Refuse(n.scan, SpanTo(n.scan, i)))
                \/ /\ s[i] = Quote => NativeInside(s, n) = Left(n, Keep(n.scan, "STRING", n.text, i + 1))
                   /\ s[i] = NewLine => NativeInside(s, n) = Left(n, Unclosed(n, i))
                   /\ s[i] = Backslash /\ i = Len(s) =>
                         NativeInside(s, n) = Left(n, Unclosed(n, i + 1))
                   /\ s[i] = Backslash /\ i < Len(s) /\ s[i + 1] \in DOMAIN Escapes =>
                         NativeInside(s, n) = Moved(n, i + 2, One(Escapes[s[i + 1]]))
                   /\ s[i] = Backslash /\ i < Len(s) /\ s[i + 1] \notin DOMAIN Escapes =>
                         NativeInside(s, n) = Warned(n, i + 2, Complain(n.scan, "F1003", i + 1))
                   /\ s[i] \notin {Quote, NewLine, Backslash} =>
                         NativeInside(s, n) = Moved(n, i + 1, One(s[i]))
<1>1. PICK i \in Int : i = n.end /\ i >= 1
  BY DEF NativeLiteralsOf
<1>2. Len(s) \in Nat
  OBVIOUS
<1>3. i > Len(s) => NativeInside(s, n) = Left(n, Unclosed(n, i))
  BY <1>1, <1>2 DEF NativeInside, Left, Unclosed
<1>4. i <= Len(s) /\ TooMany(n.scan) => NativeInside(s, n) = Left(n, Capped(n.scan))
  BY <1>1, <1>2 DEF NativeInside, Left
<1>5. ASSUME i <= Len(s), ~TooMany(n.scan), Bytes(n.text) > Budget["STRING"]
      PROVE  NativeInside(s, n) = Left(n, Refuse(n.scan, SpanTo(n.scan, i)))
  BY <1>1, <1>2, <1>5 DEF NativeInside, Left
<1>6. ASSUME i <= Len(s), ~TooMany(n.scan), ~(Bytes(n.text) > Budget["STRING"])
      PROVE  /\ s[i] = Quote => NativeInside(s, n) = Left(n, Keep(n.scan, "STRING", n.text, i + 1))
             /\ s[i] = NewLine => NativeInside(s, n) = Left(n, Unclosed(n, i))
             /\ s[i] = Backslash /\ i = Len(s) =>
                   NativeInside(s, n) = Left(n, Unclosed(n, i + 1))
             /\ s[i] = Backslash /\ i < Len(s) /\ s[i + 1] \in DOMAIN Escapes =>
                   NativeInside(s, n) = Moved(n, i + 2, One(Escapes[s[i + 1]]))
             /\ s[i] = Backslash /\ i < Len(s) /\ s[i + 1] \notin DOMAIN Escapes =>
                   NativeInside(s, n) = Warned(n, i + 2, Complain(n.scan, "F1003", i + 1))
             /\ s[i] \notin {Quote, NewLine, Backslash} =>
                   NativeInside(s, n) = Moved(n, i + 1, One(s[i]))
  <2>1. Quote # NewLine /\ Quote # Backslash /\ NewLine # Backslash
    BY DEF Quote, NewLine, Backslash
  <2>2. s[i] = Quote => NativeInside(s, n) = Left(n, Keep(n.scan, "STRING", n.text, i + 1))
    BY <1>1, <1>2, <1>6 DEF NativeInside, Left
  <2>3. s[i] = NewLine => NativeInside(s, n) = Left(n, Unclosed(n, i))
    BY <1>1, <1>2, <1>6, <2>1 DEF NativeInside, Left, Unclosed
  <2>4. s[i] = Backslash /\ i = Len(s) => NativeInside(s, n) = Left(n, Unclosed(n, i + 1))
    BY <1>1, <1>2, <1>6, <2>1 DEF NativeInside, Left, Unclosed
  <2>5. s[i] = Backslash /\ i < Len(s) /\ s[i + 1] \in DOMAIN Escapes =>
           NativeInside(s, n) = Moved(n, i + 2, One(Escapes[s[i + 1]]))
    BY <1>1, <1>2, <1>6, <2>1 DEF NativeInside, Moved, One, NativeLiteralsOf
  <2>6. ASSUME s[i] = Backslash, i < Len(s), s[i + 1] \notin DOMAIN Escapes
        PROVE  NativeInside(s, n) = Warned(n, i + 2, Complain(n.scan, "F1003", i + 1))
    <3>1. PICK r : r = [n EXCEPT !.end = i + 2, !.text = n.text \o <<>>]
      OBVIOUS
    <3>2. NativeInside(s, n) = [r EXCEPT !.scan = Complain(n.scan, "F1003", i + 1)]
      BY <1>1, <1>2, <1>6, <2>1, <2>6, <3>1 DEF NativeInside, NativeLiteralsOf
    <3> QED
      BY <3>1, <3>2 DEF Warned, NativeLiteralsOf
  <2>7. s[i] \notin {Quote, NewLine, Backslash} =>
           NativeInside(s, n) = Moved(n, i + 1, One(s[i]))
    BY <1>1, <1>2, <1>6 DEF NativeInside, Moved, One, NativeLiteralsOf
  <2> QED
    BY <2>2, <2>3, <2>4, <2>5, <2>6, <2>7
<1> QED
  BY <1>1, <1>3, <1>4, <1>5, <1>6

(* A token of a literal, closed or not.                                    *)
LEMMA UnclosedFacts ==
    ASSUME NEW S, NEW n \in NativeLiteralsOf(S), NEW end \in Int
    PROVE  /\ Unclosed(n, end) \in ScansOf(S)
           /\ \/ Marked(Unclosed(n, end))
              \/ Unclosed(n, end) = Emit(Complain(n.scan, "F1002", end), "STRING", n.text, end)
           /\ Marked(n.scan) => Marked(Unclosed(n, end))
<1>1. n.scan \in ScansOf(S) /\ n.text \in Seq(S) /\ "STRING" \in Sorts /\ "F1002" \in Reasons
  BY NativeLiteralFields DEF Sorts, Reasons
<1>2. PICK scan : scan = Complain(n.scan, "F1002", end)
  OBVIOUS
<1>3. scan \in ScansOf(S) /\ (Marked(n.scan) => Marked(scan))
  BY <1>1, <1>2, ComplainFacts, MarkedStays
<1>4. PICK kept : kept = Keep(scan, "STRING", n.text, end)
  OBVIOUS
<1>5. kept \in ScansOf(S) /\ (Marked(kept) \/ kept = Emit(scan, "STRING", n.text, end))
  BY <1>1, <1>3, <1>4, KeepFacts
<1>6. Marked(scan) => Marked(kept)
  BY <1>1, <1>3, <1>5, MarkedStays
<1> QED
  BY <1>2, <1>3, <1>4, <1>5, <1>6 DEF Unclosed

-----------------------------------------------------------------------------
(* Two readings of one source that got as far and were told the same; they *)
(* found the same tokens unless there are errors.                          *)
Alike(n, p) ==
    /\ n.at = p.at /\ n.line = p.line /\ n.column = p.column /\ n.errors = p.errors
    /\ n.errors = <<>> => n.tokens = p.tokens

LEMMA AlikeFacts ==
    ASSUME NEW n, NEW p, Alike(n, p)
    PROVE  \A end : SpanTo(n, end) = SpanTo(p, end)
BY DEF Alike, SpanTo

LEMMA AlikePast ==
    ASSUME NEW S, NEW n \in ScansOf(S), NEW p \in ScansOf(S), NEW end \in Int, Alike(n, p)
    PROVE  Alike(Past(n, end), Past(p, end))
<1>1. PICK a : a = Past(n, end)
  OBVIOUS
<1>2. PICK b : b = Past(p, end)
  OBVIOUS
<1>3. /\ a.at = end /\ a.line = n.line /\ a.column = n.column + (end - n.at)
      /\ a.tokens = n.tokens /\ a.errors = n.errors
  BY <1>1, PastFacts
<1>4. /\ b.at = end /\ b.line = p.line /\ b.column = p.column + (end - p.at)
      /\ b.tokens = p.tokens /\ b.errors = p.errors
  BY <1>2, PastFacts
<1> QED
  BY <1>1, <1>2, <1>3, <1>4 DEF Alike

LEMMA AlikeEmit ==
    ASSUME NEW S, NEW n \in ScansOf(S), NEW p \in ScansOf(S), NEW end \in Int,
           NEW kind \in Sorts, NEW value \in Seq(S), Alike(n, p)
    PROVE  Alike(Emit(n, kind, value, end), Emit(p, kind, value, end))
<1>1. PICK a, t : a = Emit(n, kind, value, end) /\ t = Token(n, kind, value, end)
  OBVIOUS
<1>2. PICK b, u : b = Emit(p, kind, value, end) /\ u = Token(p, kind, value, end)
  OBVIOUS
<1>3. /\ a.at = end /\ a.line = n.line /\ a.column = n.column + (end - n.at)
      /\ a.tokens = Append(n.tokens, t) /\ a.errors = n.errors
  BY <1>1, EmitFacts
<1>4. /\ b.at = end /\ b.line = p.line /\ b.column = p.column + (end - p.at)
      /\ b.tokens = Append(p.tokens, u) /\ b.errors = p.errors
  BY <1>2, EmitFacts
<1>5. t = u
  BY <1>1, <1>2, AlikeFacts DEF Token
<1> QED
  BY <1>1, <1>2, <1>3, <1>4, <1>5 DEF Alike

LEMMA AlikeComplain ==
    ASSUME NEW S, NEW n \in ScansOf(S), NEW p \in ScansOf(S), NEW end \in Int,
           NEW code \in Reasons, Alike(n, p)
    PROVE  Alike(Complain(n, code, end), Complain(p, code, end))
<1>1. PICK a, t : a = Complain(n, code, end) /\ t = Fault(n, code, end)
  OBVIOUS
<1>2. PICK b, u : b = Complain(p, code, end) /\ u = Fault(p, code, end)
  OBVIOUS
<1>3. /\ a.at = n.at /\ a.line = n.line /\ a.column = n.column
      /\ a.errors = Append(n.errors, t) /\ a.errors # <<>>
  BY <1>1, ComplainFacts
<1>4. /\ b.at = p.at /\ b.line = p.line /\ b.column = p.column
      /\ b.errors = Append(p.errors, u)
  BY <1>2, ComplainFacts
<1>5. t = u
  BY <1>1, <1>2, AlikeFacts DEF Fault
<1> QED
  BY <1>1, <1>2, <1>3, <1>4, <1>5 DEF Alike

(* A literal that is not closed makes a token in one of them only.         *)
LEMMA AlikeUnclosed ==
    ASSUME NEW S, NEW n \in ScansOf(S), NEW p \in ScansOf(S), NEW end \in Int,
           NEW value \in Seq(S), Alike(n, p)
    PROVE  Alike(Emit(Complain(n, "F1002", end), "STRING", value, end),
                 Past(Complain(p, "F1002", end), end))
<1>1. PICK a, b : a = Complain(n, "F1002", end) /\ b = Complain(p, "F1002", end)
  OBVIOUS
<1>2. "STRING" \in Sorts /\ "F1002" \in Reasons
  BY DEF Sorts, Reasons
<1>3. a \in ScansOf(S) /\ b \in ScansOf(S) /\ a.errors # <<>>
  BY <1>1, <1>2, ComplainFacts
<1>4. Alike(a, b)
  BY <1>1, <1>2, AlikeComplain
<1>5. PICK c, d : c = Emit(a, "STRING", value, end) /\ d = Past(b, end)
  OBVIOUS
<1>6. c.at = end /\ c.line = a.line /\ c.column = a.column + (end - a.at) /\ c.errors = a.errors
  BY <1>2, <1>3, <1>5, EmitFacts
<1>7. d.at = end /\ d.line = b.line /\ d.column = b.column + (end - b.at) /\ d.errors = b.errors
  BY <1>3, <1>5, PastFacts
<1> QED
  BY <1>1, <1>3, <1>4, <1>5, <1>6, <1>7 DEF Alike

-----------------------------------------------------------------------------
LEMMA NativeInsideFacts ==
    ASSUME NEW S, Marks \subseteq S, NEW s \in Seq(S), NEW n \in NativeLiteralsOf(S), n.end >= 1
    PROVE  LET q == NativeInside(s, n) IN
           /\ q \in NativeLiteralsOf(S) /\ q.end >= 1
           /\ n.done => q = n
           /\ Marked(n.scan) => Marked(q.scan)
<1>1. CASE n.done
  BY <1>1 DEF NativeInside
<1>2. CASE ~n.done
  <2>1. PICK i \in Int : i = n.end /\ i >= 1
    BY NativeLiteralFields
  <2>2. PICK j \in Int, k \in Int : j = i + 1 /\ k = i + 2 /\ j >= 1 /\ k >= 1
    BY <2>1
  <2>3. PICK c, q : c = s[i] /\ q = NativeInside(s, n)
    OBVIOUS
  <2>4. SUFFICES q \in NativeLiteralsOf(S) /\ q.end >= 1 /\ (Marked(n.scan) => Marked(q.scan))
    BY <1>2, <2>3
  <2>5. n.text \in Seq(S) /\ n.scan \in ScansOf(S) /\ Len(s) \in Nat
    BY NativeLiteralFields
  <2>6. ASSUME NEW scan \in ScansOf(S), Marked(n.scan) => Marked(scan), q = Left(n, scan)
        PROVE  q \in NativeLiteralsOf(S) /\ q.end >= 1 /\ (Marked(n.scan) => Marked(q.scan))
    <3>1. q \in NativeLiteralsOf(S) /\ q.scan = scan /\ q.end = n.end
      BY <2>6 DEF Left, NativeLiteralsOf
    <3> QED
      BY <2>6, <3>1
  <2>7. ASSUME NEW end \in {i, j}, q = Left(n, Unclosed(n, end))
        PROVE  q \in NativeLiteralsOf(S) /\ q.end >= 1 /\ (Marked(n.scan) => Marked(q.scan))
    <3>1. end \in Int
      BY <2>1, <2>2
    <3>2. Unclosed(n, end) \in ScansOf(S) /\ (Marked(n.scan) => Marked(Unclosed(n, end)))
      BY <3>1, UnclosedFacts
    <3> QED
      BY <2>6, <2>7, <3>2
  <2>8. CASE i > Len(s)
    BY <1>2, <2>1, <2>3, <2>7, <2>8, NativeInsideCases
  <2>9. CASE i <= Len(s) /\ TooMany(n.scan)
    <3>1. q = Left(n, Capped(n.scan))
      BY <1>2, <2>1, <2>3, <2>9, NativeInsideCases
    <3>2. Capped(n.scan) \in ScansOf(S) /\ Marked(Capped(n.scan))
      BY <2>5, <2>9, CappedFacts
    <3> QED
      BY <2>6, <3>1, <3>2
  <2>10. CASE q = Left(n, Refuse(n.scan, SpanTo(n.scan, i)))
    <3>1. SpanTo(n.scan, i) \in Spans
      BY <2>1, <2>5, SpanFacts
    <3>2. PICK scan : scan = Refuse(n.scan, SpanTo(n.scan, i))
      OBVIOUS
    <3>3. scan \in ScansOf(S) /\ Marked(scan)
      BY <2>5, <3>1, <3>2, RefuseFacts
    <3> QED
      BY <2>6, <2>10, <3>2, <3>3
  <2>11. CASE i <= Len(s) /\ ~TooMany(n.scan) /\ q # Left(n, Refuse(n.scan, SpanTo(n.scan, i)))
    <3>1. c \in S
      BY <2>1, <2>3, <2>5, <2>11
    <3>2. Nothing \in Seq(S) /\ One(c) \in Seq(S) /\ \A e \in DOMAIN Escapes : One(Escapes[e]) \in Seq(S)
      BY <3>1, MoreText
    <3>3. CASE c = Quote
      <4>1. q = Left(n, Keep(n.scan, "STRING", n.text, j))
        BY <1>2, <2>1, <2>2, <2>3, <2>11, <3>3, NativeInsideCases
      <4>2. PICK kept : kept = Keep(n.scan, "STRING", n.text, j)
        OBVIOUS
      <4>3. "STRING" \in Sorts
        BY DEF Sorts
      <4>4. kept \in ScansOf(S) /\ (Marked(kept) \/ kept = Emit(n.scan, "STRING", n.text, j))
        BY <2>2, <2>5, <4>2, <4>3, KeepFacts
      <4>5. Marked(n.scan) => Marked(kept)
        BY <2>2, <2>5, <4>3, <4>4, MarkedStays
      <4> QED
        BY <2>6, <4>1, <4>2, <4>4, <4>5
    <3>4. CASE c = NewLine
      BY <1>2, <2>1, <2>3, <2>7, <2>11, <3>4, NativeInsideCases
    <3>5. CASE c = Backslash /\ i = Len(s)
      BY <1>2, <2>1, <2>2, <2>3, <2>7, <2>11, <3>5, NativeInsideCases
    <3>6. CASE c = Backslash /\ i < Len(s) /\ s[i + 1] \in DOMAIN Escapes
      <4>1. PICK more : more = One(Escapes[s[i + 1]])
        OBVIOUS
      <4>2. more \in Seq(S)
        BY <3>2, <3>6, <4>1
      <4>3. q = Moved(n, k, more)
        BY <1>2, <2>1, <2>2, <2>3, <2>11, <3>6, <4>1, NativeInsideCases
      <4> QED
        BY <2>2, <4>2, <4>3, NativeLiteralMoved
    <3>7. CASE c = Backslash /\ i < Len(s) /\ s[i + 1] \notin DOMAIN Escapes
      <4>1. PICK told : told = Complain(n.scan, "F1003", j)
        OBVIOUS
      <4>2. told \in ScansOf(S) /\ (Marked(n.scan) => Marked(told))
        BY <2>2, <2>5, <4>1, ComplainFacts, MarkedStays DEF Reasons
      <4>3. q = Warned(n, k, told)
        BY <1>2, <2>1, <2>2, <2>3, <2>11, <3>7, <4>1, NativeInsideCases
      <4> QED
        BY <2>2, <4>2, <4>3, NativeLiteralWarned
    <3>8. CASE c \notin {Quote, NewLine, Backslash}
      <4>1. q = Moved(n, j, One(c))
        BY <1>2, <2>1, <2>2, <2>3, <2>11, <3>8, NativeInsideCases
      <4> QED
        BY <2>2, <3>2, <4>1, NativeLiteralMoved
    <3> QED
      BY <2>1, <2>5, <2>11, <3>3, <3>4, <3>5, <3>6, <3>7, <3>8
  <2> QED
    BY <2>1, <2>5, <2>8, <2>9, <2>10, <2>11
<1> QED
  BY <1>1, <1>2

(* What becomes of a literal that is read to its end.                      *)
Conclusion(p) ==
    IF p.closed THEN Emit(p.scan, "STRING", p.text, p.end)
    ELSE Past(Complain(p.scan, "F1002", p.end), p.end)

(* The two readings of one literal.                                        *)
LiteralsAlike(s, n, p) ==
    \/ n.done /\ Marked(n.scan)
    \/ ~n.done /\ ~p.closed /\ Alike(n.scan, p.scan) /\ n.text = p.text /\ n.end = p.end
    \/ n.done /\ Over(s, p) /\ Alike(n.scan, Conclusion(p))

LEMMA LiteralTurn ==
    ASSUME NEW S, Marks \subseteq S, NEW s \in Seq(S), NEW n \in NativeLiteralsOf(S),
           NEW p \in LiteralsOf(S), n.end >= 1, p.end >= 1, LiteralsAlike(s, n, p)
    PROVE  LET q == NativeInside(s, n) IN
           /\ LiteralsAlike(s, q, Inside(s, p))
           /\ ~q.done => ~n.done /\ q.end >= n.end + 1 /\ q.end <= Len(s) + 1
<1>1. CASE n.done
  <2>1. NativeInside(s, n) = n
    BY <1>1, NativeInsideFacts
  <2>2. Over(s, p) => Inside(s, p) = p
    BY InsideFacts
  <2> QED
    BY <1>1, <2>1, <2>2 DEF LiteralsAlike
<1>2. CASE ~n.done
  <2>1. ~p.closed /\ Alike(n.scan, p.scan) /\ n.text = p.text /\ n.end = p.end
    BY <1>2 DEF LiteralsAlike
  <2>2. PICK i \in Int : i = n.end /\ i >= 1 /\ i = p.end
    BY <2>1, NativeLiteralFields
  <2>3. PICK j \in Int, k \in Int : j = i + 1 /\ k = i + 2
    BY <2>2
  <2>4. PICK c, q, r : c = s[i] /\ q = NativeInside(s, n) /\ r = Inside(s, p)
    OBVIOUS
  <2>5. SUFFICES /\ LiteralsAlike(s, q, r)
                 /\ ~q.done => q.end >= n.end + 1 /\ q.end <= Len(s) + 1
    BY <1>2, <2>4
  <2>6. /\ n.text \in Seq(S) /\ n.scan \in ScansOf(S) /\ p.scan \in ScansOf(S) /\ p.text \in Seq(S)
        /\ Len(s) \in Nat /\ "STRING" \in Sorts
    BY NativeLiteralFields, LiteralFields DEF Sorts
  <2>7. ASSUME NEW scan \in ScansOf(S), Marked(scan), q = Left(n, scan)
        PROVE  LiteralsAlike(s, q, r) /\ q.done
    <3>1. q.done /\ q.scan = scan
      BY <2>7 DEF Left, NativeLiteralsOf
    <3> QED
      BY <2>7, <3>1 DEF LiteralsAlike
  <2>8. ASSUME NEW end \in {i, j}, q = Left(n, Unclosed(n, end)), Over(s, r), ~r.closed,
               r.scan = p.scan, r.end = end
        PROVE  LiteralsAlike(s, q, r) /\ q.done
    <3>1. end \in Int
      BY <2>2, <2>3
    <3>2. PICK scan : scan = Unclosed(n, end)
      OBVIOUS
    <3>3. scan \in ScansOf(S)
          /\ (Marked(scan) \/ scan = Emit(Complain(n.scan, "F1002", end), "STRING", n.text, end))
      BY <3>1, <3>2, UnclosedFacts
    <3>4. q.done /\ q.scan = scan
      BY <2>8, <3>2, <3>3 DEF Left, NativeLiteralsOf
    <3>5. CASE Marked(scan)
      BY <3>4, <3>5 DEF LiteralsAlike
    <3>6. CASE scan = Emit(Complain(n.scan, "F1002", end), "STRING", n.text, end)
      <4>1. Conclusion(r) = Past(Complain(p.scan, "F1002", end), end)
        BY <2>8 DEF Conclusion
      <4>2. Alike(scan, Conclusion(r))
        BY <2>1, <2>6, <3>1, <3>6, <4>1, AlikeUnclosed
      <4> QED
        BY <2>8, <3>4, <4>2 DEF LiteralsAlike
    <3> QED
      BY <3>3, <3>5, <3>6
  <2>9. CASE i > Len(s)
    <3>1. Over(s, p)
      BY <2>2, <2>9 DEF Over
    <3>2. r = p
      BY <2>4, <3>1, InsideFacts
    <3>3. q = Left(n, Unclosed(n, i))
      BY <1>2, <2>2, <2>4, <2>9, NativeInsideCases
    <3> QED
      BY <2>1, <2>2, <2>8, <3>1, <3>2, <3>3
  <2>10. CASE i <= Len(s) /\ TooMany(n.scan)
    <3>1. q = Left(n, Capped(n.scan))
      BY <1>2, <2>2, <2>4, <2>10, NativeInsideCases
    <3>2. Capped(n.scan) \in ScansOf(S) /\ Marked(Capped(n.scan))
      BY <2>6, <2>10, CappedFacts
    <3> QED
      BY <2>7, <3>1, <3>2
  <2>11. CASE q = Left(n, Refuse(n.scan, SpanTo(n.scan, i)))
    <3>1. SpanTo(n.scan, i) \in Spans
      BY <2>2, <2>6, SpanFacts
    <3>2. PICK scan : scan = Refuse(n.scan, SpanTo(n.scan, i))
      OBVIOUS
    <3>3. scan \in ScansOf(S) /\ Marked(scan)
      BY <2>6, <3>1, <3>2, RefuseFacts
    <3> QED
      BY <2>7, <2>11, <3>2, <3>3
  <2>12. CASE i <= Len(s) /\ ~TooMany(n.scan) /\ q # Left(n, Refuse(n.scan, SpanTo(n.scan, i)))
    <3>1. c \in S
      BY <2>2, <2>4, <2>6, <2>12
    <3>2. Nothing \in Seq(S) /\ One(c) \in Seq(S) /\ \A e \in DOMAIN Escapes : One(Escapes[e]) \in Seq(S)
      BY <3>1, MoreText
    <3>3. ASSUME c # NewLine PROVE ~Over(s, p)
      BY <2>1, <2>2, <2>4, <2>6, <2>12, <3>3 DEF Over
    <3>4. Quote # NewLine /\ Backslash # NewLine
      BY DEF Quote, Backslash, NewLine
    <3>5. CASE c = Quote
      <4>1. q = Left(n, Keep(n.scan, "STRING", n.text, j))
        BY <1>2, <2>2, <2>3, <2>4, <2>12, <3>5, NativeInsideCases
      <4>2. PICK kept : kept = Keep(n.scan, "STRING", n.text, j)
        OBVIOUS
      <4>3. kept \in ScansOf(S) /\ (Marked(kept) \/ kept = Emit(n.scan, "STRING", n.text, j))
        BY <2>3, <2>6, <4>2, KeepFacts
      <4>4. q.done /\ q.scan = kept
        BY <4>1, <4>2, <4>3 DEF Left, NativeLiteralsOf
      <4>5. r = Closed(p, j)
        BY <2>2, <2>3, <2>4, <3>3, <3>4, <3>5, InsideCases
      <4>6. r.scan = p.scan /\ r.text = p.text /\ r.end = j /\ r.closed
        BY <2>3, <4>5, LiteralClosed
      <4>7. Over(s, r) /\ Conclusion(r) = Emit(p.scan, "STRING", p.text, j)
        BY <4>6 DEF Over, Conclusion
      <4>8. Alike(Emit(n.scan, "STRING", n.text, j), Emit(p.scan, "STRING", p.text, j))
        BY <2>1, <2>3, <2>6, AlikeEmit
      <4> QED
        BY <4>3, <4>4, <4>7, <4>8 DEF LiteralsAlike
    <3>6. CASE c = NewLine
      <4>1. Over(s, p)
        BY <2>2, <2>4, <3>6 DEF Over
      <4>2. r = p
        BY <2>4, <4>1, InsideFacts
      <4>3. q = Left(n, Unclosed(n, i))
        BY <1>2, <2>2, <2>4, <2>12, <3>6, NativeInsideCases
      <4> QED
        BY <2>1, <2>2, <2>8, <4>1, <4>2, <4>3
    <3>7. CASE c = Backslash /\ i = Len(s)
      <4>1. r = Moved(p, j, Nothing)
        BY <2>2, <2>3, <2>4, <3>3, <3>4, <3>7, InsideCases
      <4>2. r.scan = p.scan /\ r.end = j /\ r.closed = p.closed
        BY <2>3, <3>2, <4>1, LiteralMoved
      <4>3. Over(s, r)
        BY <2>3, <2>6, <3>7, <4>2 DEF Over
      <4>4. q = Left(n, Unclosed(n, j))
        BY <1>2, <2>2, <2>3, <2>4, <2>12, <3>7, NativeInsideCases
      <4> QED
        BY <2>1, <2>8, <4>2, <4>3, <4>4
    <3>8. CASE c = Backslash /\ i < Len(s) /\ s[i + 1] \in DOMAIN Escapes
      <4>1. PICK more : more = One(Escapes[s[i + 1]])
        OBVIOUS
      <4>2. more \in Seq(S)
        BY <3>2, <3>8, <4>1
      <4>3. q = Moved(n, k, more)
        BY <1>2, <2>2, <2>3, <2>4, <2>12, <3>8, <4>1, NativeInsideCases
      <4>4. r = Moved(p, k, more)
        BY <2>2, <2>3, <2>4, <3>3, <3>4, <3>8, <4>1, InsideCases
      <4>5. q.scan = n.scan /\ q.text = n.text \o more /\ q.end = k /\ q.done = n.done
        BY <2>3, <4>2, <4>3, NativeLiteralMoved
      <4>6. r.scan = p.scan /\ r.text = p.text \o more /\ r.end = k /\ r.closed = p.closed
        BY <2>3, <4>2, <4>4, LiteralMoved
      <4>7. LiteralsAlike(s, q, r)
        BY <1>2, <2>1, <4>5, <4>6 DEF LiteralsAlike
      <4> QED
        BY <2>2, <2>3, <2>6, <3>8, <4>5, <4>7
    <3>9. CASE c = Backslash /\ i < Len(s) /\ s[i + 1] \notin DOMAIN Escapes
      <4>1. PICK told, heard : /\ told = Complain(n.scan, "F1003", j)
                               /\ heard = Complain(p.scan, "F1003", j)
        OBVIOUS
      <4>2. told \in ScansOf(S) /\ heard \in ScansOf(S)
        BY <2>3, <2>6, <4>1, ComplainFacts DEF Reasons
      <4>3. q = Warned(n, k, told)
        BY <1>2, <2>2, <2>3, <2>4, <2>12, <3>9, <4>1, NativeInsideCases
      <4>4. r = Warned(p, k, heard)
        <5>1. ~Over(s, p)
          BY <3>3, <3>4, <3>9
        <5>2. p.end = i /\ k = p.end + 2 /\ j = p.end + 1 /\ r = Inside(s, p) /\ p.end >= 1
          BY <2>2, <2>3, <2>4
        <5>3. s[p.end] = Backslash /\ p.end < Len(s) /\ s[p.end + 1] \notin DOMAIN Escapes
          BY <2>2, <2>3, <2>4, <3>9, <5>2
        <5>4. Inside(s, p) = Warned(p, p.end + 2, Complain(p.scan, "F1003", p.end + 1))
          BY <5>1, <5>2, <5>3, InsideCases
        <5> QED
          BY <4>1, <5>2, <5>4
      <4>5. q.scan = told /\ q.text = n.text \o <<>> /\ q.end = k /\ q.done = n.done
        BY <2>3, <4>2, <4>3, NativeLiteralWarned
      <4>6. r.scan = heard /\ r.text = p.text \o <<>> /\ r.end = k /\ r.closed = p.closed
        BY <2>3, <4>2, <4>4, LiteralWarned
      <4>7. Alike(q.scan, r.scan)
        <5>1. Alike(told, heard)
          BY <2>1, <2>3, <2>6, <4>1, AlikeComplain DEF Reasons
        <5> QED
          BY <4>5, <4>6, <5>1
      <4>8. LiteralsAlike(s, q, r)
        BY <1>2, <2>1, <4>5, <4>6, <4>7 DEF LiteralsAlike
      <4> QED
        BY <2>2, <2>3, <2>6, <3>9, <4>5, <4>8
    <3>10. CASE c \notin {Quote, NewLine, Backslash}
      <4>1. q = Moved(n, j, One(c))
        BY <1>2, <2>2, <2>3, <2>4, <2>12, <3>10, NativeInsideCases
      <4>2. r = Moved(p, j, One(c))
        BY <2>2, <2>3, <2>4, <3>3, <3>10, InsideCases
      <4>3. q.scan = n.scan /\ q.text = n.text \o One(c) /\ q.end = j /\ q.done = n.done
        BY <2>3, <3>2, <4>1, NativeLiteralMoved
      <4>4. r.scan = p.scan /\ r.text = p.text \o One(c) /\ r.end = j /\ r.closed = p.closed
        BY <2>3, <3>2, <4>2, LiteralMoved
      <4>5. LiteralsAlike(s, q, r)
        BY <1>2, <2>1, <4>3, <4>4 DEF LiteralsAlike
      <4> QED
        BY <2>2, <2>3, <2>6, <2>12, <4>3, <4>5
    <3> QED
      BY <2>2, <2>6, <2>12, <3>5, <3>6, <3>7, <3>8, <3>9, <3>10
  <2> QED
    BY <2>2, <2>6, <2>9, <2>10, <2>11, <2>12
<1> QED
  BY <1>1, <1>2

LEMMA LiteralFacts ==
    ASSUME NEW S, Marks \subseteq S, NEW s \in Seq(S), NEW scan \in ScansOf(S), scan.at >= 1
    PROVE  /\ Literal(s, scan) \in LiteralsOf(S) /\ Literal(s, scan).end >= scan.at + 1
           /\ ReadLiteral(s, scan) = Conclusion(Literal(s, scan))
           /\ ReadLiteral(s, scan) \in ScansOf(S) /\ ReadLiteral(s, scan).at >= scan.at + 1
<1>1. Len(s) \in Nat
  OBVIOUS
<1>2. PICK f : /\ f[0] = Opened(scan)
               /\ \A k \in 0 .. Len(s) - 1 : f[k + 1] = Inside(s, f[k])
               /\ Literal(s, scan) = f[Len(s)]
  BY <1>1, LiteralLoop
<1>3. PICK b \in Int : b = scan.at + 1 /\ b >= 1
  BY DEF ScansOf
<1> DEFINE U == {k \in 0 .. Len(s) : f[k] \in LiteralsOf(S) /\ f[k].end >= b}
<1>4. 0 \in U
  <2>1. Opened(scan) \in LiteralsOf(S) /\ Opened(scan).end = b
    BY <1>3 DEF LiteralsOf, Opened
  <2> QED
    BY <1>1, <1>2, <1>3, <2>1
<1>5. ASSUME NEW k \in 0 .. Len(s) - 1, k \in U PROVE k + 1 \in U
  <2>1. PICK p \in LiteralsOf(S) : p = f[k]
    BY <1>5
  <2>2. PICK e \in Int : e = p.end /\ e >= b /\ e >= 1
    BY <1>3, <1>5, <2>1, LiteralFields
  <2>3. PICK q : q = Inside(s, p)
    OBVIOUS
  <2>4. q \in LiteralsOf(S) /\ q.end >= e
    <3>1. p \in LiteralsOf(S) /\ p.end >= 1 /\ p.end = e
      BY <2>1, <2>2
    <3>2. q \in LiteralsOf(S) /\ q.end >= p.end
      BY <2>3, <3>1, InsideFacts
    <3> QED
      BY <3>1, <3>2
  <2>5. PICK d \in Int : d = q.end
    BY <2>4, LiteralFields
  <2>6. d >= b
    BY <2>2, <2>4, <2>5
  <2>7. k + 1 \in 0 .. Len(s)
    BY <1>1
  <2>8. f[k + 1] = q
    BY <1>2, <2>1, <2>3
  <2> QED
    BY <2>4, <2>5, <2>6, <2>7, <2>8
<1>6. Len(s) \in U
  <2> HIDE DEF U
  <2>1. \A k \in 0 .. Len(s) : k \in U
    BY <1>1, <1>4, <1>5, Climbs
  <2> QED
    BY <1>1, <2>1
<1>7. PICK p \in LiteralsOf(S) : p = Literal(s, scan) /\ p.end >= b
  BY <1>2, <1>6
<1>8. ReadLiteral(s, scan) = Conclusion(p)
  BY <1>7 DEF ReadLiteral, Conclusion
<1>9. p.scan \in ScansOf(S) /\ p.text \in Seq(S) /\ p.end \in Int /\ "STRING" \in Sorts /\ "F1002" \in Reasons
  BY LiteralFields DEF Sorts, Reasons
<1>10. Conclusion(p) \in ScansOf(S) /\ Conclusion(p).at = p.end
  <2>1. CASE p.closed
    BY SMTT(30), <1>9, <2>1, EmitFacts DEF Conclusion
  <2>2. CASE ~p.closed
    <3>1. PICK told : told = Complain(p.scan, "F1002", p.end)
      OBVIOUS
    <3>2. told \in ScansOf(S)
      BY <1>9, <3>1, ComplainFacts
    <3> QED
      BY <1>9, <2>2, <3>1, <3>2, PastFacts DEF Conclusion
  <2> QED
    BY <2>1, <2>2
<1> QED
  BY <1>3, <1>7, <1>8, <1>10

LEMMA NativeLiteralFacts ==
    ASSUME NEW S, Marks \subseteq S, NEW s \in Seq(S), NEW scan \in ScansOf(S), scan.at >= 1
    PROVE  /\ NativeLiteral(s, scan) \in ScansOf(S)
           /\ Marked(scan) => Marked(NativeLiteral(s, scan))
<1>1. Len(s) \in Nat
  OBVIOUS
<1>2. PICK f : /\ f[0] = NativeOpened(scan)
               /\ \A k \in 0 .. Len(s) - 1 : f[k + 1] = NativeInside(s, f[k])
               /\ NativeLiteral(s, scan) = f[Len(s)].scan
  BY <1>1, NativeLiteralLoop
<1> DEFINE U == {k \in 0 .. Len(s) : /\ f[k] \in NativeLiteralsOf(S) /\ f[k].end >= 1
                                     /\ Marked(scan) => Marked(f[k].scan)}
<1>3. 0 \in U
  <2>1. PICK end \in Int : end = scan.at + 1 /\ end >= 1
    BY DEF ScansOf
  <2>2. NativeOpened(scan) \in NativeLiteralsOf(S) /\ NativeOpened(scan).end = end
        /\ NativeOpened(scan).scan = scan
    BY <2>1 DEF NativeLiteralsOf, NativeOpened
  <2> QED
    BY <1>1, <1>2, <2>1, <2>2
<1>4. ASSUME NEW k \in 0 .. Len(s) - 1, k \in U PROVE k + 1 \in U
  <2>1. PICK n \in NativeLiteralsOf(S) : n = f[k]
    BY <1>4
  <2>2. n.end >= 1 /\ (Marked(scan) => Marked(n.scan))
    BY <1>4, <2>1
  <2>3. PICK q : q = NativeInside(s, n)
    OBVIOUS
  <2>4. q \in NativeLiteralsOf(S) /\ q.end >= 1 /\ (Marked(n.scan) => Marked(q.scan))
    BY <2>2, <2>3, NativeInsideFacts
  <2>5. f[k + 1] = q /\ k + 1 \in 0 .. Len(s)
    BY <1>1, <1>2, <1>4, <2>1, <2>3
  <2> QED
    BY <2>2, <2>4, <2>5
<1>5. Len(s) \in U
  <2> HIDE DEF U
  <2>1. \A k \in 0 .. Len(s) : k \in U
    BY <1>1, <1>3, <1>4, Climbs
  <2> QED
    BY <1>1, <2>1
<1> QED
  BY <1>2, <1>5, NativeLiteralFields

LEMMA LiteralsReadAlike ==
    ASSUME NEW S, Marks \subseteq S, NEW s \in Seq(S), NEW n \in ScansOf(S), NEW p \in ScansOf(S),
           n.at >= 1, n.at <= Len(s), Alike(n, p)
    PROVE  Marked(NativeLiteral(s, n)) \/ Alike(NativeLiteral(s, n), ReadLiteral(s, p))
<1>1. Len(s) \in Nat
  OBVIOUS
<1>2. PICK f : /\ f[0] = NativeOpened(n)
               /\ \A k \in 0 .. Len(s) - 1 : f[k + 1] = NativeInside(s, f[k])
               /\ NativeLiteral(s, n) = f[Len(s)].scan
  BY <1>1, NativeLiteralLoop
<1>3. PICK g : /\ g[0] = Opened(p)
               /\ \A k \in 0 .. Len(s) - 1 : g[k + 1] = Inside(s, g[k])
               /\ Literal(s, p) = g[Len(s)]
  BY <1>1, LiteralLoop
<1>4. PICK b \in Int : b = n.at + 1 /\ b = p.at + 1 /\ b >= 2 /\ b <= Len(s) + 1
  BY <1>1 DEF ScansOf, Alike
<1> DEFINE U == {k \in 0 .. Len(s) :
                   /\ f[k] \in NativeLiteralsOf(S) /\ f[k].end >= 1
                   /\ g[k] \in LiteralsOf(S) /\ g[k].end >= 1
                   /\ LiteralsAlike(s, f[k], g[k])
                   /\ ~f[k].done => f[k].end >= b + k /\ f[k].end <= Len(s) + 1}
<1>5. 0 \in U
  <2>1. PICK x, y : x = NativeOpened(n) /\ y = Opened(p)
    OBVIOUS
  <2>2. x \in NativeLiteralsOf(S) /\ x.end = b /\ x.scan = n /\ x.text = <<>> /\ ~x.done
    BY <1>4, <2>1 DEF NativeLiteralsOf, NativeOpened
  <2>3. y \in LiteralsOf(S) /\ y.end = b /\ y.scan = p /\ y.text = <<>> /\ ~y.closed
    BY <1>4, <2>1 DEF LiteralsOf, Opened
  <2>4. LiteralsAlike(s, x, y)
    BY <2>2, <2>3 DEF LiteralsAlike
  <2>5. b >= 1 /\ b >= b + 0 /\ b <= Len(s) + 1 /\ 0 \in 0 .. Len(s)
    BY <1>1, <1>4
  <2> QED
    BY <1>2, <1>3, <2>1, <2>2, <2>3, <2>4, <2>5
<1>6. ASSUME NEW k \in 0 .. Len(s) - 1, k \in U PROVE k + 1 \in U
  <2>1. PICK x \in NativeLiteralsOf(S), y \in LiteralsOf(S) : x = f[k] /\ y = g[k]
    BY <1>6
  <2>2. x.end >= 1 /\ y.end >= 1 /\ LiteralsAlike(s, x, y) /\ (~x.done => x.end >= b + k)
    BY <1>6, <2>1
  <2>3. PICK v, w : v = NativeInside(s, x) /\ w = Inside(s, y)
    OBVIOUS
  <2>4. v \in NativeLiteralsOf(S) /\ v.end >= 1
    BY <2>2, <2>3, NativeInsideFacts
  <2>5. w \in LiteralsOf(S) /\ w.end >= 1
    <3>1. w \in LiteralsOf(S) /\ w.end >= y.end
      BY <2>2, <2>3, InsideFacts
    <3>2. PICK d \in Int, e \in Int : d = w.end /\ e = y.end
      BY <3>1, LiteralFields
    <3>3. d >= 1
      BY <2>2, <3>1, <3>2
    <3> QED
      BY <3>1, <3>2, <3>3
  <2>6. LiteralsAlike(s, v, w) /\ (~v.done => ~x.done /\ v.end >= x.end + 1 /\ v.end <= Len(s) + 1)
    BY <2>2, <2>3, LiteralTurn
  <2>7. ~v.done => v.end >= b + (k + 1)
    <3>1. PICK d \in Int, e \in Int : d = v.end /\ e = x.end
      BY <2>4, NativeLiteralFields
    <3> QED
      BY <1>4, <2>2, <2>6, <3>1
  <2>8. f[k + 1] = v /\ g[k + 1] = w /\ k + 1 \in 0 .. Len(s)
    BY <1>1, <1>2, <1>3, <1>6, <2>1, <2>3
  <2> QED
    BY <2>4, <2>5, <2>6, <2>7, <2>8
<1>7. Len(s) \in U
  <2> HIDE DEF U
  <2>1. \A k \in 0 .. Len(s) : k \in U
    BY <1>1, <1>5, <1>6, Climbs
  <2> QED
    BY <1>1, <2>1
<1>8. PICK x \in NativeLiteralsOf(S), y \in LiteralsOf(S) : x = f[Len(s)] /\ y = g[Len(s)]
  BY <1>7
<1>9. LiteralsAlike(s, x, y) /\ (~x.done => x.end >= b + Len(s) /\ x.end <= Len(s) + 1)
  BY <1>7, <1>8
<1>10. x.done
  <2>1. PICK e \in Int : e = x.end
    BY NativeLiteralFields
  <2> QED
    BY <1>1, <1>4, <1>9, <2>1
<1>11. ReadLiteral(s, p) = Conclusion(y)
  BY <1>3, <1>8 DEF ReadLiteral, Conclusion
<1> QED
  BY <1>2, <1>8, <1>9, <1>10, <1>11 DEF LiteralsAlike

-----------------------------------------------------------------------------
(* A character is of one kind.                                             *)
Unusual == OtherLetters \cup OtherDigits
LEMMA ClassFacts ==
    /\ \A c \in Blanks : c # NewLine /\ c # Quote /\ c \notin Symbols /\ c \notin NameStart /\ c \notin AnyDigit
    /\ NewLine # Quote /\ NewLine \notin Symbols /\ NewLine \notin NameStart /\ NewLine \notin AnyDigit
    /\ NewLine \notin Blanks
    /\ \A c \in Symbols : /\ c \notin Blanks /\ c # NewLine /\ c # Quote /\ c # Backslash
                          /\ c \notin NameStart /\ c \notin AnyDigit
    /\ \A c \in NameStart : /\ c \notin Blanks /\ c # NewLine /\ c # Quote /\ c # Backslash
                            /\ c \notin Symbols /\ c \notin AnyDigit
    /\ \A c \in AnyDigit : /\ c \notin Blanks /\ c # NewLine /\ c # Quote /\ c # Backslash
                           /\ c \notin Symbols /\ c \notin NameStart
    /\ Quote \notin Blanks /\ Quote \notin Symbols /\ Quote \notin NameStart /\ Quote \notin AnyDigit
    /\ Backslash \notin Blanks /\ Backslash \notin Symbols /\ Backslash \notin NameStart
    /\ Backslash \notin AnyDigit
    /\ \A c \in Controls : /\ c \notin Blanks /\ c # NewLine /\ c # Quote /\ c # Backslash
                           /\ c \notin Symbols /\ c \notin NameStart /\ c \notin AnyDigit
    /\ \A c \in Letters : c \notin Unusual
    /\ \A c \in Digits : c \notin Unusual
    /\ \A c \in Blanks : c \notin Unusual
    /\ \A c \in Symbols : c \notin Unusual
    /\ NewLine \notin Unusual /\ Quote \notin Unusual /\ Backslash \notin Unusual
    /\ NameStart = Letters \cup OtherLetters /\ AnyDigit = Digits \cup OtherDigits
    /\ Ascii = Characters \ Unusual
    /\ Letters \cup Digits \cup Symbols \cup Blanks \cup {Quote, Backslash, NewLine} \cup Controls
          \cup Unusual \subseteq Characters
<1>1. /\ Classes[1] = Letters /\ Classes[2] = OtherLetters /\ Classes[3] = Digits
      /\ Classes[4] = OtherDigits /\ Classes[5] = Symbols /\ Classes[6] = Strange
      /\ Classes[7] = Controls /\ Classes[8] = Blanks /\ Classes[9] = {Quote, Backslash, NewLine}
      /\ DOMAIN Classes = 1 .. 9
  BY DEF Classes
<1>2. \A i, j \in 1 .. 9 : i # j => \A c : ~(c \in Classes[i] /\ c \in Classes[j])
  BY <1>1, LexerAssumption
<1>3. /\ \A c \in Classes[8] : c \notin Classes[1] /\ c \notin Classes[2] /\ c \notin Classes[3]
                               /\ c \notin Classes[4] /\ c \notin Classes[5] /\ c \notin Classes[9]
      /\ \A c \in Classes[5] : c \notin Classes[1] /\ c \notin Classes[2] /\ c \notin Classes[3]
                               /\ c \notin Classes[4] /\ c \notin Classes[9]
      /\ \A c \in Classes[1] : c \notin Classes[2] /\ c \notin Classes[3] /\ c \notin Classes[4]
                               /\ c \notin Classes[9]
      /\ \A c \in Classes[2] : c \notin Classes[3] /\ c \notin Classes[4] /\ c \notin Classes[9]
      /\ \A c \in Classes[3] : c \notin Classes[4] /\ c \notin Classes[9]
      /\ \A c \in Classes[4] : c \notin Classes[9]
      /\ \A c \in Classes[7] : c \notin Classes[1] /\ c \notin Classes[2] /\ c \notin Classes[3]
                               /\ c \notin Classes[4] /\ c \notin Classes[5] /\ c \notin Classes[8]
                               /\ c \notin Classes[9]
  BY <1>2
<1>4. NewLine # Quote /\ Quote # Backslash /\ NewLine # Backslash
  BY DEF NewLine, Quote, Backslash
<1>5. \A i \in 1 .. 9 : Classes[i] \subseteq Characters
  BY <1>1 DEF Characters, Range
<1>6. Letters \cup Digits \cup Symbols \cup Blanks \cup {Quote, Backslash, NewLine} \cup Controls
         \cup Unusual \subseteq Characters
  BY <1>1, <1>5 DEF Unusual
<1>7. NameStart = Letters \cup OtherLetters /\ AnyDigit = Digits \cup OtherDigits
      /\ Ascii = Characters \ Unusual
  BY DEF NameStart, AnyDigit, Ascii, Unusual
<1>8. /\ \A c \in Blanks : c \notin Letters /\ c \notin OtherLetters /\ c \notin Digits
                               /\ c \notin OtherDigits /\ c \notin Symbols /\ c # Quote /\ c # NewLine
      /\ \A c \in Symbols : c \notin Letters /\ c \notin OtherLetters /\ c \notin Digits
                               /\ c \notin OtherDigits /\ c # Quote /\ c # NewLine /\ c # Backslash
      /\ \A c \in Letters : c \notin OtherLetters /\ c \notin Digits /\ c \notin OtherDigits
                               /\ c # Quote /\ c # NewLine /\ c # Backslash
      /\ \A c \in OtherLetters : c \notin Digits /\ c \notin OtherDigits
                               /\ c # Quote /\ c # NewLine /\ c # Backslash
      /\ \A c \in Digits : c \notin OtherDigits /\ c # Quote /\ c # NewLine /\ c # Backslash
      /\ \A c \in OtherDigits : c # Quote /\ c # NewLine /\ c # Backslash
      /\ Backslash \notin Blanks
      /\ \A c \in Controls : c \notin Letters /\ c \notin OtherLetters /\ c \notin Digits
                               /\ c \notin OtherDigits /\ c \notin Symbols /\ c \notin Blanks
                               /\ c # Quote /\ c # NewLine /\ c # Backslash
  BY <1>1, <1>3
<1> HIDE DEF NewLine, Quote, Backslash, Blanks
<1> QED
  BY <1>4, <1>6, <1>7, <1>8 DEF Unusual

PairAt(s, i) == IF i < Len(s) THEN <<s[i], s[i + 1]>> ELSE <<s[i]>>
Slashes == <<"/", "/">>
LEMMA PairFacts ==
    ASSUME NEW S, NEW s \in Seq(S), NEW i \in 1 .. Len(s)
    PROVE  /\ PairAt(s, i) \in Seq(S) /\ s[i] \in S
           /\ PairAt(s, i) = Slashes => s[i] \in Symbols
           /\ PairAt(s, i) \in Pairs => s[i] \in Symbols /\ PairAt(s, i) # Slashes /\ i < Len(s)
<1>1. Len(s) \in Nat /\ s[i] \in S /\ (i < Len(s) => s[i + 1] \in S)
  OBVIOUS
<1>2. "/" \in Symbols /\ Pairs \subseteq (Symbols \X Symbols) \ {Slashes}
  BY LexerAssumption DEF Slashes
<1>3. CASE i < Len(s)
  <2>1. PICK c, d : c = s[i] /\ d = s[i + 1]
    OBVIOUS
  <2>2. PairAt(s, i) = <<c, d>>
    BY <1>3, <2>1 DEF PairAt
  <2>3. c \in S /\ d \in S
    BY <1>1, <1>3, <2>1
  <2>4. <<c, d>> \in Seq(S)
    BY <2>3
  <2>5. <<c, d>> = Slashes => c = "/"
    BY DEF Slashes
  <2>6. <<c, d>> \in Symbols \X Symbols => c \in Symbols
    OBVIOUS
  <2> QED
    BY <1>1, <1>2, <1>3, <2>1, <2>2, <2>4, <2>5, <2>6
<1>4. CASE ~(i < Len(s))
  <2>1. PICK c : c = s[i]
    OBVIOUS
  <2>2. PairAt(s, i) = <<c>>
    BY <1>4, <2>1 DEF PairAt
  <2>3. <<c>> \in Seq(S)
    BY <1>1, <2>1
  <2>4. <<c>> # Slashes
    BY DEF Slashes
  <2>5. <<c>> \notin Symbols \X Symbols
    <3>1. SUFFICES ASSUME NEW a \in Symbols, NEW b \in Symbols, <<c>> = <<a, b>> PROVE FALSE
      OBVIOUS
    <3> QED
      BY <3>1
  <2> QED
    BY <1>1, <1>2, <2>2, <2>3, <2>4, <2>5
<1> QED
  BY <1>3, <1>4

(* What a turn of each lexer does with the character it is at.             *)
NextLine(scan) == [scan EXCEPT !.at = scan.at + 1, !.line = @ + 1, !.column = 1]
Word(s, i, class) == SubSeq(s, i, RunEnd(s, i, class) - 1)
LEMMA ReadCases ==
    ASSUME NEW S, NEW s \in Seq(S), NEW scan, scan.at \in 1 .. Len(s)
    PROVE  LET i == scan.at
               c == s[i]
               pair == PairAt(s, i)
               now == ReadNext(s, scan)
           IN  /\ c \in Blanks => now = Past(scan, i + 1)
               /\ c = NewLine => now = NextLine(scan)
               /\ pair = Slashes => now = Past(scan, RunEnd(s, i, Characters \ {NewLine}))
               /\ pair \in Pairs => now = Emit(scan, "SYMBOL", pair, i + 2)
               /\ c \in NameStart => now = Emit(scan, "IDENT", Word(s, i, NameStart \cup AnyDigit),
                                                RunEnd(s, i, NameStart \cup AnyDigit))
               /\ c \in AnyDigit => now = Emit(scan, "INT", Word(s, i, AnyDigit), RunEnd(s, i, AnyDigit))
               /\ c = Quote => now = ReadLiteral(s, scan)
               /\ c \in Symbols /\ pair \notin Pairs /\ pair # Slashes =>
                     now = Emit(scan, "SYMBOL", One(c), i + 1)
               /\ /\ c \notin Blanks /\ c \notin Symbols /\ c \notin NameStart /\ c \notin AnyDigit
                  /\ c # NewLine /\ c # Quote
                  => now = Past(Complain(scan, "F1001", i + 1), i + 1)
<1>1. PICK i \in 1 .. Len(s) : i = scan.at
  OBVIOUS
<1>2. PICK c, pair : c = s[i] /\ pair = PairAt(s, i)
  OBVIOUS
<1>3. /\ pair = Slashes => c \in Symbols
      /\ pair \in Pairs => c \in Symbols /\ pair # Slashes
  BY <1>2, PairFacts
<1>4. pair = IF i < Len(s) THEN <<c, s[i + 1]>> ELSE <<c>>
  BY <1>2 DEF PairAt
<1>5. PICK now : now = ReadNext(s, scan)
  OBVIOUS
<1>6. now = CASE c \in Blanks -> Past(scan, i + 1)
              [] c = NewLine -> NextLine(scan)
              [] pair = Slashes -> Past(scan, RunEnd(s, i, Characters \ {NewLine}))
              [] pair \in Pairs -> Emit(scan, "SYMBOL", pair, i + 2)
              [] c \in NameStart -> Emit(scan, "IDENT", Word(s, i, NameStart \cup AnyDigit),
                                         RunEnd(s, i, NameStart \cup AnyDigit))
              [] c \in AnyDigit -> Emit(scan, "INT", Word(s, i, AnyDigit), RunEnd(s, i, AnyDigit))
              [] c = Quote -> ReadLiteral(s, scan)
              [] c \in Symbols /\ pair \notin Pairs \cup {Slashes} -> Emit(scan, "SYMBOL", One(c), i + 1)
              [] OTHER -> Past(Complain(scan, "F1001", i + 1), i + 1)
  BY <1>1, <1>2, <1>4, <1>5 DEF ReadNext, NextLine, Slashes, Word, One
<1>7. c \in Blanks => now = Past(scan, i + 1)
  BY <1>3, <1>6, ClassFacts
<1>8. c = NewLine => now = NextLine(scan)
  BY <1>3, <1>6, ClassFacts
<1>9. pair = Slashes => now = Past(scan, RunEnd(s, i, Characters \ {NewLine}))
  BY <1>3, <1>6, ClassFacts
<1>10. pair \in Pairs => now = Emit(scan, "SYMBOL", pair, i + 2)
  BY <1>3, <1>6, ClassFacts
<1>11. c \in NameStart => now = Emit(scan, "IDENT", Word(s, i, NameStart \cup AnyDigit),
                                     RunEnd(s, i, NameStart \cup AnyDigit))
  BY <1>3, <1>6, ClassFacts
<1>12. c \in AnyDigit => now = Emit(scan, "INT", Word(s, i, AnyDigit), RunEnd(s, i, AnyDigit))
  BY <1>3, <1>6, ClassFacts
<1>13. c = Quote => now = ReadLiteral(s, scan)
  BY <1>3, <1>6, ClassFacts
<1>14. c \in Symbols /\ pair \notin Pairs /\ pair # Slashes => now = Emit(scan, "SYMBOL", One(c), i + 1)
  BY <1>3, <1>6, ClassFacts
<1>15. /\ c \notin Blanks /\ c \notin Symbols /\ c \notin NameStart /\ c \notin AnyDigit
       /\ c # NewLine /\ c # Quote
       => now = Past(Complain(scan, "F1001", i + 1), i + 1)
  BY <1>3, <1>6
<1> QED
  BY <1>1, <1>2, <1>5, <1>7, <1>8, <1>9, <1>10, <1>11, <1>12, <1>13, <1>14, <1>15

LEMMA NativeReadCases ==
    ASSUME NEW S, NEW s \in Seq(S), NEW scan, scan.at \in 1 .. Len(s)
    PROVE  LET i == scan.at
               c == s[i]
               pair == PairAt(s, i)
               now == NativeReadNext(s, scan)
           IN  /\ TooMany(scan) => now = Capped(scan)
               /\ ~TooMany(scan) =>
                    /\ c \in Blanks => now = Past(scan, i + 1)
                    /\ c = NewLine => now = NextLine(scan)
                    /\ pair = Slashes => now = Past(scan, RunEnd(s, i, Characters \ {NewLine}))
                    /\ pair \in Pairs => now = Keep(scan, "SYMBOL", pair, i + 2)
                    /\ c \in Letters => now = Keep(scan, "IDENT", Word(s, i, Letters \cup Digits),
                                                   RunEnd(s, i, Letters \cup Digits))
                    /\ c \in Digits => now = Keep(scan, "INT", Word(s, i, Digits), RunEnd(s, i, Digits))
                    /\ c = Quote => now = NativeLiteral(s, scan)
                    /\ c \in Symbols /\ pair \notin Pairs /\ pair # Slashes =>
                          now = Keep(scan, "SYMBOL", One(c), i + 1)
                    /\ /\ c \notin Blanks /\ c \notin Symbols /\ c \notin Letters /\ c \notin Digits
                       /\ c # NewLine /\ c # Quote
                       => now = Past(Complain(scan, IF c \in Ascii THEN "F1001" ELSE "F1004", i + 1), i + 1)
<1>1. PICK i \in 1 .. Len(s) : i = scan.at
  OBVIOUS
<1>2. PICK c, pair : c = s[i] /\ pair = PairAt(s, i)
  OBVIOUS
<1>3. /\ pair = Slashes => c \in Symbols
      /\ pair \in Pairs => c \in Symbols /\ pair # Slashes
      /\ c \in Letters => c \in NameStart
      /\ c \in Digits => c \in AnyDigit
  BY <1>2, PairFacts, ClassFacts
<1>4. pair = IF i < Len(s) THEN <<c, s[i + 1]>> ELSE <<c>>
  BY <1>2 DEF PairAt
<1>5. PICK now, capped : now = NativeReadNext(s, scan) /\ capped = TooMany(scan)
  OBVIOUS
<1>6. now = CASE capped -> Capped(scan)
              [] ~capped /\ c \in Blanks -> Past(scan, i + 1)
              [] ~capped /\ c = NewLine -> NextLine(scan)
              [] ~capped /\ pair = Slashes -> Past(scan, RunEnd(s, i, Characters \ {NewLine}))
              [] ~capped /\ pair \in Pairs -> Keep(scan, "SYMBOL", pair, i + 2)
              [] ~capped /\ c \in Letters -> Keep(scan, "IDENT", Word(s, i, Letters \cup Digits),
                                                  RunEnd(s, i, Letters \cup Digits))
              [] ~capped /\ c \in Digits -> Keep(scan, "INT", Word(s, i, Digits), RunEnd(s, i, Digits))
              [] ~capped /\ c = Quote -> NativeLiteral(s, scan)
              [] ~capped /\ c \in Symbols /\ pair \notin Pairs \cup {Slashes} ->
                    Keep(scan, "SYMBOL", One(c), i + 1)
              [] OTHER -> Past(Complain(scan, IF c \in Ascii THEN "F1001" ELSE "F1004", i + 1), i + 1)
  BY <1>1, <1>2, <1>4, <1>5 DEF NativeReadNext, NextLine, Slashes, Word, One
<1>7. capped => now = Capped(scan)
  BY <1>6
<1>8. ASSUME ~capped
      PROVE  /\ c \in Blanks => now = Past(scan, i + 1)
             /\ c = NewLine => now = NextLine(scan)
             /\ pair = Slashes => now = Past(scan, RunEnd(s, i, Characters \ {NewLine}))
             /\ pair \in Pairs => now = Keep(scan, "SYMBOL", pair, i + 2)
             /\ c \in Letters => now = Keep(scan, "IDENT", Word(s, i, Letters \cup Digits),
                                            RunEnd(s, i, Letters \cup Digits))
             /\ c \in Digits => now = Keep(scan, "INT", Word(s, i, Digits), RunEnd(s, i, Digits))
             /\ c = Quote => now = NativeLiteral(s, scan)
             /\ c \in Symbols /\ pair \notin Pairs /\ pair # Slashes =>
                   now = Keep(scan, "SYMBOL", One(c), i + 1)
             /\ /\ c \notin Blanks /\ c \notin Symbols /\ c \notin Letters /\ c \notin Digits
                /\ c # NewLine /\ c # Quote
                => now = Past(Complain(scan, IF c \in Ascii THEN "F1001" ELSE "F1004", i + 1), i + 1)
  <2>1. c \in Blanks => now = Past(scan, i + 1)
    BY <1>3, <1>6, <1>8, ClassFacts
  <2>2. c = NewLine => now = NextLine(scan)
    BY <1>3, <1>6, <1>8, ClassFacts
  <2>3. pair = Slashes => now = Past(scan, RunEnd(s, i, Characters \ {NewLine}))
    BY <1>3, <1>6, <1>8, ClassFacts
  <2>4. pair \in Pairs => now = Keep(scan, "SYMBOL", pair, i + 2)
    BY <1>3, <1>6, <1>8, ClassFacts
  <2>5. c \in Letters => now = Keep(scan, "IDENT", Word(s, i, Letters \cup Digits),
                                    RunEnd(s, i, Letters \cup Digits))
    BY <1>3, <1>6, <1>8, ClassFacts
  <2>6. c \in Digits => now = Keep(scan, "INT", Word(s, i, Digits), RunEnd(s, i, Digits))
    BY <1>3, <1>6, <1>8, ClassFacts
  <2>7. c = Quote => now = NativeLiteral(s, scan)
    BY <1>3, <1>6, <1>8, ClassFacts
  <2>8. c \in Symbols /\ pair \notin Pairs /\ pair # Slashes => now = Keep(scan, "SYMBOL", One(c), i + 1)
    BY <1>3, <1>6, <1>8, ClassFacts
  <2>9. /\ c \notin Blanks /\ c \notin Symbols /\ c \notin Letters /\ c \notin Digits
        /\ c # NewLine /\ c # Quote
        => now = Past(Complain(scan, IF c \in Ascii THEN "F1001" ELSE "F1004", i + 1), i + 1)
    BY <1>3, <1>6, <1>8
  <2> QED
    BY <2>1, <2>2, <2>3, <2>4, <2>5, <2>6, <2>7, <2>8, <2>9
<1> QED
  BY <1>1, <1>2, <1>5, <1>7, <1>8

LEMMA NextLineFacts ==
    ASSUME NEW S, NEW scan \in ScansOf(S)
    PROVE  LET now == NextLine(scan) IN
           /\ now \in ScansOf(S) /\ now.at = scan.at + 1 /\ now.line = scan.line + 1 /\ now.column = 1
           /\ now.tokens = scan.tokens /\ now.errors = scan.errors
           /\ Marked(scan) => Marked(now)
<1>1. PICK now : now = NextLine(scan)
  OBVIOUS
<1>2. /\ now \in ScansOf(S) /\ now.at = scan.at + 1 /\ now.line = scan.line + 1 /\ now.column = 1
      /\ now.tokens = scan.tokens /\ now.errors = scan.errors
  <2>1. PICK at \in Int, line \in Int, column \in Int :
           at = scan.at + 1 /\ line = scan.line + 1 /\ column = 1
    BY DEF ScansOf
  <2>2. now = [scan EXCEPT !.at = at, !.line = line, !.column = column]
    BY <1>1, <2>1 DEF NextLine, ScansOf
  <2>3. now \in ScansOf(S)
    BY <2>2 DEF ScansOf
  <2>4. /\ now.at = at /\ now.line = line /\ now.column = column
        /\ now.tokens = scan.tokens /\ now.errors = scan.errors
    BY <2>2 DEF ScansOf
  <2> QED
    BY <2>1, <2>3, <2>4
<1>3. Marked(scan) => Marked(now)
  BY <1>2 DEF Marked, Codes
<1> QED
  BY <1>1, <1>2, <1>3

LEMMA AlikeNextLine ==
    ASSUME NEW S, NEW n \in ScansOf(S), NEW p \in ScansOf(S), Alike(n, p)
    PROVE  Alike(NextLine(n), NextLine(p))
<1>1. PICK a, b : a = NextLine(n) /\ b = NextLine(p)
  OBVIOUS
<1>2. /\ a.at = n.at + 1 /\ a.line = n.line + 1 /\ a.column = 1
      /\ a.tokens = n.tokens /\ a.errors = n.errors
  BY <1>1, NextLineFacts
<1>3. /\ b.at = p.at + 1 /\ b.line = p.line + 1 /\ b.column = 1
      /\ b.tokens = p.tokens /\ b.errors = p.errors
  BY <1>1, NextLineFacts
<1> QED
  BY <1>1, <1>2, <1>3 DEF Alike

LEMMA WordFacts ==
    ASSUME NEW S, NEW s \in Seq(S), NEW i \in 1 .. Len(s), NEW class
    PROVE  Word(s, i, class) \in Seq(S) /\ RunEnd(s, i, class) \in Int
<1>1. PICK e \in Int : e = RunEnd(s, i, class) /\ e >= i /\ e <= Len(s) + 1
  BY RunEndFacts
<1>2. SubSeq(s, i, e - 1) \in Seq(S)
  BY <1>1
<1> QED
  BY <1>1, <1>2 DEF Word

LEMMA KeepMarked ==
    ASSUME NEW S, NEW scan \in ScansOf(S), NEW kind \in Sorts, NEW value \in Seq(S), NEW end \in Int,
           Marked(scan)
    PROVE  Marked(Keep(scan, kind, value, end))
BY KeepFacts, MarkedStays

LEMMA EmitTypes ==
    ASSUME NEW S, NEW scan \in ScansOf(S), NEW kind \in Sorts, NEW value \in Seq(S), NEW end \in Int
    PROVE  Emit(scan, kind, value, end) \in ScansOf(S) /\ Emit(scan, kind, value, end).at = end
BY EmitFacts

LEMMA ReadNextFacts ==
    ASSUME NEW S, Marks \subseteq S, NEW s \in Seq(S), NEW scan \in ScansOf(S), scan.at \in 1 .. Len(s)
    PROVE  ReadNext(s, scan) \in ScansOf(S) /\ ReadNext(s, scan).at >= scan.at + 1
<1>1. PICK i \in 1 .. Len(s) : i = scan.at
  OBVIOUS
<1>2. PICK j \in Int, k \in Int : j = i + 1 /\ k = i + 2
  BY <1>1
<1>3. PICK c, pair, now : c = s[i] /\ pair = PairAt(s, i) /\ now = ReadNext(s, scan)
  OBVIOUS
<1>4. SUFFICES now \in ScansOf(S) /\ now.at >= j
  BY <1>1, <1>2, <1>3
<1>5. j >= j /\ k >= j
  BY <1>1, <1>2
<1>6. pair \in Seq(S) /\ c \in S
  BY <1>1, <1>3, PairFacts
<1>7. One(c) \in Seq(S)
  BY <1>6 DEF One
<1>8. ASSUME NEW class, c \in class
      PROVE  RunEnd(s, i, class) \in Int /\ RunEnd(s, i, class) >= j /\ Word(s, i, class) \in Seq(S)
  <2>1. s[i] \in class => RunEnd(s, i, class) >= i + 1
    BY <1>1, RunEndFacts
  <2> QED
    BY <1>1, <1>2, <1>3, <1>8, <2>1, WordFacts
<1>9. CASE c \in Blanks
  <2>1. now = Past(scan, j)
    BY <1>1, <1>2, <1>3, <1>9, ReadCases
  <2> QED
    BY <1>5, <2>1, PastFacts
<1>10. CASE c = NewLine
  <2>1. now = NextLine(scan)
    BY <1>1, <1>2, <1>3, <1>10, ReadCases
  <2> QED
    BY <1>1, <1>2, <1>5, <2>1, NextLineFacts
<1>11. CASE pair = Slashes
  <2>1. PICK class : class = Characters \ {NewLine}
    OBVIOUS
  <2>2. c \in class
    <3>1. c \in Symbols
      BY <1>1, <1>3, <1>11, PairFacts
    <3> QED
      BY <2>1, <3>1, ClassFacts
  <2>3. now = Past(scan, RunEnd(s, i, class))
    BY <1>1, <1>3, <1>11, <2>1, ReadCases
  <2>4. PICK e \in Int : e = RunEnd(s, i, class) /\ e >= j
    BY <1>8, <2>2
  <2> QED
    BY <2>3, <2>4, PastFacts
<1>12. CASE pair \in Pairs
  <2>1. now = Emit(scan, "SYMBOL", pair, k)
    BY <1>1, <1>2, <1>3, <1>12, ReadCases
  <2>2. "SYMBOL" \in Sorts
    BY DEF Sorts
  <2>3. now \in ScansOf(S) /\ now.at = k
    BY SMTT(30), <1>6, <2>1, <2>2, EmitTypes
  <2> QED
    BY <1>5, <2>3
<1>13. CASE c \in NameStart
  <2>1. PICK class : class = NameStart \cup AnyDigit
    OBVIOUS
  <2>2. now = Emit(scan, "IDENT", Word(s, i, class), RunEnd(s, i, class))
    BY <1>1, <1>3, <1>13, <2>1, ReadCases
  <2>3. PICK e \in Int, word \in Seq(S) : e = RunEnd(s, i, class) /\ e >= j /\ word = Word(s, i, class)
    BY <1>8, <1>13, <2>1
  <2>4. now = Emit(scan, "IDENT", word, e)
    BY <2>2, <2>3
  <2>5. "IDENT" \in Sorts
    BY DEF Sorts
  <2>6. now \in ScansOf(S) /\ now.at = e
    BY <2>4, <2>5, EmitTypes
  <2> QED
    BY <2>3, <2>6
<1>14. CASE c \in AnyDigit
  <2>1. PICK class : class = AnyDigit
    OBVIOUS
  <2>2. now = Emit(scan, "INT", Word(s, i, class), RunEnd(s, i, class))
    BY <1>1, <1>3, <1>14, <2>1, ReadCases
  <2>3. PICK e \in Int, word \in Seq(S) : e = RunEnd(s, i, class) /\ e >= j /\ word = Word(s, i, class)
    BY <1>8, <1>14, <2>1
  <2>4. now = Emit(scan, "INT", word, e)
    BY <2>2, <2>3
  <2>5. "INT" \in Sorts
    BY DEF Sorts
  <2>6. now \in ScansOf(S) /\ now.at = e
    BY <2>4, <2>5, EmitTypes
  <2> QED
    BY <2>3, <2>6
<1>15. CASE c = Quote
  <2>1. now = ReadLiteral(s, scan)
    BY <1>1, <1>3, <1>15, ReadCases
  <2>2. scan.at >= 1 /\ scan.at + 1 = j
    BY <1>1, <1>2
  <2> QED
    BY <2>1, <2>2, LiteralFacts
<1>16. CASE c \in Symbols /\ pair \notin Pairs /\ pair # Slashes
  <2>1. now = Emit(scan, "SYMBOL", One(c), j)
    BY <1>1, <1>2, <1>3, <1>16, ReadCases
  <2>2. "SYMBOL" \in Sorts
    BY DEF Sorts
  <2>3. now \in ScansOf(S) /\ now.at = j
    BY <1>7, <2>1, <2>2, EmitTypes
  <2> QED
    BY <1>5, <2>3
<1>17. CASE /\ c \notin Blanks /\ c \notin Symbols /\ c \notin NameStart /\ c \notin AnyDigit
            /\ c # NewLine /\ c # Quote
  <2>1. PICK told : told = Complain(scan, "F1001", j)
    OBVIOUS
  <2>2. told \in ScansOf(S)
    BY <2>1, ComplainFacts DEF Reasons
  <2>3. now = Past(told, j)
    BY <1>1, <1>2, <1>3, <1>17, <2>1, ReadCases
  <2> QED
    BY <1>5, <2>2, <2>3, PastFacts
<1> QED
  BY <1>9, <1>10, <1>11, <1>12, <1>13, <1>14, <1>15, <1>16, <1>17

LEMMA KeepTypes ==
    ASSUME NEW S, NEW scan \in ScansOf(S), NEW kind \in Sorts, NEW value \in Seq(S), NEW end \in Int
    PROVE  /\ Keep(scan, kind, value, end) \in ScansOf(S)
           /\ Marked(scan) => Marked(Keep(scan, kind, value, end))
BY KeepFacts, KeepMarked

LEMMA NativeReadNextFacts ==
    ASSUME NEW S, Marks \subseteq S, NEW s \in Seq(S), NEW scan \in ScansOf(S), scan.at \in 1 .. Len(s)
    PROVE  /\ NativeReadNext(s, scan) \in ScansOf(S)
           /\ Marked(scan) => Marked(NativeReadNext(s, scan))
           /\ s[scan.at] \in Unusual => Marked(NativeReadNext(s, scan))
<1>1. PICK i \in 1 .. Len(s) : i = scan.at
  OBVIOUS
<1>2. PICK j \in Int, k \in Int : j = i + 1 /\ k = i + 2
  BY <1>1
<1>3. PICK c, pair, now : c = s[i] /\ pair = PairAt(s, i) /\ now = NativeReadNext(s, scan)
  OBVIOUS
<1>4. SUFFICES /\ now \in ScansOf(S) /\ (Marked(scan) => Marked(now))
               /\ c \in Unusual => Marked(now)
  BY <1>1, <1>3
<1>5. CASE TooMany(scan)
  <2>1. now = Capped(scan)
    BY <1>1, <1>3, <1>5, NativeReadCases
  <2> QED
    BY <1>5, <2>1, CappedFacts
<1>6. CASE ~TooMany(scan)
  <2>1. pair \in Seq(S) /\ c \in S
    BY <1>1, <1>3, PairFacts
  <2>2. One(c) \in Seq(S)
    BY <2>1 DEF One
  <2>3. CASE c \in Blanks
    <3>1. now = Past(scan, j)
      BY <1>1, <1>2, <1>3, <1>6, <2>3, NativeReadCases
    <3>2. now \in ScansOf(S) /\ (Marked(scan) => Marked(now))
      BY <3>1, PastFacts, MarkedStays
    <3> QED
      BY <2>3, <3>2, ClassFacts
  <2>4. CASE c = NewLine
    <3>1. now = NextLine(scan)
      BY <1>1, <1>2, <1>3, <1>6, <2>4, NativeReadCases
    <3>2. now \in ScansOf(S) /\ (Marked(scan) => Marked(now))
      BY <3>1, NextLineFacts
    <3> QED
      BY <2>4, <3>2, ClassFacts
  <2>5. CASE pair = Slashes
    <3>1. now = Past(scan, RunEnd(s, i, Characters \ {NewLine}))
      BY <1>1, <1>3, <1>6, <2>5, NativeReadCases
    <3>2. RunEnd(s, i, Characters \ {NewLine}) \in Int
      BY <1>1, WordFacts
    <3>3. now \in ScansOf(S) /\ (Marked(scan) => Marked(now))
      BY <3>1, <3>2, PastFacts, MarkedStays
    <3>4. c \in Symbols
      BY <1>1, <1>3, <2>5, PairFacts
    <3> QED
      BY <3>3, <3>4, ClassFacts
  <2>6. CASE pair \in Pairs
    <3>1. now = Keep(scan, "SYMBOL", pair, k)
      BY <1>1, <1>2, <1>3, <1>6, <2>6, NativeReadCases
    <3>2. "SYMBOL" \in Sorts
      BY DEF Sorts
    <3>3. now \in ScansOf(S) /\ (Marked(scan) => Marked(now))
      BY <2>1, <3>1, <3>2, KeepTypes
    <3>4. c \in Symbols
      BY <1>1, <1>3, <2>6, PairFacts
    <3> QED
      BY <3>3, <3>4, ClassFacts
  <2>7. CASE c \in Letters
    <3>1. PICK e \in Int, word \in Seq(S) : /\ e = RunEnd(s, i, Letters \cup Digits)
                                            /\ word = Word(s, i, Letters \cup Digits)
      BY <1>1, WordFacts
    <3>2. now = Keep(scan, "IDENT", word, e)
      BY <1>1, <1>3, <1>6, <2>7, <3>1, NativeReadCases
    <3>3. "IDENT" \in Sorts
      BY DEF Sorts
    <3>4. now \in ScansOf(S) /\ (Marked(scan) => Marked(now))
      BY <3>2, <3>3, KeepTypes
    <3> QED
      BY <2>7, <3>4, ClassFacts
  <2>8. CASE c \in Digits
    <3>1. PICK e \in Int, word \in Seq(S) : e = RunEnd(s, i, Digits) /\ word = Word(s, i, Digits)
      BY <1>1, WordFacts
    <3>2. now = Keep(scan, "INT", word, e)
      BY <1>1, <1>3, <1>6, <2>8, <3>1, NativeReadCases
    <3>3. "INT" \in Sorts
      BY DEF Sorts
    <3>4. now \in ScansOf(S) /\ (Marked(scan) => Marked(now))
      BY <3>2, <3>3, KeepTypes
    <3> QED
      BY <2>8, <3>4, ClassFacts
  <2>9. CASE c = Quote
    <3>1. now = NativeLiteral(s, scan)
      BY <1>1, <1>3, <1>6, <2>9, NativeReadCases
    <3>2. scan.at >= 1
      BY <1>1
    <3>3. now \in ScansOf(S) /\ (Marked(scan) => Marked(now))
      BY <3>1, <3>2, NativeLiteralFacts
    <3> QED
      BY <2>9, <3>3, ClassFacts
  <2>10. CASE c \in Symbols /\ pair \notin Pairs /\ pair # Slashes
    <3>1. now = Keep(scan, "SYMBOL", One(c), j)
      BY <1>1, <1>2, <1>3, <1>6, <2>10, NativeReadCases
    <3>2. "SYMBOL" \in Sorts
      BY DEF Sorts
    <3>3. now \in ScansOf(S) /\ (Marked(scan) => Marked(now))
      BY <2>2, <3>1, <3>2, KeepTypes
    <3> QED
      BY <2>10, <3>3, ClassFacts
  <2>11. CASE /\ c \notin Blanks /\ c \notin Symbols /\ c \notin Letters /\ c \notin Digits
              /\ c # NewLine /\ c # Quote
    <3>1. PICK code \in Reasons : code = IF c \in Ascii THEN "F1001" ELSE "F1004"
      BY DEF Reasons
    <3>2. PICK told : told = Complain(scan, code, j)
      OBVIOUS
    <3>3. told \in ScansOf(S) /\ Codes(told) = Codes(scan) \cup {code} /\ (Marked(scan) => Marked(told))
      BY SMTT(30), <3>2, ComplainFacts, MarkedStays
    <3>4. now = Past(told, j)
      BY <1>1, <1>2, <1>3, <1>6, <2>11, <3>1, <3>2, NativeReadCases
    <3>5. now \in ScansOf(S) /\ (Marked(told) => Marked(now))
      BY <3>3, <3>4, PastFacts, MarkedStays
    <3>6. c \in Unusual => code = "F1004"
      BY <3>1, ClassFacts
    <3>7. code = "F1004" => Marked(told)
      BY <3>3 DEF Marked
    <3> QED
      BY <3>3, <3>5, <3>6, <3>7
  <2> QED
    BY <2>3, <2>4, <2>5, <2>6, <2>7, <2>8, <2>9, <2>10, <2>11
<1> QED
  BY <1>5, <1>6

(* The two readings of one source: they agree, or the native one has run   *)
(* into a budget or a character outside ASCII, or is about to.             *)
Together(s, n, p) ==
    \/ Marked(n)
    \/ n.at \in 1 .. Len(s) /\ s[n.at] \in Unusual
    \/ Alike(n, p)

LEMMA KeepAlike ==
    ASSUME NEW S, NEW n \in ScansOf(S), NEW p \in ScansOf(S), NEW end \in Int,
           NEW kind \in Sorts, NEW value \in Seq(S), Alike(n, p)
    PROVE  Marked(Keep(n, kind, value, end)) \/ Alike(Keep(n, kind, value, end), Emit(p, kind, value, end))
BY KeepFacts, AlikeEmit

(* A run of letters and digits is as long for both, unless a letter or a   *)
(* digit of another alphabet follows.                                      *)
LEMMA RunAlike ==
    ASSUME NEW S, NEW s \in Seq(S), NEW i \in 1 .. Len(s), NEW class, NEW wider,
           class \subseteq wider, wider \ class \subseteq Unusual
    PROVE  \/ RunEnd(s, i, class) = RunEnd(s, i, wider)
           \/ RunEnd(s, i, class) \in 1 .. Len(s) /\ s[RunEnd(s, i, class)] \in Unusual
<1>1. CASE RunEnd(s, i, class) # RunEnd(s, i, wider)
  <2>1. RunEnd(s, i, class) <= Len(s) /\ s[RunEnd(s, i, class)] \in wider \ class
    BY <1>1, LongerRun
  <2>2. PICK e \in Int : e = RunEnd(s, i, class) /\ e >= i
    BY RunEndFacts
  <2>3. e \in 1 .. Len(s) /\ s[e] \in wider \ class
    BY <2>1, <2>2
  <2> QED
    BY <2>2, <2>3
<1> QED
  BY <1>1

LEMMA TurnAlike ==
    ASSUME NEW S, Marks \subseteq S, NEW s \in Seq(S), NEW n \in ScansOf(S), NEW p \in ScansOf(S),
           n.at \in 1 .. Len(s), Alike(n, p)
    PROVE  LET now == NativeReadNext(s, n) IN
           /\ Together(s, now, ReadNext(s, p))
           /\ Marked(now) \/ now.at >= n.at + 1
<1>1. PICK i \in 1 .. Len(s) : i = n.at
  OBVIOUS
<1>2. i = p.at /\ p.at \in 1 .. Len(s)
  BY <1>1 DEF Alike
<1>3. PICK j \in Int, k \in Int : j = i + 1 /\ k = i + 2
  BY <1>1
<1>4. PICK c, pair : c = s[i] /\ pair = PairAt(s, i)
  OBVIOUS
<1>5. PICK a, b : a = NativeReadNext(s, n) /\ b = ReadNext(s, p)
  OBVIOUS
<1>6. /\ a \in ScansOf(S) /\ (c \in Unusual => Marked(a))
      /\ b \in ScansOf(S) /\ b.at >= j
  BY <1>1, <1>2, <1>3, <1>4, <1>5, NativeReadNextFacts, ReadNextFacts
<1>7. Alike(a, b) => a.at >= j
  BY <1>6 DEF Alike
<1>8. SUFFICES Together(s, a, b) /\ (Marked(a) \/ a.at >= j)
  BY <1>1, <1>3, <1>5
<1>9. SUFFICES ASSUME ~Marked(a)
               PROVE  Alike(a, b) \/ (a.at \in 1 .. Len(s) /\ s[a.at] \in Unusual /\ a.at >= j)
  BY <1>7 DEF Together
<1>10. ~TooMany(n)
  <2>1. SUFFICES ASSUME TooMany(n) PROVE FALSE
    OBVIOUS
  <2>2. a = Capped(n)
    BY <1>1, <1>5, <2>1, NativeReadCases
  <2> QED
    BY <1>9, <2>1, <2>2, CappedFacts
<1>11. pair \in Seq(S) /\ c \in S
  BY <1>1, <1>4, PairFacts
<1>12. One(c) \in Seq(S)
  BY <1>11 DEF One
<1>13. ASSUME NEW class, NEW wider, class \subseteq wider, wider \ class \subseteq Unusual, c \in class,
              NEW kind \in Sorts,
              a = Keep(n, kind, Word(s, i, class), RunEnd(s, i, class)),
              b = Emit(p, kind, Word(s, i, wider), RunEnd(s, i, wider))
       PROVE  Alike(a, b) \/ (a.at \in 1 .. Len(s) /\ s[a.at] \in Unusual /\ a.at >= j)
  <2>1. PICK e \in Int, word \in Seq(S) : e = RunEnd(s, i, class) /\ word = Word(s, i, class)
    BY <1>1, WordFacts
  <2>2. a = Keep(n, kind, word, e)
    BY <1>13, <2>1
  <2>3. CASE RunEnd(s, i, class) = RunEnd(s, i, wider)
    <3>1. b = Emit(p, kind, word, e)
      BY <1>13, <2>1, <2>3 DEF Word
    <3> QED
      BY <1>9, <2>2, <3>1, KeepAlike
  <2>4. CASE RunEnd(s, i, class) # RunEnd(s, i, wider)
    <3>1. RunEnd(s, i, class) \in 1 .. Len(s) /\ s[RunEnd(s, i, class)] \in Unusual
      BY <1>1, <1>13, <2>4, RunAlike
    <3>2. e \in 1 .. Len(s) /\ s[e] \in Unusual
      BY <2>1, <3>1
    <3>3. e >= j
      <4>1. s[i] \in class => RunEnd(s, i, class) >= i + 1
        BY <1>1, RunEndFacts
      <4> QED
        BY <1>3, <1>4, <1>13, <2>1, <4>1
    <3>4. a = Emit(n, kind, word, e)
      BY <1>9, <1>13, <2>2, KeepFacts
    <3>5. a.at = e
      BY <1>13, <3>4, EmitTypes
    <3> QED
      BY <3>2, <3>3, <3>5
  <2> QED
    BY <2>3, <2>4
<1>14. CASE c \in Blanks
  <2>1. a = Past(n, j)
    BY <1>1, <1>3, <1>4, <1>5, <1>10, <1>14, NativeReadCases
  <2>2. b = Past(p, j)
    BY <1>2, <1>3, <1>4, <1>5, <1>14, ReadCases
  <2> QED
    BY <2>1, <2>2, AlikePast
<1>15. CASE c = NewLine
  <2>1. a = NextLine(n)
    BY <1>1, <1>4, <1>5, <1>10, <1>15, NativeReadCases
  <2>2. b = NextLine(p)
    BY <1>2, <1>4, <1>5, <1>15, ReadCases
  <2> QED
    BY <2>1, <2>2, AlikeNextLine
<1>16. CASE pair = Slashes
  <2>1. PICK e : e = RunEnd(s, i, Characters \ {NewLine})
    OBVIOUS
  <2>2. e \in Int
    BY <1>1, <2>1, WordFacts
  <2>3. a = Past(n, e)
    BY <1>1, <1>4, <1>5, <1>10, <1>16, <2>1, NativeReadCases
  <2>4. b = Past(p, e)
    BY <1>2, <1>4, <1>5, <1>16, <2>1, ReadCases
  <2> QED
    BY <2>2, <2>3, <2>4, AlikePast
<1>17. CASE pair \in Pairs
  <2>1. a = Keep(n, "SYMBOL", pair, k)
    BY <1>1, <1>3, <1>4, <1>5, <1>10, <1>17, NativeReadCases
  <2>2. b = Emit(p, "SYMBOL", pair, k)
    BY <1>2, <1>3, <1>4, <1>5, <1>17, ReadCases
  <2>3. "SYMBOL" \in Sorts
    BY DEF Sorts
  <2> QED
    BY <1>9, <1>11, <2>1, <2>2, <2>3, KeepAlike
<1>18. CASE c \in Letters
  <2>1. PICK class, wider : class = Letters \cup Digits /\ wider = NameStart \cup AnyDigit
    OBVIOUS
  <2>2. class \subseteq wider /\ wider \ class \subseteq Unusual /\ c \in class /\ c \in NameStart
    BY <1>18, <2>1, ClassFacts DEF Unusual
  <2>3. a = Keep(n, "IDENT", Word(s, i, class), RunEnd(s, i, class))
    BY <1>1, <1>4, <1>5, <1>10, <1>18, <2>1, NativeReadCases
  <2>4. b = Emit(p, "IDENT", Word(s, i, wider), RunEnd(s, i, wider))
    BY <1>2, <1>4, <1>5, <2>1, <2>2, ReadCases
  <2>5. "IDENT" \in Sorts
    BY DEF Sorts
  <2> QED
    BY <1>13, <2>2, <2>3, <2>4, <2>5
<1>19. CASE c \in Digits
  <2>1. PICK class, wider : class = Digits /\ wider = AnyDigit
    OBVIOUS
  <2>2. class \subseteq wider /\ wider \ class \subseteq Unusual /\ c \in class /\ c \in AnyDigit
    BY <1>19, <2>1, ClassFacts DEF Unusual
  <2>3. a = Keep(n, "INT", Word(s, i, class), RunEnd(s, i, class))
    BY <1>1, <1>4, <1>5, <1>10, <1>19, <2>1, NativeReadCases
  <2>4. b = Emit(p, "INT", Word(s, i, wider), RunEnd(s, i, wider))
    BY <1>2, <1>4, <1>5, <2>1, <2>2, ReadCases
  <2>5. "INT" \in Sorts
    BY DEF Sorts
  <2> QED
    BY <1>13, <2>2, <2>3, <2>4, <2>5
<1>20. CASE c = Quote
  <2>1. a = NativeLiteral(s, n)
    BY <1>1, <1>4, <1>5, <1>10, <1>20, NativeReadCases
  <2>2. b = ReadLiteral(s, p)
    BY <1>2, <1>4, <1>5, <1>20, ReadCases
  <2>3. n.at >= 1 /\ n.at <= Len(s)
    BY <1>1
  <2> QED
    BY <1>9, <2>1, <2>2, <2>3, LiteralsReadAlike
<1>21. CASE c \in Symbols /\ pair \notin Pairs /\ pair # Slashes
  <2>1. a = Keep(n, "SYMBOL", One(c), j)
    BY <1>1, <1>3, <1>4, <1>5, <1>10, <1>21, NativeReadCases
  <2>2. b = Emit(p, "SYMBOL", One(c), j)
    BY <1>2, <1>3, <1>4, <1>5, <1>21, ReadCases
  <2>3. "SYMBOL" \in Sorts
    BY DEF Sorts
  <2> QED
    BY <1>9, <1>12, <2>1, <2>2, <2>3, KeepAlike
<1>22. CASE /\ c \notin Blanks /\ c \notin Symbols /\ c \notin Letters /\ c \notin Digits
            /\ c # NewLine /\ c # Quote
  <2>1. PICK code \in Reasons : code = IF c \in Ascii THEN "F1001" ELSE "F1004"
    BY DEF Reasons
  <2>2. PICK told : told = Complain(n, code, j)
    OBVIOUS
  <2>3. told \in ScansOf(S) /\ Codes(told) = Codes(n) \cup {code}
    BY SMTT(30), <2>2, ComplainFacts
  <2>4. a = Past(told, j)
    BY <1>1, <1>3, <1>4, <1>5, <1>10, <1>22, <2>1, <2>2, NativeReadCases
  <2>5. code = "F1001"
    <3>1. ~Marked(told)
      BY <1>9, <2>3, <2>4, MarkedStays
    <3> QED
      BY <2>1, <2>3, <3>1 DEF Marked
  <2>6. c \in Ascii
    BY <2>1, <2>5
  <2>7. c \notin NameStart /\ c \notin AnyDigit
    BY <1>22, <2>6, ClassFacts DEF Unusual
  <2>8. b = Past(Complain(p, code, j), j)
    BY <1>2, <1>3, <1>4, <1>5, <1>22, <2>5, <2>7, ReadCases
  <2>9. PICK heard : heard = Complain(p, code, j)
    OBVIOUS
  <2>10. heard \in ScansOf(S) /\ Alike(told, heard)
    BY <2>2, <2>9, ComplainFacts, AlikeComplain
  <2> QED
    BY <2>3, <2>4, <2>8, <2>9, <2>10, AlikePast
<1> QED
  BY <1>14, <1>15, <1>16, <1>17, <1>18, <1>19, <1>20, <1>21, <1>22

-----------------------------------------------------------------------------
(* A whole source, turn by turn.                                           *)
LEMMA TurnTypes ==
    ASSUME NEW S, Marks \subseteq S, NEW s \in Seq(S), NEW scan \in ScansOf(S), scan.at >= 1
    PROVE  Turn(s, scan) \in ScansOf(S) /\ Turn(s, scan).at >= 1
<1>1. PICK i \in Int : i = scan.at /\ i >= 1
  BY DEF ScansOf
<1>2. DOMAIN s = 1 .. Len(s) /\ Len(s) \in Nat
  OBVIOUS
<1>3. CASE i \in 1 .. Len(s)
  <2>1. Turn(s, scan) = ReadNext(s, scan)
    BY <1>1, <1>2, <1>3 DEF Turn
  <2>2. ReadNext(s, scan) \in ScansOf(S) /\ ReadNext(s, scan).at >= scan.at + 1
    BY <1>1, <1>3, ReadNextFacts
  <2>3. PICK j \in Int : j = ReadNext(s, scan).at
    BY <2>2 DEF ScansOf
  <2> QED
    BY <1>1, <2>1, <2>2, <2>3
<1>4. CASE i \notin 1 .. Len(s)
  BY <1>1, <1>2, <1>4 DEF Turn
<1> QED
  BY <1>3, <1>4

(* Where both readings are after k turns.                                  *)
Abreast(S, s, n, p, k) ==
    /\ n \in ScansOf(S) /\ p \in ScansOf(S) /\ p.at >= 1
    /\ Together(s, n, p)
    /\ Marked(n) \/ n.at >= k + 1

LEMMA TurnsAbreast ==
    ASSUME NEW S, Marks \subseteq S, NEW s \in Seq(S), NEW n, NEW p, NEW k \in Nat, k < Len(s),
           Abreast(S, s, n, p, k)
    PROVE  Abreast(S, s, NativeTurn(s, n), Turn(s, p), k + 1)
<1>1. PICK i \in Int : i = n.at
  BY DEF Abreast, ScansOf
<1>2. DOMAIN s = 1 .. Len(s) /\ Len(s) \in Nat
  OBVIOUS
<1>3. PICK a, b : a = NativeTurn(s, n) /\ b = Turn(s, p)
  OBVIOUS
<1>4. n \in ScansOf(S) /\ p \in ScansOf(S) /\ p.at >= 1
  BY DEF Abreast
<1>5. b \in ScansOf(S) /\ b.at >= 1
  BY <1>3, <1>4, TurnTypes
<1>6. PICK m \in Nat : m = Len(s)
  BY <1>2
<1>7. CASE i \notin 1 .. m
  <2>1. a = n
    BY <1>1, <1>2, <1>3, <1>6, <1>7 DEF NativeTurn
  <2>2. CASE Marked(n)
    BY <1>3, <1>4, <1>5, <2>1, <2>2 DEF Abreast, Together
  <2>3. CASE ~Marked(n)
    <3>1. i >= k + 1
      BY <1>1, <2>3 DEF Abreast
    <3>2. i > m
      BY <1>7, <3>1
    <3>3. i >= (k + 1) + 1
      BY <1>6, <3>2
    <3>4. Alike(n, p)
      BY <1>1, <1>6, <1>7, <2>3 DEF Abreast, Together
    <3>5. p.at \notin DOMAIN s
      BY <1>1, <1>2, <1>6, <1>7, <3>4 DEF Alike
    <3>6. b = p
      BY <1>3, <3>5 DEF Turn
    <3> QED
      BY <1>1, <1>3, <1>4, <1>5, <2>1, <3>3, <3>4, <3>6 DEF Abreast, Together
  <2> QED
    BY <2>2, <2>3
<1>8. CASE i \in 1 .. m
  <2>1. a = NativeReadNext(s, n)
    BY <1>1, <1>2, <1>3, <1>6, <1>8 DEF NativeTurn
  <2>2. n.at \in 1 .. Len(s)
    BY <1>1, <1>6, <1>8
  <2>3. a \in ScansOf(S) /\ (Marked(n) => Marked(a)) /\ (s[n.at] \in Unusual => Marked(a))
    BY <1>4, <2>1, <2>2, NativeReadNextFacts
  <2>4. CASE Marked(a)
    BY <1>3, <1>5, <2>3, <2>4 DEF Abreast, Together
  <2>5. CASE ~Marked(a)
    <3>1. ~Marked(n) /\ s[n.at] \notin Unusual
      BY <2>3, <2>5
    <3>2. Alike(n, p) /\ i >= k + 1
      BY <1>1, <3>1 DEF Abreast, Together
    <3>3. p.at = i
      BY <1>1, <3>2 DEF Alike
    <3>4. b = ReadNext(s, p)
      BY <1>2, <1>3, <1>6, <1>8, <3>3 DEF Turn
    <3>5. Together(s, a, b) /\ (Marked(a) \/ a.at >= n.at + 1)
      BY <1>4, <2>1, <2>2, <3>2, <3>4, TurnAlike
    <3>6. PICK j \in Int : j = a.at
      BY <2>3 DEF ScansOf
    <3>7. j >= (k + 1) + 1
      BY <1>1, <2>5, <3>2, <3>5, <3>6
    <3> QED
      BY <1>3, <1>5, <2>3, <3>5, <3>6, <3>7 DEF Abreast
  <2> QED
    BY <2>4, <2>5
<1> QED
  BY <1>6, <1>7, <1>8

LEMMA BeginFacts ==
    ASSUME NEW S
    PROVE  /\ Begin \in ScansOf(S) /\ Begin.at = 1
           /\ \A s : Abreast(S, s, Begin, Begin, 0)
<1>1. Begin \in ScansOf(S) /\ Begin.at = 1
  BY DEF Begin, ScansOf
<1>2. Alike(Begin, Begin)
  BY DEF Alike
<1> QED
  BY <1>1, <1>2 DEF Abreast, Together

LEMMA SourcesAbreast ==
    ASSUME NEW S, Marks \subseteq S, NEW s \in Seq(S)
    PROVE  Abreast(S, s, NativeReadAll(s), ReadAll(s), Len(s))
<1>1. PICK m \in Nat : m = Len(s)
  OBVIOUS
<1>2. Len(s) \in Nat
  OBVIOUS
<1>3. PICK f : f[0] = Begin /\ (\A k \in 0 .. m - 1 : f[k + 1] = NativeTurn(s, f[k])) /\ NativeReadAll(s) = f[m]
  BY <1>1, <1>2, NativeSourceLoop
<1>4. PICK g : g[0] = Begin /\ (\A k \in 0 .. m - 1 : g[k + 1] = Turn(s, g[k])) /\ ReadAll(s) = g[m]
  BY <1>1, <1>2, SourceLoop
<1> DEFINE U == {k \in 0 .. m : Abreast(S, s, f[k], g[k], k)}
<1>5. 0 \in U
  <2>1. Abreast(S, s, Begin, Begin, 0)
    BY BeginFacts
  <2>2. 0 \in 0 .. m
    BY <1>1
  <2> QED
    BY <1>3, <1>4, <2>1, <2>2
<1>6. ASSUME NEW k \in 0 .. m - 1, k \in U PROVE k + 1 \in U
  <2>1. k \in Nat /\ k < Len(s) /\ k + 1 \in 0 .. m
    BY <1>1
  <2>2. Abreast(S, s, f[k], g[k], k)
    BY <1>6
  <2>3. Abreast(S, s, NativeTurn(s, f[k]), Turn(s, g[k]), k + 1)
    BY <2>1, <2>2, TurnsAbreast
  <2> QED
    BY <1>3, <1>4, <2>1, <2>3
<1>7. \A k \in 0 .. m : k \in U
  <2> HIDE DEF U
  <2> QED
    BY <1>5, <1>6, Climbs
<1>8. m \in U
  BY <1>7
<1> QED
  BY <1>1, <1>3, <1>4, <1>8

(* What is said of a reading in the end.                                   *)
LEMMA OutcomeFacts ==
    ASSUME NEW scan
    PROVE  Codes(Outcome(scan)) = Codes(scan)
BY DEF Outcome, Codes

LEMMA ConcludeMarked ==
    ASSUME NEW S, NEW scan \in ScansOf(S), Marked(scan)
    PROVE  Marked(Conclude(scan))
<1>1. scan.errors # <<>>
  BY DEF Marked, Codes
<1>2. TooMany(scan) => Marked(Capped(scan))
  BY CappedFacts
<1> QED
  BY <1>1, <1>2 DEF Conclude

LEMMA EndsAlike ==
    ASSUME NEW S, NEW n \in ScansOf(S), NEW p \in ScansOf(S), Alike(n, p), n.at >= 1
    PROVE  \/ Marked(Conclude(n))
           \/ Outcome(Conclude(n)) = Outcome(Emit(p, "EOF", <<>>, p.at))
<1>1. PICK i \in Int : i = n.at /\ i = p.at
  BY DEF Alike, ScansOf
<1>2. n.at # Ended
  BY DEF Ended, ScansOf
<1>3. "EOF" \in Sorts /\ <<>> \in Seq(S)
  BY DEF Sorts
<1>4. PICK b : b = Emit(p, "EOF", <<>>, i)
  OBVIOUS
<1>5. b.errors = p.errors
  <2>1. PICK kind \in Sorts, value \in Seq(S) : kind = "EOF" /\ value = <<>>
    BY <1>3
  <2>2. b = Emit(p, kind, value, i)
    BY <1>4, <2>1
  <2> QED
    BY <1>1, <2>2, EmitFacts
<1>6. CASE n.errors = <<>>
  <2>1. Conclude(n) = Emit(n, "EOF", <<>>, i)
    BY <1>1, <1>2, <1>6 DEF Conclude
  <2>2. Alike(Conclude(n), b)
    BY <1>3, <1>4, <2>1, AlikeEmit
  <2>3. b.errors = <<>>
    BY <1>5, <1>6 DEF Alike
  <2> QED
    BY <1>1, <1>4, <2>2, <2>3 DEF Alike, Outcome
<1>7. CASE n.errors # <<>> /\ TooMany(n)
  BY <1>2, <1>7, CappedFacts DEF Conclude
<1>8. CASE n.errors # <<>> /\ ~TooMany(n)
  <2>1. Conclude(n) = n
    BY <1>2, <1>8 DEF Conclude
  <2>2. b.errors = n.errors
    BY <1>5 DEF Alike
  <2> QED
    BY <1>1, <1>4, <1>8, <2>1, <2>2 DEF Outcome
<1> QED
  BY <1>6, <1>7, <1>8

LEMMA SourcesReadAlike ==
    ASSUME NEW S, Marks \subseteq S, NEW s \in Seq(S)
    PROVE  \/ NativeLex(s) = Lex(s)
           \/ Codes(NativeLex(s)) \cap {"F0001", "F0002", "F1004"} # {}
<1>1. PICK m \in Nat : m = Len(s)
  OBVIOUS
<1>2. PICK n, p : n = NativeReadAll(s) /\ p = ReadAll(s)
  OBVIOUS
<1>3. Abreast(S, s, n, p, m)
  BY <1>1, <1>2, SourcesAbreast
<1>4. n \in ScansOf(S) /\ p \in ScansOf(S)
  BY <1>3 DEF Abreast
<1>5. CASE Bytes(s) > Budget["source"]
  <2>1. SpanTo(Begin, 1) \in Spans /\ Begin \in ScansOf(S)
    BY BeginFacts, SpanFacts
  <2>2. Marked(Refuse(Begin, SpanTo(Begin, 1)))
    BY <2>1, RefuseFacts
  <2> QED
    BY <1>5, <2>2, OutcomeFacts DEF NativeLex, Marked
<1>6. CASE ~(Bytes(s) > Budget["source"])
  <2>1. NativeLex(s) = Outcome(Conclude(n))
    BY <1>2, <1>6 DEF NativeLex
  <2>2. Lex(s) = Outcome(Emit(p, "EOF", <<>>, p.at))
    BY <1>2 DEF Lex
  <2>3. CASE Marked(n)
    <3>1. Marked(Conclude(n))
      BY <1>4, <2>3, ConcludeMarked
    <3> QED
      BY <2>1, <3>1, OutcomeFacts DEF Marked
  <2>4. CASE ~Marked(n)
    <3>1. PICK i \in Int : i = n.at
      BY <1>4 DEF ScansOf
    <3>2. i >= m + 1
      BY <1>3, <2>4, <3>1 DEF Abreast
    <3>3. i >= 1 /\ i \notin 1 .. Len(s)
      BY <1>1, <3>2
    <3>4. Alike(n, p)
      BY <1>3, <2>4, <3>1, <3>3 DEF Abreast, Together
    <3>5. Marked(Conclude(n)) \/ Outcome(Conclude(n)) = Outcome(Emit(p, "EOF", <<>>, p.at))
      BY <1>4, <3>1, <3>3, <3>4, EndsAlike
    <3> QED
      BY <2>1, <2>2, <3>5, OutcomeFacts DEF Marked
  <2> QED
    BY <2>3, <2>4
<1> QED
  BY <1>5, <1>6

-----------------------------------------------------------------------------
(* The parsers.  A production consists of items.                           *)
LEMMA ProductionItems ==
    ASSUME NEW items \in Productions, NEW k \in DOMAIN items
    PROVE  items[k] \in Items
BY DEF Items, Range

LEMMA FormFacts ==
    /\ DOMAIN Forms = {"expression", "statement", "declaration"}
    /\ DOMAIN Forms["expression"] = {"snapshot", "propose", "explore", "simulate", "select", "commit"}
    /\ DOMAIN Forms["statement"] = {"let", "return", "check", "measure"}
    /\ DOMAIN Forms["declaration"] = {"resource", "model", "decision"}
BY DEF Forms

LEMMA RuleFacts ==
    /\ DOMAIN Groups = {"arguments", "block", "effect"}
    /\ DOMAIN Options = {"annotation", "parameter", "result"}
    /\ DOMAIN Lists = {"expressions", "effects", "statements", "declarations"}
BY DEF Groups, Options, Lists

Counted(items) == Len(items) \in Nat /\ DOMAIN items = 1 .. Len(items)

(* What is written as a tuple has as many items as it shows.               *)
LEMMA TuplesCounted ==
    /\ \A a : Counted(<<a>>)
    /\ \A a, b : Counted(<<a, b>>)
    /\ \A a, b, c : Counted(<<a, b, c>>)
    /\ \A a, b, c, d : Counted(<<a, b, c, d>>)
    /\ \A a, b, c, d, e : Counted(<<a, b, c, d, e>>)
    /\ \A a, b, c, d, e, f : Counted(<<a, b, c, d, e, f>>)
    /\ \A a, b, c, d, e, f, g, h, i : Counted(<<a, b, c, d, e, f, g, h, i>>)
BY DEF Counted

LEMMA FormsCounted ==
    \A rule \in DOMAIN Forms : \A keyword \in DOMAIN Forms[rule] : Counted(Forms[rule][keyword])
<1>1. \A keyword \in DOMAIN Forms["expression"] : Counted(Forms["expression"][keyword])
  <2>1. Forms["expression"]["snapshot"] = <<"IDENT">>
    BY DEF Forms
  <2>2. Forms["expression"]["propose"] = <<"IDENT", "<", "IDENT", ">", "arguments">>
    BY DEF Forms
  <2>3. Forms["expression"]["explore"] = <<"IDENT", "in", "expression", "from", "expression", "block">>
    BY DEF Forms
  <2>4. Forms["expression"]["simulate"] = <<"IDENT", ".", "IDENT", "arguments">>
    BY DEF Forms
  <2>5. Forms["expression"]["select"] = <<"expression", "minimize", "IDENT">>
    BY DEF Forms
  <2>6. Forms["expression"]["commit"] = <<"expression", "to", "IDENT">>
    BY DEF Forms
  <2>7. /\ Counted(Forms["expression"]["snapshot"])
        /\ Counted(Forms["expression"]["propose"])
        /\ Counted(Forms["expression"]["explore"])
        /\ Counted(Forms["expression"]["simulate"])
        /\ Counted(Forms["expression"]["select"])
        /\ Counted(Forms["expression"]["commit"])
    BY <2>1, <2>2, <2>3, <2>4, <2>5, <2>6, TuplesCounted
  <2> QED
    BY <2>7, FormFacts
<1>2. \A keyword \in DOMAIN Forms["statement"] : Counted(Forms["statement"][keyword])
  <2>1. Forms["statement"]["let"] = <<"IDENT", "annotation", "=", "expression", ";">>
    BY DEF Forms
  <2>2. Forms["statement"]["return"] = <<"expression", ";">>
    BY DEF Forms
  <2>3. Forms["statement"]["check"] = <<"expression", "else", "STRING", ";">>
    BY DEF Forms
  <2>4. Forms["statement"]["measure"] = <<"IDENT", ":", "IDENT", "=", "expression", ";">>
    BY DEF Forms
  <2>5. /\ Counted(Forms["statement"]["let"])
        /\ Counted(Forms["statement"]["return"])
        /\ Counted(Forms["statement"]["check"])
        /\ Counted(Forms["statement"]["measure"])
    BY <2>1, <2>2, <2>3, <2>4, TuplesCounted
  <2> QED
    BY <2>5, FormFacts
<1>3. \A keyword \in DOMAIN Forms["declaration"] : Counted(Forms["declaration"][keyword])
  <2>1. Forms["declaration"]["resource"] = <<"IDENT", ":", "IDENT", ";">>
    BY DEF Forms
  <2>2. Forms["declaration"]["model"] = <<"IDENT", ":", "IDENT", ";">>
    BY DEF Forms
  <2>3. Forms["declaration"]["decision"] = <<"IDENT", "(", ")", "result", "!", "{", "effects", "}", "block">>
    BY DEF Forms
  <2>4. /\ Counted(Forms["declaration"]["resource"])
        /\ Counted(Forms["declaration"]["model"])
        /\ Counted(Forms["declaration"]["decision"])
    BY <2>1, <2>2, <2>3, TuplesCounted
  <2> QED
    BY <2>4, FormFacts
<1> QED
  BY <1>1, <1>2, <1>3, FormFacts

LEMMA OthersCounted ==
    /\ \A rule \in DOMAIN Groups : Counted(Groups[rule])
    /\ \A rule \in DOMAIN Options : Counted(Options[rule])
    /\ Counted(Call)
<1>1. \A rule \in DOMAIN Groups : Counted(Groups[rule])
  <2>1. Groups["arguments"] = <<"(", "expressions", ")">>
    BY DEF Groups
  <2>2. Groups["block"] = <<"{", "statements", "}">>
    BY DEF Groups
  <2>3. Groups["effect"] = <<"IDENT", "(", "IDENT", ")">>
    BY DEF Groups
  <2>4. /\ Counted(Groups["arguments"])
        /\ Counted(Groups["block"])
        /\ Counted(Groups["effect"])
    BY <2>1, <2>2, <2>3, TuplesCounted
  <2> QED
    BY <2>4, RuleFacts
<1>2. \A rule \in DOMAIN Options : Counted(Options[rule])
  <2>1. Options["annotation"] = <<":", "IDENT", "parameter">>
    BY DEF Options
  <2>2. Options["parameter"] = <<"<", "IDENT", ">">>
    BY DEF Options
  <2>3. Options["result"] = <<"->", "DecisionResult">>
    BY DEF Options
  <2> QED
    BY <2>1, <2>2, <2>3, TuplesCounted, RuleFacts
<1>3. Counted(Call)
  BY TuplesCounted DEF Call
<1> QED
  BY <1>1, <1>2, <1>3

LEMMA ProductionsCounted ==
    ASSUME NEW items \in Productions
    PROVE  Counted(items)
<1>1. CASE items \in UNION {Range(Forms[rule]) : rule \in DOMAIN Forms}
  <2>1. PICK rule \in DOMAIN Forms : items \in Range(Forms[rule])
    BY <1>1
  <2>2. PICK keyword \in DOMAIN Forms[rule] : items = Forms[rule][keyword]
    BY <2>1 DEF Range
  <2> QED
    BY <2>2, FormsCounted
<1>2. CASE items \in Range(Groups)
  <2>1. PICK rule \in DOMAIN Groups : items = Groups[rule]
    BY <1>2 DEF Range
  <2> QED
    BY <2>1, OthersCounted
<1>3. CASE items \in Range(Options)
  <2>1. PICK rule \in DOMAIN Options : items = Options[rule]
    BY <1>3 DEF Range
  <2> QED
    BY <2>1, OthersCounted
<1>4. CASE items = Call
  BY <1>4, OthersCounted
<1> QED
  BY <1>1, <1>2, <1>3, <1>4 DEF Productions

LEMMA ItemFacts ==
    /\ \A rule \in DOMAIN Lists : Lists[rule].of \in Items
    /\ \A rule \in DOMAIN Forms : \A keyword \in DOMAIN Forms[rule] : Forms[rule][keyword] \in Productions
    /\ \A rule \in DOMAIN Groups : Groups[rule] \in Productions
    /\ \A rule \in DOMAIN Options : Options[rule] \in Productions
    /\ Call \in Productions /\ "declarations" \in Items
<1>1. \A rule \in DOMAIN Lists : Lists[rule].of \in DOMAIN Forms \cup DOMAIN Groups
  <2>1. Lists["expressions"].of = "expression" /\ Lists["effects"].of = "effect"
    BY DEF Lists
  <2>2. Lists["statements"].of = "statement" /\ Lists["declarations"].of = "declaration"
    BY DEF Lists
  <2> QED
    BY <2>1, <2>2, RuleFacts, FormFacts
<1>2. \A rule \in DOMAIN Lists : Lists[rule].of \in Items
  BY <1>1 DEF Items, Rules
<1>3. "declarations" \in Items
  BY RuleFacts DEF Items, Rules
<1>4. ASSUME NEW rule \in DOMAIN Forms, NEW keyword \in DOMAIN Forms[rule]
      PROVE  Forms[rule][keyword] \in Productions
  <2>1. Forms[rule][keyword] \in Range(Forms[rule])
    BY DEF Range
  <2> QED
    BY <2>1 DEF Productions
<1>5. ASSUME NEW rule \in DOMAIN Groups PROVE Groups[rule] \in Productions
  BY DEF Productions, Range
<1>6. ASSUME NEW rule \in DOMAIN Options PROVE Options[rule] \in Productions
  BY DEF Productions, Range
<1>7. Call \in Productions
  BY DEF Productions
<1> QED
  BY <1>2, <1>3, <1>4, <1>5, <1>6, <1>7

LEMMA FollowLoop ==
    ASSUME NEW items, NEW read, NEW at, NEW room, NEW node, Len(items) \in Nat
    PROVE  \E f : /\ f[0] = Got(at, node)
                  /\ \A k \in 0 .. Len(items) - 1 : f[k + 1] = NextPart(items[k + 1], read, room, f[k])
                  /\ Follow(items, read, at, room, node) = f[Len(items)]
<1>1. PICK loop : loop = [of |-> "production", items |-> items, read |-> read, room |-> room]
  OBVIOUS
<1>2. \A x, i : Goes(loop, x, i) = NextPart(items[i], read, room, x)
  BY <1>1 DEF Goes
<1>3. PICK f : f = CHOOSE g : g = [k \in 0 .. Len(items) |->
                                     IF k = 0 THEN Got(at, node)
                                     ELSE NextPart(items[k], read, room, g[k - 1])]
  OBVIOUS
<1>4. \A g : Looped(loop, Got(at, node), g, Len(items)) <=>
                g = [k \in 0 .. Len(items) |->
                       IF k = 0 THEN Got(at, node) ELSE NextPart(items[k], read, room, g[k - 1])]
  BY <1>2 DEF Looped
<1>5. PICK n \in Nat : n = Len(items)
  OBVIOUS
<1>6. Looped(loop, Got(at, node), f, n)
  <2>1. \E g : Looped(loop, Got(at, node), g, n)
    BY Loops
  <2> QED
    BY <1>3, <1>4, <1>5, <2>1
<1>7. f[0] = Got(at, node)
  BY <1>6 DEF Looped
<1>8. Follow(items, read, at, room, node) = f[Len(items)]
  BY <1>3 DEF Follow
<1>9. ASSUME NEW k \in 0 .. Len(items) - 1
      PROVE  f[k + 1] = NextPart(items[k + 1], read, room, f[k])
  <2>1. k + 1 \in 0 .. n /\ k + 1 # 0 /\ (k + 1) - 1 = k
    BY <1>5
  <2>2. f[k + 1] = Goes(loop, f[k], k + 1)
    BY <1>6, <2>1 DEF Looped
  <2> QED
    BY <1>2, <2>2
<1> QED
  BY <1>7, <1>8, <1>9

LEMMA NestingLoop ==
    ASSUME NEW t, NEW limit, Deepest(t) \in Nat
    PROVE  \E f : /\ f[0] = NoRoom
                  /\ \A k \in 0 .. Deepest(t) - 1 : f[k + 1] = Around(t, limit, f[k])
                  /\ Read(t, limit) = f[Deepest(t)]
<1>1. PICK loop : loop = [of |-> "nesting", t |-> t, limit |-> limit]
  OBVIOUS
<1>2. \A x, i : Goes(loop, x, i) = Around(t, limit, x)
  BY <1>1 DEF Goes
<1>3. PICK f : f = CHOOSE g : g = [n \in 0 .. Deepest(t) |->
                                     IF n = 0 THEN NoRoom ELSE Around(t, limit, g[n - 1])]
  OBVIOUS
<1>4. \A g : Looped(loop, NoRoom, g, Deepest(t)) <=>
                g = [n \in 0 .. Deepest(t) |-> IF n = 0 THEN NoRoom ELSE Around(t, limit, g[n - 1])]
  BY <1>2 DEF Looped
<1>5. PICK n \in Nat : n = Deepest(t)
  OBVIOUS
<1>6. Looped(loop, NoRoom, f, n)
  <2>1. \E g : Looped(loop, NoRoom, g, n)
    BY Loops
  <2> QED
    BY <1>3, <1>4, <1>5, <2>1
<1>7. f[0] = NoRoom
  BY <1>6 DEF Looped
<1>8. Read(t, limit) = f[Deepest(t)]
  BY <1>3 DEF Read
<1>9. ASSUME NEW k \in 0 .. Deepest(t) - 1 PROVE f[k + 1] = Around(t, limit, f[k])
  <2>1. k + 1 \in 0 .. n /\ k + 1 # 0 /\ (k + 1) - 1 = k
    BY <1>5
  <2>2. f[k + 1] = Goes(loop, f[k], k + 1)
    BY <1>6, <2>1 DEF Looped
  <2> QED
    BY <1>2, <2>2
<1> QED
  BY <1>7, <1>8, <1>9

-----------------------------------------------------------------------------
(* What the native parser reads within its limits, n, and what the         *)
(* reference reads, p: a limit is met, or they read the same.              *)
Turned(n) == n.code \in {"F0001", "F2002"} /\ n = Bad(n.at, n.code)
Similar(n, p) == Turned(n) \/ (n = p /\ n.at \in Nat)
Within(d, e, gap) == /\ d \in [items : Nat, depth : Nat] /\ e \in [items : Int, depth : Int]
                     /\ e.items < 0 /\ e.depth < 0 /\ d.items - e.items = gap
Parallel(native, python, gap) ==
    \A item, at, d, e : item \in Items /\ at \in Nat /\ Within(d, e, gap) =>
                            Similar(native[item][at][d], python[item][at][e])

LEMMA SimpleReadings ==
    /\ \A at, node : Got(at, node).at = at /\ Got(at, node).code = "" /\ Got(at, node).node = node
    /\ \A at, code : Bad(at, code).at = at /\ Bad(at, code).code = code
    /\ \A at \in Nat : at + 1 \in Nat
    /\ \A at, code : code \in {"F0001", "F2002"} => Turned(Bad(at, code))
BY DEF Got, Bad, Turned

LEMMA PartsSimilar ==
    ASSUME NEW native, NEW python, NEW gap, Parallel(native, python, gap), NEW item \in Items,
           NEW d, NEW e, Within(d, e, gap), NEW n, NEW p, Similar(n, p)
    PROVE  Similar(NextPart(item, native, d, n), NextPart(item, python, e, p))
<1>1. PICK a : a = native[item][n.at][d]
  OBVIOUS
<1>2. PICK b : b = python[item][p.at][e]
  OBVIOUS
<1>3. CASE Turned(n)
  <2>1. NextPart(item, native, d, n) = n
    BY <1>3 DEF NextPart, Turned
  <2> QED
    BY <1>3, <2>1 DEF Similar
<1>4. CASE n = p /\ n.at \in Nat /\ n.code # ""
  BY <1>4 DEF NextPart, Similar
<1>5. CASE n = p /\ n.at \in Nat /\ n.code = ""
  <2>1. Similar(a, b)
    BY <1>1, <1>5, <1>2 DEF Parallel
  <2>2. CASE a.code # ""
    <3>1. NextPart(item, native, d, n) = a
      BY <1>1, <1>5, <1>2, <2>2 DEF NextPart
    <3>2. a = b => NextPart(item, python, e, p) = b
      BY <1>1, <1>5, <1>2, <2>2 DEF NextPart
    <3> QED
      BY <2>1, <3>1, <3>2 DEF Similar
  <2>3. CASE a.code = ""
    <3>1. a = b /\ a.at \in Nat
      BY <2>1, <2>3 DEF Similar, Turned
    <3>2. PICK node : node = IF item \in Rules \cup Kinds THEN Append(n.node, a.node) ELSE n.node
      OBVIOUS
    <3>3. NextPart(item, native, d, n) = Got(a.at, node)
      BY <1>1, <1>5, <1>2, <2>3, <3>2 DEF NextPart
    <3>4. NextPart(item, python, e, p) = Got(a.at, node)
      BY <1>1, <1>5, <1>2, <2>3, <3>1, <3>2 DEF NextPart
    <3>5. Got(a.at, node).at \in Nat
      BY <3>1, SimpleReadings
    <3> QED
      BY <3>3, <3>4, <3>5 DEF Similar
  <2> QED
    BY <2>2, <2>3
<1>6. Turned(n) \/ (n = p /\ n.at \in Nat)
  BY DEF Similar
<1> QED
  BY <1>3, <1>4, <1>5, <1>6

LEMMA FollowsSimilar ==
    ASSUME NEW native, NEW python, NEW gap, Parallel(native, python, gap), NEW items \in Productions,
           NEW at \in Nat, NEW d, NEW e, Within(d, e, gap), NEW node
    PROVE  Similar(Follow(items, native, at, d, node), Follow(items, python, at, e, node))
<1>1. Len(items) \in Nat /\ DOMAIN items = 1 .. Len(items)
  BY ProductionsCounted DEF Counted
<1>2. PICK m \in Nat : m = Len(items)
  BY <1>1
<1>3. PICK f : /\ f[0] = Got(at, node)
               /\ \A k \in 0 .. Len(items) - 1 : f[k + 1] = NextPart(items[k + 1], native, d, f[k])
               /\ Follow(items, native, at, d, node) = f[Len(items)]
  BY <1>1, FollowLoop
<1>4. PICK g : /\ g[0] = Got(at, node)
               /\ \A k \in 0 .. Len(items) - 1 : g[k + 1] = NextPart(items[k + 1], python, e, g[k])
               /\ Follow(items, python, at, e, node) = g[Len(items)]
  BY <1>1, FollowLoop
<1> DEFINE U == {k \in 0 .. m : Similar(f[k], g[k])}
<1>5. 0 \in U
  <2>1. 0 \in 0 .. m
    BY <1>2
  <2>2. Got(at, node).at \in Nat
    BY DEF Got
  <2> QED
    BY <1>3, <1>4, <2>1, <2>2 DEF Similar
<1>6. ASSUME NEW k \in 0 .. m - 1, k \in U PROVE k + 1 \in U
  <2>1. k + 1 \in DOMAIN items /\ k + 1 \in 0 .. m
    BY <1>1, <1>2
  <2>2. items[k + 1] \in Items
    BY <2>1, ProductionItems
  <2>3. Similar(f[k], g[k])
    BY <1>6
  <2>4. Similar(NextPart(items[k + 1], native, d, f[k]), NextPart(items[k + 1], python, e, g[k]))
    BY <2>2, <2>3, PartsSimilar
  <2> QED
    BY <1>2, <1>3, <1>4, <2>1, <2>4
<1>7. \A k \in 0 .. m : k \in U
  <2> HIDE DEF U
  <2> QED
    BY <1>5, <1>6, Climbs
<1>8. m \in U
  BY <1>7
<1> QED
  BY <1>2, <1>3, <1>4, <1>8

LEMMA WithinFacts ==
    ASSUME NEW d, NEW e, NEW gap, Within(d, e, gap)
    PROVE  /\ d \in Rooms /\ e \in Rooms
           /\ d.depth \in Nat /\ e.depth \in Int /\ e.depth < 0
           /\ d.items \in Nat /\ e.items \in Int /\ e.items < 0
           /\ d.depth # 0 => Within([d EXCEPT !.depth = @ - 1], [e EXCEPT !.depth = @ - 1], gap)
           /\ d.items # 0 => Within([d EXCEPT !.items = @ - 1], [e EXCEPT !.items = @ - 1], gap)
<1>1. /\ d \in Rooms /\ e \in Rooms
      /\ d.depth \in Nat /\ e.depth \in Int /\ e.depth < 0
      /\ d.items \in Nat /\ e.items \in Int /\ e.items < 0
      /\ d.items - e.items = gap
  BY DEF Within, Rooms
<1>2. d.depth # 0 => Within([d EXCEPT !.depth = @ - 1], [e EXCEPT !.depth = @ - 1], gap)
  BY DEF Within
<1>3. ASSUME d.items # 0 PROVE Within([d EXCEPT !.items = @ - 1], [e EXCEPT !.items = @ - 1], gap)
  <2>1. d.items - 1 \in Nat /\ e.items - 1 \in Int /\ e.items - 1 < 0
        /\ (d.items - 1) - (e.items - 1) = gap
    BY <1>1, <1>3
  <2> QED
    BY <1>1, <2>1 DEF Within
<1> QED
  BY <1>1, <1>2, <1>3

(* The rest of a list is told of, with the item before it.                 *)
LEMMA BeforeSimilar ==
    ASSUME NEW item, NEW n, NEW p, Similar(n, p)
    PROVE  Similar(IF n.code # "" THEN n ELSE Got(n.at, <<item>> \o n.node),
                   IF p.code # "" THEN p ELSE Got(p.at, <<item>> \o p.node))
<1>1. CASE Turned(n)
  BY <1>1 DEF Turned, Similar
<1>2. CASE n = p /\ n.at \in Nat /\ n.code # ""
  BY <1>2 DEF Similar
<1>3. CASE n = p /\ n.at \in Nat /\ n.code = ""
  BY <1>3 DEF Similar, Got
<1> QED
  BY <1>1, <1>2, <1>3 DEF Similar

LEMMA ListsSimilar ==
    ASSUME NEW t, NEW native, NEW python, NEW limit, NEW none, NEW gap,
           Parallel(native, python, gap), Within(limit, none, gap), NEW rule \in DOMAIN Lists,
           NEW at \in Nat, NEW d, NEW e, Within(d, e, gap)
    PROVE  Similar(ReadList(rule, t, native, at, d, limit), ReadList(rule, t, python, at, e, none))
<1>1. PICK list : list = Lists[rule]
  OBVIOUS
<1>2. PICK first \in BOOLEAN : first = (d.items = limit.items)
  OBVIOUS
<1>3. first = (e.items = none.items)
  BY <1>2 DEF Within
<1>4. PICK ended \in BOOLEAN : ended = ((IF list.until = "EOF" THEN t[at].kind ELSE t[at].value) = list.until)
  OBVIOUS
<1>5. PICK wide : wide = [d EXCEPT !.items = limit.items]
  OBVIOUS
<1>6. PICK broad : broad = [e EXCEPT !.items = none.items]
  OBVIOUS
<1>7. Within(wide, broad, gap)
  BY <1>5, <1>6 DEF Within
<1>8. list.of \in Items /\ rule \in Items
  BY <1>1, ItemFacts DEF Items, Rules
<1>9. PICK a : a = native[list.of][at][wide]
  OBVIOUS
<1>10. PICK b : b = python[list.of][at][broad]
  OBVIOUS
<1>11. Similar(a, b)
  BY <1>7, <1>8, <1>9, <1>10 DEF Parallel
<1>12. PICK x, y : x = ReadList(rule, t, native, at, d, limit) /\ y = ReadList(rule, t, python, at, e, none)
  OBVIOUS
<1>13. SUFFICES Similar(x, y)
  BY <1>12
<1>14. CASE ended /\ (list.trailing \/ first)
  <2>1. x = Got(at, <<>>)
    BY <1>1, <1>2, <1>4, <1>12, <1>14 DEF ReadList
  <2>2. y = Got(at, <<>>)
    BY <1>1, <1>3, <1>4, <1>12, <1>14 DEF ReadList
  <2> QED
    BY <2>1, <2>2, SimpleReadings DEF Similar
<1>15. CASE ~ended /\ rule = "statements" /\ t[at].kind = "EOF"
  <2>1. x = Bad(at, "F2001")
    BY <1>1, <1>2, <1>4, <1>12, <1>15 DEF ReadList
  <2>2. y = Bad(at, "F2001")
    BY <1>1, <1>3, <1>4, <1>12, <1>15 DEF ReadList
  <2> QED
    BY <2>1, <2>2 DEF Similar, Bad
<1>16. CASE ~(ended /\ (list.trailing \/ first)) /\ ~(~ended /\ rule = "statements" /\ t[at].kind = "EOF")
  <2>1. CASE d.items = 0
    <3>1. x = Full(at)
      BY <1>1, <1>2, <1>4, <1>12, <1>16, <2>1 DEF ReadList
    <3> QED
      BY <3>1, SimpleReadings DEF Full, Similar
  <2>2. CASE d.items # 0 /\ a.code # ""
    <3>1. x = a
      BY <1>1, <1>2, <1>4, <1>5, <1>9, <1>12, <1>16, <2>2 DEF ReadList
    <3>2. e.items # 0
      BY DEF Within
    <3>3. a = b => y = b
      BY <1>1, <1>3, <1>4, <1>6, <1>10, <1>12, <1>16, <2>2, <3>2 DEF ReadList
    <3> QED
      BY <1>11, <3>1, <3>3 DEF Similar
  <2>3. CASE d.items # 0 /\ a.code = ""
    <3>1. a = b /\ a.at \in Nat /\ b.code = ""
      BY <1>11, <2>3 DEF Similar, Turned
    <3>2. e.items # 0
      BY DEF Within
    <3>3. CASE list.commas /\ t[a.at].value # ","
      <4>1. x = Got(a.at, <<a.node>>)
        BY <1>1, <1>2, <1>4, <1>5, <1>9, <1>12, <1>16, <2>3, <3>3 DEF ReadList
      <4>2. y = Got(a.at, <<a.node>>)
        BY <1>1, <1>3, <1>4, <1>6, <1>10, <1>12, <1>16, <3>1, <3>2, <3>3 DEF ReadList
      <4> QED
        BY <3>1, <4>1, <4>2, SimpleReadings DEF Similar
    <3>4. CASE ~(list.commas /\ t[a.at].value # ",")
      <4>1. a.at \in Nat
        BY <3>1
      <4>2. PICK j \in Nat : j = a.at + 1
        BY <4>1, SimpleReadings
      <4>3. PICK next \in Nat : next = IF list.commas THEN a.at + 1 ELSE a.at
        BY <3>1, <4>2, Zenon
      <4>4. PICK less : less = [d EXCEPT !.items = @ - 1]
        OBVIOUS
      <4>5. PICK fewer : fewer = [e EXCEPT !.items = @ - 1]
        OBVIOUS
      <4>6. Within(less, fewer, gap)
        BY <2>3, <4>4, <4>5, WithinFacts
      <4>7. PICK n : n = native[rule][next][less]
        OBVIOUS
      <4>8. PICK p : p = python[rule][next][fewer]
        OBVIOUS
      <4>9. Similar(n, p)
        BY <1>8, <4>6, <4>7, <4>8 DEF Parallel
      <4>10. x = IF n.code # "" THEN n ELSE Got(n.at, <<a.node>> \o n.node)
        BY <1>1, <1>2, <1>4, <1>5, <1>9, <1>12, <1>16, <2>3, <3>4, <4>3, <4>4, <4>7 DEF ReadList
      <4>11. y = IF p.code # "" THEN p ELSE Got(p.at, <<a.node>> \o p.node)
        BY <1>1, <1>3, <1>4, <1>6, <1>10, <1>12, <1>16, <3>1, <3>2, <3>4, <4>3, <4>5, <4>8 DEF ReadList
      <4> QED
        BY <4>9, <4>10, <4>11, BeforeSimilar
    <3> QED
      BY <3>3, <3>4
  <2> QED
    BY <2>1, <2>2, <2>3
<1> QED
  BY <1>14, <1>15, <1>16

LEMMA SimplySimilar ==
    /\ \A n, p, at, node : n = Got(at, node) /\ p = Got(at, node) /\ at \in Nat => Similar(n, p)
    /\ \A n, p, at : n = Bad(at, "F2001") /\ p = Bad(at, "F2001") /\ at \in Nat => Similar(n, p)
<1>1. \A at, node : Got(at, node).at = at
  BY DEF Got
<1>2. \A at, code : Bad(at, code).at = at
  BY DEF Bad
<1> QED
  BY <1>1, <1>2 DEF Similar

LEMMA ExpressionsSimilar ==
    ASSUME NEW t, NEW native, NEW python, NEW gap, Parallel(native, python, gap),
           NEW at \in Nat, NEW d, NEW e, Within(d, e, gap)
    PROVE  Similar(ReadExpression(t, native, at, d), ReadExpression(t, python, at, e))
<1>1. PICK n : n = ReadExpression(t, native, at, d)
  OBVIOUS
<1>2. PICK p : p = ReadExpression(t, python, at, e)
  OBVIOUS
<1>3. SUFFICES Similar(n, p)
  BY <1>1, <1>2
<1>4. PICK token, dot : token = t[at] /\ dot = (t[at + 1].value = ".")
  OBVIOUS
<1>5. e.depth # 0
  BY DEF Within
<1>6. at + 1 \in Nat
  OBVIOUS
<1>7. PICK inner : inner = [d EXCEPT !.depth = @ - 1]
  OBVIOUS
<1>8. PICK within : within = [e EXCEPT !.depth = @ - 1]
  OBVIOUS
<1>9. CASE d.depth = 0
  <2>1. n = Bad(at, "F2002")
    BY <1>1, <1>9 DEF ReadExpression
  <2> QED
    BY <2>1, SimpleReadings DEF Similar
<1>10. ASSUME d.depth # 0, NEW items \in Productions, NEW node
       PROVE  Similar(Follow(items, native, at + 1, inner, node), Follow(items, python, at + 1, within, node))
  <2>1. Within(inner, within, gap)
    BY <1>7, <1>8, <1>10, WithinFacts
  <2> QED
    BY <1>6, <2>1, FollowsSimilar
<1>11. CASE d.depth # 0 /\ token.value \in DOMAIN Forms["expression"]
  <2>1. PICK items, node : items = Forms["expression"][token.value] /\ node = <<token.value>>
    OBVIOUS
  <2>2. items \in Productions
    BY <1>11, <2>1, FormFacts, ItemFacts
  <2>3. n = Follow(items, native, at + 1, inner, node)
    BY <1>1, <1>4, <1>7, <1>11, <2>1 DEF ReadExpression, ReadForm
  <2>4. p = Follow(items, python, at + 1, within, node)
    BY <1>2, <1>4, <1>5, <1>8, <1>11, <2>1 DEF ReadExpression, ReadForm
  <2> QED
    BY <1>10, <1>11, <2>2, <2>3, <2>4
<1>12. CASE d.depth # 0 /\ token.value \notin DOMAIN Forms["expression"]
  <2>1. CASE token.kind = "STRING"
    <3>1. n = Got(at + 1, <<"string", token.value>>)
      BY <1>1, <1>4, <1>12, <2>1 DEF ReadExpression
    <3>2. p = Got(at + 1, <<"string", token.value>>)
      BY <1>2, <1>4, <1>5, <1>12, <2>1 DEF ReadExpression
    <3> QED
      BY <1>6, <3>1, <3>2, SimplySimilar
  <2>2. CASE token.kind = "INT"
    <3>1. n = Got(at + 1, <<"int", Numeral[token.value]>>)
      BY <1>1, <1>4, <1>12, <2>2 DEF ReadExpression
    <3>2. p = Got(at + 1, <<"int", Numeral[token.value]>>)
      BY <1>2, <1>4, <1>5, <1>12, <2>2 DEF ReadExpression
    <3> QED
      BY <1>6, <3>1, <3>2, SimplySimilar
  <2>3. CASE token.kind = "IDENT" /\ t[at + 1].value = "."
    <3>1. n = Follow(Call, native, at + 1, inner, <<"call", token.value>>)
      BY <1>1, <1>4, <1>7, <1>12, <2>3 DEF ReadExpression
    <3>2. p = Follow(Call, python, at + 1, within, <<"call", token.value>>)
      BY <1>2, <1>4, <1>5, <1>8, <1>12, <2>3 DEF ReadExpression
    <3> QED
      BY <1>10, <1>12, <3>1, <3>2, ItemFacts
  <2>4. CASE token.kind = "IDENT" /\ t[at + 1].value # "."
    <3>1. n = Got(at + 1, <<"var", token.value>>)
      BY <1>1, <1>4, <1>12, <2>4 DEF ReadExpression
    <3>2. p = Got(at + 1, <<"var", token.value>>)
      BY <1>2, <1>4, <1>5, <1>12, <2>4 DEF ReadExpression
    <3> QED
      BY <1>6, <3>1, <3>2, SimplySimilar
  <2>5. CASE token.kind \notin {"STRING", "INT", "IDENT"}
    <3>1. n = Bad(at, "F2001")
      BY <1>1, <1>4, <1>12, <2>5 DEF ReadExpression
    <3>2. p = Bad(at, "F2001")
      BY <1>2, <1>4, <1>5, <1>12, <2>5 DEF ReadExpression
    <3> QED
      BY <3>1, <3>2, SimplySimilar
  <2> QED
    BY <2>1, <2>2, <2>3, <2>4, <2>5
<1> QED
  BY <1>9, <1>11, <1>12

LEMMA ItemsSimilar ==
    ASSUME NEW t, NEW native, NEW python, NEW limit, NEW none, NEW gap,
           Parallel(native, python, gap), Within(limit, none, gap), NEW item \in Items,
           NEW at \in Nat, NEW d, NEW e, Within(d, e, gap)
    PROVE  Similar(ReadItem(item, t, native, at, d, limit), ReadItem(item, t, python, at, e, none))
<1>1. PICK n : n = ReadItem(item, t, native, at, d, limit)
  OBVIOUS
<1>2. PICK p : p = ReadItem(item, t, python, at, e, none)
  OBVIOUS
<1>3. SUFFICES Similar(n, p)
  BY <1>1, <1>2
<1>4. PICK token : token = t[at]
  OBVIOUS
<1>5. at + 1 \in Nat
  OBVIOUS
<1>6. /\ \A k \in Kinds : k \notin Rules
      /\ \A k \in DOMAIN Forms : k \notin DOMAIN Groups /\ k \notin DOMAIN Options /\ k \notin DOMAIN Lists
      /\ \A k \in DOMAIN Groups : k \notin DOMAIN Options /\ k \notin DOMAIN Lists
      /\ \A k \in DOMAIN Options : k \notin DOMAIN Lists
      /\ "expression" \in DOMAIN Forms
  BY RuleFacts, FormFacts DEF Kinds, Rules
<1>7. Rules = DOMAIN Forms \cup DOMAIN Groups \cup DOMAIN Options \cup DOMAIN Lists
  BY DEF Rules
<1>8. CASE item \in Kinds
  <2>1. n = IF token.kind = item THEN Got(at + 1, token.value) ELSE Bad(at, "F2001")
    BY <1>1, <1>4, <1>6, <1>7, <1>8 DEF ReadItem
  <2>2. p = IF token.kind = item THEN Got(at + 1, token.value) ELSE Bad(at, "F2001")
    BY <1>2, <1>4, <1>6, <1>7, <1>8 DEF ReadItem
  <2> QED
    BY <1>5, <2>1, <2>2, SimplySimilar
<1>9. CASE item = "expression"
  <2>1. n = ReadExpression(t, native, at, d)
    BY <1>1, <1>6, <1>7, <1>9 DEF ReadItem
  <2>2. p = ReadExpression(t, python, at, e)
    BY <1>2, <1>6, <1>7, <1>9 DEF ReadItem
  <2> QED
    BY <2>1, <2>2, ExpressionsSimilar
<1>10. CASE item \in DOMAIN Forms \ {"expression"}
  <2>1. CASE token.value \in DOMAIN Forms[item]
    <3>1. PICK items, node : items = Forms[item][token.value] /\ node = <<token.value>>
      OBVIOUS
    <3>2. items \in Productions
      BY <1>10, <2>1, <3>1, ItemFacts
    <3>3. n = Follow(items, native, at + 1, d, node)
      BY <1>1, <1>4, <1>6, <1>7, <1>10, <2>1, <3>1 DEF ReadItem, ReadForm
    <3>4. p = Follow(items, python, at + 1, e, node)
      BY <1>2, <1>4, <1>6, <1>7, <1>10, <2>1, <3>1 DEF ReadItem, ReadForm
    <3> QED
      BY <1>5, <3>2, <3>3, <3>4, FollowsSimilar
  <2>2. CASE token.value \notin DOMAIN Forms[item]
    <3>1. n = Bad(at, "F2001")
      BY <1>1, <1>4, <1>6, <1>7, <1>10, <2>2 DEF ReadItem
    <3>2. p = Bad(at, "F2001")
      BY <1>2, <1>4, <1>6, <1>7, <1>10, <2>2 DEF ReadItem
    <3> QED
      BY <3>1, <3>2, SimplySimilar
  <2> QED
    BY <2>1, <2>2
<1>11. CASE item \in DOMAIN Groups
  <2>1. n = Follow(Groups[item], native, at, d, <<>>)
    BY <1>1, <1>6, <1>7, <1>11 DEF ReadItem
  <2>2. p = Follow(Groups[item], python, at, e, <<>>)
    BY <1>2, <1>6, <1>7, <1>11 DEF ReadItem
  <2>3. Groups[item] \in Productions
    BY <1>11, ItemFacts
  <2> QED
    BY <2>1, <2>2, <2>3, FollowsSimilar
<1>12. CASE item \in DOMAIN Options
  <2>1. CASE token.value = Options[item][1]
    <3>1. n = Follow(Options[item], native, at, d, <<>>)
      BY <1>1, <1>4, <1>6, <1>7, <1>12, <2>1 DEF ReadItem
    <3>2. p = Follow(Options[item], python, at, e, <<>>)
      BY <1>2, <1>4, <1>6, <1>7, <1>12, <2>1 DEF ReadItem
    <3>3. Options[item] \in Productions
      BY <1>12, ItemFacts
    <3> QED
      BY <3>1, <3>2, <3>3, FollowsSimilar
  <2>2. CASE token.value # Options[item][1]
    <3>1. n = Got(at, <<>>)
      BY <1>1, <1>4, <1>6, <1>7, <1>12, <2>2 DEF ReadItem
    <3>2. p = Got(at, <<>>)
      BY <1>2, <1>4, <1>6, <1>7, <1>12, <2>2 DEF ReadItem
    <3> QED
      BY <3>1, <3>2, SimplySimilar
  <2> QED
    BY <2>1, <2>2
<1>13. CASE item \in DOMAIN Lists
  <2>1. n = ReadList(item, t, native, at, d, limit)
    BY <1>1, <1>6, <1>7, <1>13 DEF ReadItem
  <2>2. p = ReadList(item, t, python, at, e, none)
    BY <1>2, <1>6, <1>7, <1>13 DEF ReadItem
  <2> QED
    BY <1>13, <2>1, <2>2, ListsSimilar
<1>14. CASE item \notin Kinds \cup Rules
  <2>1. n = IF token.value = item THEN Got(at + 1, item) ELSE Bad(at, "F2001")
    BY <1>1, <1>4, <1>6, <1>7, <1>14 DEF ReadItem
  <2>2. p = IF token.value = item THEN Got(at + 1, item) ELSE Bad(at, "F2001")
    BY <1>2, <1>4, <1>6, <1>7, <1>14 DEF ReadItem
  <2> QED
    BY <1>5, <2>1, <2>2, SimplySimilar
<1> QED
  BY <1>7, <1>8, <1>9, <1>10, <1>11, <1>12, <1>13, <1>14

LEMMA AroundFacts ==
    ASSUME NEW t, NEW limit, NEW read, NEW item \in Items, NEW at \in Nat, NEW room \in Rooms
    PROVE  /\ Around(t, limit, read)[item][at][room] = ReadItem(item, t, read, at, room, limit)
           /\ NoRoom[item][at][room] = Bad(at, "F2001")
BY DEF Around, NoRoom

LEMMA ReadingsSimilar ==
    ASSUME NEW T, NEW t \in Seq(T), NEW limit, NEW none, NEW gap, Within(limit, none, gap)
    PROVE  Parallel(Read(t, limit), Read(t, none), gap)
<1>1. Deepest(t) \in Nat
  BY DEF Deepest
<1>2. PICK m \in Nat : m = Deepest(t)
  BY <1>1
<1>3. PICK f : /\ f[0] = NoRoom
               /\ \A k \in 0 .. m - 1 : f[k + 1] = Around(t, limit, f[k])
               /\ Read(t, limit) = f[m]
  BY <1>1, <1>2, NestingLoop
<1>4. PICK g : /\ g[0] = NoRoom
               /\ \A k \in 0 .. m - 1 : g[k + 1] = Around(t, none, g[k])
               /\ Read(t, none) = g[m]
  BY <1>1, <1>2, NestingLoop
<1>5. Parallel(NoRoom, NoRoom, gap)
  <2>1. ASSUME NEW item \in Items, NEW at \in Nat, NEW d, NEW e, Within(d, e, gap)
        PROVE  Similar(NoRoom[item][at][d], NoRoom[item][at][e])
    <3>1. d \in Rooms /\ e \in Rooms
      BY <2>1, WithinFacts
    <3>2. NoRoom[item][at][d] = Bad(at, "F2001")
      BY <3>1, AroundFacts
    <3>3. NoRoom[item][at][e] = Bad(at, "F2001")
      BY <3>1, AroundFacts
    <3> QED
      BY <3>2, <3>3, SimplySimilar
  <2> QED
    BY <2>1 DEF Parallel
<1>6. ASSUME NEW native, NEW python, Parallel(native, python, gap)
      PROVE  Parallel(Around(t, limit, native), Around(t, none, python), gap)
  <2>1. ASSUME NEW item \in Items, NEW at \in Nat, NEW d, NEW e, Within(d, e, gap)
        PROVE  Similar(Around(t, limit, native)[item][at][d], Around(t, none, python)[item][at][e])
    <3>1. d \in Rooms /\ e \in Rooms
      BY <2>1, WithinFacts
    <3>2. Around(t, limit, native)[item][at][d] = ReadItem(item, t, native, at, d, limit)
      BY <3>1, AroundFacts
    <3>3. Around(t, none, python)[item][at][e] = ReadItem(item, t, python, at, e, none)
      BY <3>1, AroundFacts
    <3>4. Similar(ReadItem(item, t, native, at, d, limit), ReadItem(item, t, python, at, e, none))
      BY <1>6, <2>1, ItemsSimilar
    <3> QED
      BY <3>2, <3>3, <3>4
  <2> QED
    BY <2>1 DEF Parallel
<1> DEFINE U == {k \in 0 .. m : Parallel(f[k], g[k], gap)}
<1>7. 0 \in U
  BY <1>2, <1>3, <1>4, <1>5
<1>8. ASSUME NEW k \in 0 .. m - 1, k \in U PROVE k + 1 \in U
  <2>1. k + 1 \in 0 .. m
    BY <1>2
  <2>2. Parallel(f[k], g[k], gap)
    BY <1>8
  <2>3. Parallel(Around(t, limit, f[k]), Around(t, none, g[k]), gap)
    BY <1>6, <2>2
  <2> QED
    BY <1>3, <1>4, <2>1, <2>3
<1>9. \A k \in 0 .. m : k \in U
  <2> HIDE DEF U
  <2> QED
    BY <1>7, <1>8, Climbs
<1>10. m \in U
  BY <1>9
<1> QED
  BY <1>3, <1>4, <1>10

LEMMA ProgramsReadAlike ==
    ASSUME NEW T, NEW t \in Seq(T), NEW limit \in [items : Nat, depth : Nat]
    PROVE  Parse(t, limit) = Parse(t, Unlimited) \/ Parse(t, limit).code \in {"F0001", "F2002"}
<1>1. PICK gap : gap = limit.items - Unlimited.items
  OBVIOUS
<1>2. Within(limit, Unlimited, gap)
  BY <1>1 DEF Within, Unlimited
<1>3. Parallel(Read(t, limit), Read(t, Unlimited), gap)
  BY <1>2, ReadingsSimilar
<1>4. PICK n : n = Read(t, limit)["declarations"][1][limit]
  OBVIOUS
<1>5. PICK p : p = Read(t, Unlimited)["declarations"][1][Unlimited]
  OBVIOUS
<1>6. Similar(n, p)
  <2>1. "declarations" \in Items /\ 1 \in Nat
    BY ItemFacts
  <2> QED
    BY <1>2, <1>3, <1>4, <1>5, <2>1 DEF Parallel
<1>7. Parse(t, limit) = [n EXCEPT !.node = <<Of("resource", @), Of("model", @), Of("decision", @)>>]
  BY <1>4 DEF Parse
<1>8. Parse(t, Unlimited) = [p EXCEPT !.node = <<Of("resource", @), Of("model", @), Of("decision", @)>>]
  BY <1>5 DEF Parse
<1>9. CASE n = p
  BY <1>7, <1>8, <1>9
<1>10. CASE Turned(n)
  <2>1. PICK code : code = n.code
    OBVIOUS
  <2>2. code \in {"F0001", "F2002"} /\ n = [at |-> n.at, code |-> code, node |-> <<>>]
    BY <1>10, <2>1 DEF Turned, Bad
  <2>3. [n EXCEPT !.node = <<Of("resource", @), Of("model", @), Of("decision", @)>>].code = code
    BY <2>2
  <2> QED
    BY <1>7, <2>2, <2>3
<1> QED
  BY <1>6, <1>9, <1>10 DEF Similar

-----------------------------------------------------------------------------
(* What is typed and changed stays a text and a program.                   *)
Drafted ==
    /\ characters \in Seq(Alphabet)
    /\ tokens \in Seq(Tokens)
    /\ cursor \in Nat /\ (tokens # <<>> => cursor >= 1)

LEMMA DraftBegins == DraftInit => Drafted
<1>1. SUFFICES ASSUME DraftInit PROVE Drafted
  OBVIOUS
<1>2. characters \in Seq(Alphabet)
  BY <1>1 DEF DraftInit
<1>3. tokens \in Seq(Tokens)
  <2>1. <<>> \in Seq(Tokens)
    OBVIOUS
  <2> QED
    BY <1>1, <2>1, DocumentsAssumption DEF DraftInit
<1>4. DOMAIN tokens = 1 .. Len(tokens)
  BY <1>3
<1> QED
  BY <1>1, <1>2, <1>3, <1>4 DEF DraftInit, Drafted

LEMMA DraftPut ==
    ASSUME Drafted, NEW new \in Seq(Tokens), Put(new)
    PROVE  Drafted'
<1>1. /\ tokens # <<>> /\ cursor < Len(tokens) /\ characters' = characters
      /\ tokens' = SubSeq(tokens, 1, cursor - 1) \o new \o SubSeq(tokens, cursor + 1, Len(tokens))
      /\ cursor' = cursor + Len(new)
  BY DEF Put
<1>2. cursor \in 1 .. Len(tokens) /\ Len(tokens) \in Nat /\ tokens \in Seq(Tokens) /\ Len(new) \in Nat
  BY <1>1 DEF Drafted
<1>3. SubSeq(tokens, 1, cursor - 1) \in Seq(Tokens)
  BY <1>2
<1>4. SubSeq(tokens, cursor + 1, Len(tokens)) \in Seq(Tokens)
  BY <1>2
<1>5. SubSeq(tokens, 1, cursor - 1) \o new \in Seq(Tokens)
  BY <1>3
<1>6. tokens' \in Seq(Tokens)
  BY <1>1, <1>4, <1>5
<1>7. cursor' \in Nat /\ cursor' >= 1
  BY <1>1, <1>2
<1> QED
  BY <1>1, <1>6, <1>7 DEF Drafted

LEMMA DraftGoesOn == Drafted /\ [DraftNext]_draft => Drafted'
<1>1. SUFFICES ASSUME Drafted, [DraftNext]_draft PROVE Drafted'
  OBVIOUS
<1>2. ASSUME NEW c \in Alphabet, Type(c) PROVE Drafted'
  <2>1. characters \in Seq(Alphabet)
    BY <1>1 DEF Drafted
  <2>2. characters' \in Seq(Alphabet)
    BY <1>2, <2>1 DEF Type
  <2> QED
    BY <1>1, <1>2, <2>2 DEF Type, Drafted
<1>3. ASSUME NEW token \in Tokens, Replace(token) PROVE Drafted'
  <2>1. <<token>> \in Seq(Tokens)
    OBVIOUS
  <2> QED
    BY <1>1, <1>3, <2>1, DraftPut DEF Replace
<1>4. ASSUME tokens # <<>>, cursor < Len(tokens) PROVE tokens[cursor] \in Tokens
  BY <1>1, <1>4 DEF Drafted
<1>5. ASSUME NEW token \in Tokens, Insert(token) PROVE Drafted'
  <2>1. tokens[cursor] \in Tokens
    BY <1>4, <1>5 DEF Insert, Put
  <2>2. <<token, tokens[cursor]>> \in Seq(Tokens)
    BY <2>1
  <2> QED
    BY <1>1, <1>5, <2>2, DraftPut DEF Insert
<1>6. ASSUME Delete PROVE Drafted'
  <2>1. <<>> \in Seq(Tokens)
    OBVIOUS
  <2> QED
    BY <1>1, <1>6, <2>1, DraftPut DEF Delete
<1>7. ASSUME Requote PROVE Drafted'
  <2>1. tokens[cursor] \in Tokens
    BY <1>4, <1>7 DEF Requote, Put
  <2>2. [kind |-> "STRING", value |-> tokens[cursor].value] \in Tokens
    BY <2>1 DEF Tokens
  <2>3. PICK token \in Tokens : token = [kind |-> "STRING", value |-> tokens[cursor].value]
    BY <2>2
  <2>4. <<token>> \in Seq(Tokens) /\ Put(<<token>>)
    BY <1>7, <2>3 DEF Requote
  <2> QED
    BY <1>1, <2>4, DraftPut
<1>8. CASE UNCHANGED draft
  BY <1>1, <1>8 DEF draft, Drafted
<1>9. Vocabulary \subseteq Tokens
  BY DocumentsAssumption
<1> QED
  BY <1>1, <1>2, <1>3, <1>5, <1>6, <1>7, <1>8, <1>9 DEF DraftNext

LEMMA FrontEndsAgreeThere == Drafted => FrontEndsAgree
<1>1. SUFFICES ASSUME Drafted PROVE LexersAgree /\ ParsersAgree
  BY DEF FrontEndsAgree
<1>2. LexersAgree
  <2>1. PICK S : S = Alphabet \cup Marks
    OBVIOUS
  <2>2. Marks \subseteq S /\ Alphabet \subseteq S
    BY <2>1
  <2>3. characters \in Seq(S)
    BY <1>1, <2>2 DEF Drafted
  <2> QED
    BY <2>2, <2>3, SourcesReadAlike DEF LexersAgree
<1>3. ParsersAgree
  BY <1>1, ProgramsReadAlike, DocumentsAssumption DEF Drafted, ParsersAgree
<1> QED
  BY <1>2, <1>3

-----------------------------------------------------------------------------
(* Quoted text is read back, character by character.                       *)
LEMMA QuotingLoop ==
    ASSUME NEW text, Len(text) \in Nat
    PROVE  \E f : /\ f[0] = <<Quote>>
                  /\ \A k \in 0 .. Len(text) - 1 : f[k + 1] = f[k] \o Written(text[k + 1])
                  /\ Quoted(text) = f[Len(text)] \o <<Quote>>
<1>1. PICK loop : loop = [of |-> "quoting", text |-> text]
  OBVIOUS
<1>2. \A x, i : Goes(loop, x, i) = x \o Written(text[i])
  BY <1>1 DEF Goes
<1>3. PICK f : f = CHOOSE g : g = [k \in 0 .. Len(text) |->
                                     IF k = 0 THEN <<Quote>> ELSE g[k - 1] \o Written(text[k])]
  OBVIOUS
<1>4. \A g : Looped(loop, <<Quote>>, g, Len(text)) <=>
                g = [k \in 0 .. Len(text) |-> IF k = 0 THEN <<Quote>> ELSE g[k - 1] \o Written(text[k])]
  BY <1>2 DEF Looped
<1>5. PICK n \in Nat : n = Len(text)
  OBVIOUS
<1>6. Looped(loop, <<Quote>>, f, n)
  <2>1. \E g : Looped(loop, <<Quote>>, g, n)
    BY Loops
  <2> QED
    BY <1>3, <1>4, <1>5, <2>1
<1>7. f[0] = <<Quote>>
  BY <1>6 DEF Looped
<1>8. Quoted(text) = f[Len(text)] \o <<Quote>>
  BY <1>3 DEF Quoted
<1>9. ASSUME NEW k \in 0 .. Len(text) - 1 PROVE f[k + 1] = f[k] \o Written(text[k + 1])
  <2>1. k + 1 \in 0 .. n /\ k + 1 # 0 /\ (k + 1) - 1 = k
    BY <1>5
  <2>2. f[k + 1] = Goes(loop, f[k], k + 1)
    BY <1>6, <2>1 DEF Looped
  <2> QED
    BY <1>2, <2>2
<1> QED
  BY <1>7, <1>8, <1>9

(* What is written for a character.                                        *)
Script == Marks \cup {"n", "r", "t", "u"}
LEMMA WrittenCases ==
    ASSUME NEW c
    PROVE  \/ /\ c \in Controls /\ Written(c) = <<Backslash, "u">> /\ "u" \notin DOMAIN Escapes
           \/ /\ c \notin Controls /\ c \in Marks
              /\ \E x \in {"n", "r", "t"} \cup Marks :
                    x \in DOMAIN Escapes /\ Escapes[x] = c /\ Written(c) = <<Backslash, x>>
           \/ c \notin Controls /\ c \notin Marks /\ Written(c) = <<c>>
<1>1. DOMAIN Escapes = {"n", "r", "t", Quote, Backslash}
  BY DEF Escapes
<1>2. /\ Escapes["n"] = NewLine /\ Escapes["r"] = "cr" /\ Escapes["t"] = "tab"
      /\ Escapes[Quote] = Quote /\ Escapes[Backslash] = Backslash
  BY DEF Escapes, Quote, Backslash
<1>3. Quote # Backslash /\ NewLine \notin {Quote, Backslash, "cr", "tab"}
      /\ "cr" \notin {Quote, Backslash, "tab"} /\ "tab" \notin {Quote, Backslash}
      /\ "u" \notin {"n", "r", "t", Quote, Backslash}
  BY DEF Quote, Backslash, NewLine
<1>4. \A m \in Marks : m \notin Controls
  <2>1. "cr" \in Blanks /\ "tab" \in Blanks
    BY DEF Blanks
  <2> QED
    BY <2>1, ClassFacts DEF Marks
<1>5. CASE c \in Controls
  <2>1. c \notin Marks
    BY <1>4, <1>5
  <2>2. Written(c) = <<Backslash, "u">>
    BY <1>5, <2>1 DEF Written, Marks
  <2> QED
    BY <1>1, <1>3, <1>5, <2>2
<1>6. CASE c = NewLine
  <2>1. Written(c) = <<Backslash, "n">>
    BY <1>3, <1>4, <1>6 DEF Written, Marks
  <2> QED
    BY <1>1, <1>2, <1>4, <1>6, <2>1 DEF Marks
<1>7. CASE c = "cr"
  <2>1. Written(c) = <<Backslash, "r">>
    BY <1>3, <1>4, <1>7 DEF Written, Marks
  <2> QED
    BY <1>1, <1>2, <1>4, <1>7, <2>1 DEF Marks
<1>8. CASE c = "tab"
  <2>1. Written(c) = <<Backslash, "t">>
    BY <1>3, <1>4, <1>8 DEF Written, Marks
  <2> QED
    BY <1>1, <1>2, <1>4, <1>8, <2>1 DEF Marks
<1>9. CASE c \in {Quote, Backslash}
  <2>1. Written(c) = <<Backslash, c>>
    BY <1>3, <1>4, <1>9 DEF Written, Marks
  <2> QED
    BY <1>1, <1>2, <1>4, <1>9, <2>1 DEF Marks
<1>10. CASE c \notin Controls /\ c \notin Marks
  BY <1>10 DEF Written, Marks
<1> QED
  BY <1>5, <1>6, <1>7, <1>8, <1>9, <1>10 DEF Marks

LEMMA WrittenFacts ==
    ASSUME NEW T, Script \subseteq T, NEW c \in T
    PROVE  Written(c) \in Seq(T) /\ Len(Written(c)) \in {1, 2}
<1>1. Backslash \in T /\ \A x \in {"n", "r", "t", "u"} \cup Marks : x \in T
  BY DEF Script, Marks
<1>2. \A x \in T : <<Backslash, x>> \in Seq(T) /\ Len(<<Backslash, x>>) = 2
  BY <1>1
<1>3. <<c>> \in Seq(T) /\ Len(<<c>>) = 1
  OBVIOUS
<1> QED
  BY <1>1, <1>2, <1>3, WrittenCases

(* s goes on with v at position i.                                         *)
GoesOn(s, i, v) == i + Len(v) <= Len(s) + 1 /\ \A j \in 1 .. Len(v) : s[i + j - 1] = v[j]

LEMMA OneFacts ==
    ASSUME NEW T, NEW x \in Seq(T), NEW c \in T
    PROVE  /\ x \o One(c) \in Seq(T) /\ Len(x \o One(c)) = Len(x) + 1
           /\ (x \o One(c))[Len(x) + 1] = c
           /\ \A i \in 1 .. Len(x) : (x \o One(c))[i] = x[i]
BY DEF One

(* A turn inside a literal reads what was written for a character.         *)
LEMMA ReadsWritten ==
    ASSUME NEW T, Script \subseteq T, NEW s \in Seq(T), NEW p \in LiteralsOf(T), NEW c \in T,
           p.end >= 1, ~p.closed, GoesOn(s, p.end, Written(c)), p.end + Len(Written(c)) <= Len(s)
    PROVE  LET q == Inside(s, p) IN
           /\ q \in LiteralsOf(T) /\ ~q.closed /\ q.end = p.end + Len(Written(c))
           /\ c \notin Controls => q.scan = p.scan /\ q.text = p.text \o One(c)
           /\ c \in Controls => q.scan.errors # <<>>
           /\ p.scan.errors # <<>> => q.scan.errors # <<>>
<1>1. PICK i \in Int : i = p.end /\ i >= 1
  BY LiteralFields
<1>2. PICK q : q = Inside(s, p)
  OBVIOUS
<1>3. p.scan \in ScansOf(T) /\ p.text \in Seq(T)
  BY LiteralFields
<1>4. Quote # Backslash /\ NewLine # Backslash /\ Len(s) \in Nat
  BY DEF Quote, Backslash, NewLine
<1>5. PICK j \in Int, k \in Int : j = i + 1 /\ k = i + 2
  BY <1>1
<1>6. ASSUME NEW x, Written(c) = <<Backslash, x>>
      PROVE  s[i] = Backslash /\ s[j] = x /\ i < Len(s) /\ i + Len(Written(c)) = k
  <2>1. Len(Written(c)) = 2 /\ Written(c)[1] = Backslash /\ Written(c)[2] = x
    BY <1>6
  <2>2. i + 1 - 1 = i /\ i + 2 - 1 = j
    BY <1>1, <1>5
  <2>3. s[i + 1 - 1] = Backslash /\ s[i + 2 - 1] = x
    BY <1>1, <2>1 DEF GoesOn
  <2>4. i + 2 <= Len(s)
    BY <1>1, <2>1
  <2> QED
    BY <1>1, <1>4, <1>5, <2>1, <2>2, <2>3, <2>4
<1>7. ASSUME NEW x, Written(c) = <<Backslash, x>> PROVE ~Over(s, p)
  <2>1. s[i] = Backslash /\ i < Len(s)
    BY <1>6, <1>7
  <2> QED
    BY <1>1, <1>4, <2>1 DEF Over
<1>8. CASE c \in Controls /\ Written(c) = <<Backslash, "u">> /\ "u" \notin DOMAIN Escapes
  <2>1. s[i] = Backslash /\ s[j] = "u" /\ i < Len(s) /\ i + Len(Written(c)) = k
    BY <1>6, <1>8
  <2>2. PICK told : told = Complain(p.scan, "F1003", j)
    OBVIOUS
  <2>3. q = Warned(p, k, told)
    BY <1>1, <1>2, <1>5, <1>7, <1>8, <2>1, <2>2, InsideCases
  <2>4. told \in ScansOf(T) /\ told.errors # <<>>
    <3>1. "F1003" \in Reasons
      BY DEF Reasons
    <3> QED
      BY <1>3, <1>5, <2>2, <3>1, ComplainFacts
  <2>5. q \in LiteralsOf(T) /\ q.scan = told /\ q.end = k /\ ~q.closed
    <3>1. k \in Int
      BY <1>5
    <3>2. /\ q \in LiteralsOf(T) /\ q.scan = told /\ q.end = k
          /\ q.closed = p.closed
      BY <2>3, <2>4, <3>1, LiteralWarned
    <3> QED
      BY <3>2
  <2> QED
    BY <1>1, <1>2, <1>8, <2>1, <2>4, <2>5
<1>9. ASSUME c \notin Controls, NEW x, x \in DOMAIN Escapes, Escapes[x] = c, Written(c) = <<Backslash, x>>
      PROVE  q = Moved(p, k, One(c)) /\ i + Len(Written(c)) = k
  <2>1. s[i] = Backslash /\ s[j] = x /\ i < Len(s) /\ i + Len(Written(c)) = k
    BY <1>6, <1>9
  <2> QED
    BY <1>1, <1>2, <1>5, <1>7, <1>9, <2>1, InsideCases
<1>10. ASSUME c \notin Marks, Written(c) = <<c>>
       PROVE  q = Moved(p, j, One(c)) /\ i + Len(Written(c)) = j
  <2>1. Len(Written(c)) = 1 /\ Written(c)[1] = c
    BY <1>10
  <2>2. s[i + 1 - 1] = c /\ i + 1 - 1 = i
    BY <1>1, <2>1 DEF GoesOn
  <2>3. s[i] = c /\ i <= Len(s)
    BY <1>1, <2>1, <2>2
  <2>4. c \notin {Quote, Backslash} /\ c # NewLine
    BY <1>10 DEF Marks
  <2>5. ~Over(s, p)
    BY <1>1, <1>4, <2>3, <2>4 DEF Over
  <2>6. q = Moved(p, j, One(c))
    BY <1>1, <1>2, <1>5, <2>3, <2>4, <2>5, InsideCases
  <2> QED
    BY <1>1, <1>5, <2>1, <2>6
<1>11. CASE c \notin Controls
  <2>1. PICK end \in Int : q = Moved(p, end, One(c)) /\ i + Len(Written(c)) = end
    BY <1>5, <1>9, <1>10, <1>11, WrittenCases
  <2>2. One(c) \in Seq(T)
    BY DEF One
  <2>3. /\ q \in LiteralsOf(T) /\ q.scan = p.scan /\ q.text = p.text \o One(c) /\ q.end = end
        /\ q.closed = p.closed
    BY <2>1, <2>2, LiteralMoved
  <2> QED
    BY <1>1, <1>2, <1>11, <2>1, <2>3
<1> QED
  BY <1>8, <1>11, WrittenCases

(* A prefix of a source.                                                   *)
Starts(w, s) == Len(w) <= Len(s) /\ \A i \in 1 .. Len(w) : s[i] = w[i]

LEMMA Continued ==
    ASSUME NEW T, NEW w \in Seq(T), NEW v \in Seq(T), NEW s \in Seq(T), Starts(w \o v, s)
    PROVE  Starts(w, s) /\ GoesOn(s, Len(w) + 1, v)
<1>1. PICK n \in Nat, m \in Nat, l \in Nat : n = Len(w) /\ m = Len(v) /\ l = Len(s)
  OBVIOUS
<1>2. Len(w \o v) = n + m /\ (\A i \in 1 .. n : (w \o v)[i] = w[i]) /\ (\A j \in 1 .. m : (w \o v)[n + j] = v[j])
  BY <1>1
<1>3. n + m <= l /\ \A i \in 1 .. n + m : s[i] = (w \o v)[i]
  BY <1>1, <1>2 DEF Starts
<1>4. Starts(w, s)
  <2>1. \A i \in 1 .. n : i \in 1 .. n + m
    BY <1>1
  <2> QED
    BY <1>1, <1>2, <1>3, <2>1 DEF Starts
<1>5. ASSUME NEW j \in 1 .. m PROVE s[(n + 1) + j - 1] = v[j]
  <2>1. (n + 1) + j - 1 = n + j /\ n + j \in 1 .. n + m
    BY <1>1
  <2> QED
    BY <1>2, <1>3, <2>1
<1>6. (n + 1) + m <= l + 1
  BY <1>3
<1> QED
  BY <1>1, <1>4, <1>5, <1>6 DEF GoesOn

(* Where what is written for each character of a text stands.              *)
QuotedAt(text, s, e) ==
    /\ e \in [0 .. Len(text) -> Nat]
    /\ e[0] = 2 /\ e[Len(text)] = Len(s)
    /\ s[1] = Quote /\ s[Len(s)] = Quote
    /\ \A k \in 0 .. Len(text) : e[k] >= k + 2 /\ e[k] <= Len(s)
    /\ \A k \in 0 .. Len(text) - 1 : /\ GoesOn(s, e[k], Written(text[k + 1]))
                                     /\ e[k + 1] = e[k] + Len(Written(text[k + 1]))

LEMMA QuotedFacts ==
    ASSUME NEW T, Script \subseteq T, NEW text \in Seq(T)
    PROVE  Quoted(text) \in Seq(T) /\ \E e : QuotedAt(text, Quoted(text), e)
<1>1. PICK n \in Nat : n = Len(text)
  OBVIOUS
<1>2. Len(text) \in Nat /\ Quote \in T
  BY DEF Script, Marks
<1>3. PICK start \in Seq(T) : start = <<Quote>> /\ Len(start) = 1 /\ start[1] = Quote
  <2>1. ASSUME NEW c \in T PROVE <<c>> \in Seq(T) /\ Len(<<c>>) = 1 /\ <<c>>[1] = c
    OBVIOUS
  <2> QED
    BY <1>2, <2>1
<1>4. PICK w : /\ w[0] = start
               /\ \A k \in 0 .. n - 1 : w[k + 1] = w[k] \o Written(text[k + 1])
               /\ Quoted(text) = w[n] \o start
  BY <1>1, <1>2, <1>3, QuotingLoop
<1>5. \A k \in 0 .. n - 1 : text[k + 1] \in T
  BY <1>1
<1>6. \A k \in 0 .. n - 1 : Written(text[k + 1]) \in Seq(T) /\ Len(Written(text[k + 1])) \in {1, 2}
  BY <1>5, WrittenFacts
<1>7. \A k \in 0 .. n : w[k] \in Seq(T) /\ Len(w[k]) >= k + 1
  <2> DEFINE U == {k \in 0 .. n : w[k] \in Seq(T) /\ Len(w[k]) >= k + 1}
  <2>1. 0 \in U
    <3>1. 0 \in 0 .. n /\ 1 >= 0 + 1
      BY <1>1
    <3>2. w[0] \in Seq(T) /\ Len(w[0]) >= 0 + 1
      BY <1>4, <1>3, <3>1
    <3> QED
      BY <3>1, <3>2
  <2>2. ASSUME NEW k \in 0 .. n - 1, k \in U PROVE k + 1 \in U
    <3>1. PICK x \in Seq(T), v \in Seq(T) : x = w[k] /\ v = Written(text[k + 1])
      BY <1>6, <2>2
    <3>2. PICK a \in Nat, b \in Nat : a = Len(x) /\ b = Len(v)
      OBVIOUS
    <3>3. k + 1 \in 0 .. n
      BY <1>1
    <3>4. b \in {1, 2}
      BY <1>6, <3>1, <3>2
    <3>5. a >= k + 1
      BY <2>2, <3>1, <3>2
    <3>6. a + b >= (k + 1) + 1
      BY <3>4, <3>5
    <3>7. x \o v \in Seq(T) /\ Len(x \o v) = a + b
      BY <3>2
    <3> QED
      BY <1>4, <3>1, <3>3, <3>6, <3>7
  <2>3. \A k \in 0 .. n : k \in U
    <3> HIDE DEF U
    <3> QED
      BY <1>1, <2>1, <2>2, Climbs
  <2> QED
    BY <2>3
<1>8. PICK body \in Seq(T) : body = w[n] /\ Len(body) >= n + 1
  BY <1>1, <1>7
<1>9. PICK s \in Seq(T) : s = body \o start
  <2>1. body \o start \in Seq(T)
    BY <1>8, <1>3
  <2> QED
    BY <2>1
<1>10. PICK l \in Nat : l = Len(body)
  OBVIOUS
<1>11. Len(s) = l + 1 /\ s[l + 1] = Quote /\ \A i \in 1 .. l : s[i] = body[i]
  BY <1>9, <1>10, <1>3
<1>12. \A k \in 0 .. n : Starts(w[k], body)
  <2> DEFINE U == {m \in 0 .. n : Starts(w[n - m], body)}
  <2>1. 0 \in U
    <3>1. n - 0 = n /\ 0 \in 0 .. n
      BY <1>1
    <3>2. Starts(body, body)
      BY DEF Starts
    <3> QED
      BY <1>8, <3>1, <3>2
  <2>2. ASSUME NEW m \in 0 .. n - 1, m \in U PROVE m + 1 \in U
    <3>1. n - (m + 1) \in 0 .. n - 1
      BY <1>1
    <3>2. PICK k \in 0 .. n - 1 : k = n - (m + 1)
      BY <3>1
    <3>3. k + 1 = n - m /\ m + 1 \in 0 .. n
      BY <1>1, <3>2
    <3>4. w[k] \in Seq(T) /\ Written(text[k + 1]) \in Seq(T)
      BY <1>6, <1>7
    <3>5. Starts(w[k] \o Written(text[k + 1]), body)
      BY <1>4, <2>2, <3>3
    <3>6. Starts(w[k], body)
      BY <3>4, <3>5, Continued
    <3> QED
      BY <3>2, <3>3, <3>6
  <2>3. \A m \in 0 .. n : m \in U
    <3> HIDE DEF U
    <3> QED
      BY <1>1, <2>1, <2>2, Climbs
  <2>4. ASSUME NEW k \in 0 .. n PROVE Starts(w[k], body)
    <3>1. n - k \in 0 .. n /\ n - (n - k) = k
      BY <1>1
    <3> QED
      BY <2>3, <3>1
  <2> QED
    BY <2>4
<1>13. PICK e : e = [k \in 0 .. n |-> Len(w[k]) + 1]
  OBVIOUS
<1>14. \A k \in 0 .. n : e[k] = Len(w[k]) + 1 /\ e[k] \in Nat /\ e[k] >= k + 2 /\ e[k] <= Len(s)
  <2>1. ASSUME NEW k \in 0 .. n
        PROVE  e[k] = Len(w[k]) + 1 /\ e[k] \in Nat /\ e[k] >= k + 2 /\ e[k] <= Len(s)
    <3>1. PICK a \in Nat : a = Len(w[k])
      BY <1>7
    <3>2. a >= k + 1 /\ a <= l
      BY <1>7, <1>10, <1>12, <3>1 DEF Starts
    <3> QED
      BY <1>11, <1>13, <3>1, <3>2
  <2> QED
    BY <2>1
<1>15. e \in [0 .. n -> Nat]
  BY <1>13, <1>14
<1>16. e[0] = 2
  <2>1. 0 \in 0 .. n /\ 1 + 1 = 2
    BY <1>1
  <2> QED
    BY <1>4, <1>14, <1>3, <2>1
<1>17. e[n] = Len(s)
  BY <1>1, <1>8, <1>10, <1>11, <1>14
<1>18. s[1] = Quote
  <2>1. 0 \in 0 .. n
    BY <1>1
  <2>2. Starts(start, body)
    BY <1>4, <1>12, <2>1
  <2>3. body[1] = Quote /\ 1 <= l
    BY <1>10, <1>3, <2>2 DEF Starts
  <2> QED
    BY <1>10, <1>11, <2>3
<1>19. ASSUME NEW k \in 0 .. n - 1
       PROVE  GoesOn(s, e[k], Written(text[k + 1])) /\ e[k + 1] = e[k] + Len(Written(text[k + 1]))
  <2>1. PICK x \in Seq(T), v \in Seq(T) : x = w[k] /\ v = Written(text[k + 1])
    BY <1>6, <1>7
  <2>2. k \in 0 .. n /\ k + 1 \in 0 .. n
    BY <1>1
  <2>3. Starts(x \o v, body)
    BY <1>4, <1>12, <2>1, <2>2
  <2>4. GoesOn(body, Len(x) + 1, v)
    BY <2>3, Continued
  <2>5. PICK i \in Nat, m \in Nat : i = Len(x) + 1 /\ m = Len(v)
    OBVIOUS
  <2>6. i + m <= l + 1 /\ \A j \in 1 .. m : body[i + j - 1] = v[j]
    BY <1>10, <2>4, <2>5 DEF GoesOn
  <2>7. ASSUME NEW j \in 1 .. m PROVE s[i + j - 1] = v[j]
    <3>1. i >= 1
      BY <2>5
    <3>2. i + j - 1 \in 1 .. l
      BY <2>5, <2>6, <3>1
    <3> QED
      BY <1>11, <2>6, <3>2
  <2>8. GoesOn(s, i, v)
    BY <1>11, <2>5, <2>6, <2>7 DEF GoesOn
  <2>9. Len(x \o v) = Len(x) + m
    BY <2>5
  <2>10. e[k] = i /\ e[k + 1] = Len(x \o v) + 1
    BY <1>4, <1>14, <2>1, <2>2, <2>5
  <2>11. e[k + 1] = i + m
    BY <2>5, <2>9, <2>10
  <2> QED
    BY <2>1, <2>5, <2>8, <2>10, <2>11
<1>20. QuotedAt(text, s, e)
  BY <1>1, <1>11, <1>14, <1>15, <1>16, <1>17, <1>18, <1>19 DEF QuotedAt
<1> QED
  BY <1>4, <1>8, <1>9, <1>20

(* A literal that is being read, where k characters of a text are behind.  *)
Behind(T, text, e, p, k) ==
    /\ p \in LiteralsOf(T) /\ ~p.closed /\ p.end = e[k]
    /\ (\E i \in 1 .. k : text[i] \in Controls) => p.scan.errors # <<>>
    /\ ~(\E i \in 1 .. k : text[i] \in Controls) =>
          p.scan = Begin /\ Len(p.text) = k /\ \A i \in 1 .. k : p.text[i] = text[i]

LEMMA BehindOneMore ==
    ASSUME NEW T, Script \subseteq T, NEW text \in Seq(T), NEW s \in Seq(T), NEW e, QuotedAt(text, s, e),
           NEW p, NEW k \in 0 .. Len(text) - 1, Behind(T, text, e, p, k)
    PROVE  Behind(T, text, e, Inside(s, p), k + 1)
<1>1. PICK n \in Nat : n = Len(text)
  OBVIOUS
<1>2. k \in Nat /\ k + 1 \in 1 .. n /\ k \in 0 .. n /\ k + 1 \in 0 .. n
  BY <1>1
<1>3. PICK c \in T : c = text[k + 1]
  BY <1>1, <1>2
<1>4. e \in [0 .. n -> Nat]
  BY <1>1 DEF QuotedAt
<1>5. e[k] \in Nat /\ e[k + 1] \in Nat /\ Len(s) \in Nat
  BY <1>2, <1>4
<1>6. PICK i \in Nat, j \in Nat, l \in Nat : i = e[k] /\ j = e[k + 1] /\ l = Len(s)
  BY <1>5
<1>7. i >= k + 2 /\ j <= l /\ j = i + Len(Written(c)) /\ GoesOn(s, i, Written(c))
  BY <1>1, <1>2, <1>3, <1>6 DEF QuotedAt
<1>8. p \in LiteralsOf(T) /\ ~p.closed /\ p.end = i
  BY <1>6 DEF Behind
<1>9. PICK q : q = Inside(s, p)
  OBVIOUS
<1>10. /\ q \in LiteralsOf(T) /\ ~q.closed /\ q.end = j
       /\ c \notin Controls => q.scan = p.scan /\ q.text = p.text \o One(c)
       /\ c \in Controls => q.scan.errors # <<>>
       /\ p.scan.errors # <<>> => q.scan.errors # <<>>
  <2>1. p.end >= 1
    BY <1>2, <1>7, <1>8
  <2>2. GoesOn(s, p.end, Written(c)) /\ p.end + Len(Written(c)) = j /\ p.end + Len(Written(c)) <= Len(s)
    BY <1>6, <1>7, <1>8
  <2>3. q \in LiteralsOf(T) /\ ~q.closed
    BY <1>8, <1>9, <2>1, <2>2, ReadsWritten
  <2>4. q.end = p.end + Len(Written(c))
    BY <1>8, <1>9, <2>1, <2>2, ReadsWritten
  <2>5. c \notin Controls => q.scan = p.scan
    BY SMTT(30), <1>8, <1>9, <2>1, <2>2, ReadsWritten
  <2>6. ASSUME c \notin Controls PROVE q.text = p.text \o One(c)
    <3>1. p \in LiteralsOf(T) /\ ~p.closed
      BY <1>8
    <3>2. Inside(s, p).text = p.text \o One(c)
      BY <2>1, <2>2, <2>6, <3>1, ReadsWritten
    <3> QED
      BY <1>9, <3>2
  <2>7. /\ c \in Controls => q.scan.errors # <<>>
        /\ p.scan.errors # <<>> => q.scan.errors # <<>>
    BY SMTT(30), <1>8, <1>9, <2>1, <2>2, ReadsWritten
  <2> QED
    BY <2>2, <2>3, <2>4, <2>5, <2>7, <2>6
<1>11. ASSUME \E x \in 1 .. k + 1 : text[x] \in Controls PROVE q.scan.errors # <<>>
  <2>1. CASE c \in Controls
    BY <1>10, <2>1
  <2>2. CASE c \notin Controls
    <3>1. PICK x \in 1 .. k + 1 : text[x] \in Controls
      BY <1>11
    <3>2. x \in 1 .. k
      BY <1>2, <1>3, <2>2, <3>1
    <3>3. p.scan.errors # <<>>
      BY <3>1, <3>2 DEF Behind
    <3> QED
      BY <1>10, <3>3
  <2> QED
    BY <2>1, <2>2
<1>12. ASSUME ~(\E x \in 1 .. k + 1 : text[x] \in Controls)
       PROVE  q.scan = Begin /\ Len(q.text) = k + 1 /\ \A x \in 1 .. k + 1 : q.text[x] = text[x]
  <2>1. k + 1 \in 1 .. k + 1 /\ \A x \in 1 .. k : x \in 1 .. k + 1
    BY <1>2
  <2>2. c \notin Controls /\ ~(\E x \in 1 .. k : text[x] \in Controls)
    BY <1>3, <1>12, <2>1
  <2>3. p.scan = Begin /\ Len(p.text) = k /\ \A x \in 1 .. k : p.text[x] = text[x]
    BY <2>2 DEF Behind
  <2>4. q.scan = Begin /\ q.text = p.text \o One(c)
    BY <1>10, <2>2, <2>3
  <2>5. p.text \in Seq(T)
    BY <1>8, LiteralFields
  <2>6. PICK old \in Seq(T) : old = p.text
    BY <2>5
  <2>7. PICK new : new = old \o One(c)
    OBVIOUS
  <2>8. Len(new) = k + 1 /\ new[k + 1] = c /\ \A x \in 1 .. k : new[x] = old[x]
    <3>1. Len(old) = k
      BY <2>3, <2>6
    <3>2. /\ Len(new) = Len(old) + 1 /\ new[Len(old) + 1] = c
          /\ \A x \in 1 .. Len(old) : new[x] = old[x]
      <4>1. old \in Seq(T) /\ c \in T
        BY <1>3, <2>6
      <4>2. Len(old \o One(c)) = Len(old) + 1
        BY <4>1, OneFacts
      <4>3. (old \o One(c))[Len(old) + 1] = c
        BY <4>1, OneFacts
      <4>4. \A x \in 1 .. Len(old) : (old \o One(c))[x] = old[x]
        BY <4>1, OneFacts
      <4> QED
        BY <2>7, <4>2, <4>3, <4>4
    <3> QED
      BY <3>1, <3>2
  <2>9. \A x \in 1 .. k + 1 : x = k + 1 \/ x \in 1 .. k
    BY <1>2
  <2>10. \A x \in 1 .. k + 1 : new[x] = text[x]
    BY <1>3, <2>3, <2>6, <2>8, <2>9
  <2> QED
    BY <2>4, <2>6, <2>8, <2>10, <2>7
<1> QED
  BY <1>6, <1>9, <1>10, <1>11, <1>12 DEF Behind

Plain(text) == \A i \in DOMAIN text : text[i] \notin Controls

LEMMA LiteralReadsBack ==
    ASSUME NEW T, Script \subseteq T, NEW text \in Seq(T), NEW s \in Seq(T), NEW e, QuotedAt(text, s, e)
    PROVE  LET literal == Literal(s, Begin) IN
           /\ literal \in LiteralsOf(T) /\ literal.closed /\ literal.end = Len(s) + 1
           /\ Plain(text) => literal.scan = Begin /\ literal.text = text
           /\ ~Plain(text) => literal.scan.errors # <<>>
<1>1. PICK n \in Nat, l \in Nat : n = Len(text) /\ l = Len(s)
  OBVIOUS
<1>2. Len(s) \in Nat
  OBVIOUS
<1>3. PICK f : /\ f[0] = Opened(Begin)
               /\ \A k \in 0 .. l - 1 : f[k + 1] = Inside(s, f[k])
               /\ Literal(s, Begin) = f[l]
  BY <1>1, <1>2, LiteralLoop
<1>4. e[0] = 2 /\ e[n] = l /\ s[l] = Quote /\ l >= n + 2
  <2>1. n \in 0 .. n
    BY <1>1
  <2> QED
    BY <1>1, <2>1 DEF QuotedAt
<1> DEFINE U == {k \in 0 .. n : Behind(T, text, e, f[k], k)}
<1>5. 0 \in U
  <2>1. Begin \in ScansOf(T) /\ Begin.at = 1
    BY BeginFacts
  <2>2. PICK p : p = Opened(Begin)
    OBVIOUS
  <2>3. p \in LiteralsOf(T) /\ ~p.closed /\ p.end = 2 /\ p.scan = Begin /\ p.text = <<>>
    BY <2>1, <2>2 DEF Opened, LiteralsOf
  <2>4. Len(<<>>) = 0 /\ 0 \in 0 .. n /\ \A i \in 1 .. 0 : FALSE
    BY <1>1
  <2> QED
    BY <1>3, <1>4, <2>2, <2>3, <2>4 DEF Behind
<1>6. ASSUME NEW k \in 0 .. n - 1, k \in U PROVE k + 1 \in U
  <2>1. k + 1 \in 0 .. n /\ k \in 0 .. l - 1 /\ k \in 0 .. Len(text) - 1
    BY <1>1, <1>4
  <2>2. Behind(T, text, e, Inside(s, f[k]), k + 1)
    BY <1>6, <2>1, BehindOneMore
  <2> QED
    BY <1>3, <2>1, <2>2
<1>7. \A k \in 0 .. n : k \in U
  <2> HIDE DEF U
  <2> QED
    BY <1>1, <1>5, <1>6, Climbs
<1>8. PICK p : p = f[n] /\ Behind(T, text, e, p, n)
  <2>1. n \in 0 .. n
    BY <1>1
  <2> QED
    BY <1>7, <2>1
<1>9. p \in LiteralsOf(T) /\ ~p.closed /\ p.end = l
  BY <1>4, <1>8 DEF Behind
<1>10. PICK q : q = Closed(p, l + 1)
  OBVIOUS
<1>11. q \in LiteralsOf(T) /\ q.scan = p.scan /\ q.text = p.text /\ q.end = l + 1 /\ q.closed
  <2>1. PICK end \in Int : end = l + 1
    BY <1>1
  <2>2. q = Closed(p, end)
    BY <1>10, <2>1
  <2>3. q \in LiteralsOf(T) /\ q.scan = p.scan /\ q.text = p.text /\ q.end = end /\ q.closed
    BY <1>9, <2>2, LiteralClosed
  <2> QED
    BY <2>1, <2>3
<1>12. f[n + 1] = q
  <2>1. n \in 0 .. l - 1 /\ p.end >= 1
    BY <1>1, <1>4, <1>9
  <2>2. ~Over(s, p)
    <3>1. Quote # NewLine
      BY DEF Quote, NewLine
    <3> QED
      BY <1>1, <1>4, <1>9, <3>1 DEF Over
  <2>3. Inside(s, p) = q
    BY <1>4, <1>9, <1>10, <2>1, <2>2, InsideCases
  <2> QED
    BY <1>3, <1>8, <2>1, <2>3
<1>13. Inside(s, q) = q
  BY <1>11 DEF Inside, Over
<1>14. f[l] = q
  <2>1. PICK m \in Nat : m = l - (n + 1)
    <3>1. l - (n + 1) \in Nat
      BY <1>1, <1>4
    <3> QED
      BY <3>1
  <2> DEFINE V == {k \in 0 .. m : f[(n + 1) + k] = q}
  <2>2. 0 \in V
    <3>1. (n + 1) + 0 = n + 1 /\ 0 \in 0 .. m
      BY <1>1, <2>1
    <3> QED
      BY <1>12, <3>1
  <2>3. ASSUME NEW k \in 0 .. m - 1, k \in V PROVE k + 1 \in V
    <3>1. (n + 1) + (k + 1) = ((n + 1) + k) + 1 /\ (n + 1) + k \in 0 .. l - 1 /\ k + 1 \in 0 .. m
      BY <1>1, <2>1
    <3>2. f[((n + 1) + k) + 1] = Inside(s, q)
      BY <1>3, <2>3, <3>1
    <3> QED
      BY <1>13, <3>1, <3>2
  <2>4. m \in V
    <3> HIDE DEF V
    <3>1. \A k \in 0 .. m : k \in V
      BY <2>2, <2>3, Climbs
    <3>2. m \in 0 .. m
      BY <2>1
    <3> QED
      BY <3>1, <3>2
  <2>5. (n + 1) + m = l
    BY <1>1, <2>1
  <2> QED
    BY <2>4, <2>5
<1>15. DOMAIN text = 1 .. n
  BY <1>1
<1>16. ASSUME Plain(text) PROVE q.scan = Begin /\ q.text = text
  <2>1. ~(\E i \in 1 .. n : text[i] \in Controls)
    BY <1>15, <1>16 DEF Plain
  <2>2. p.scan = Begin /\ Len(p.text) = n /\ \A i \in 1 .. n : p.text[i] = text[i]
    BY <1>8, <2>1 DEF Behind
  <2>3. PICK old \in Seq(T) : old = p.text
    BY <1>9, LiteralFields
  <2>4. old = text
    BY <1>1, <2>2, <2>3
  <2> QED
    BY <1>11, <2>2, <2>3, <2>4
<1>17. ASSUME ~Plain(text) PROVE q.scan.errors # <<>>
  <2>1. \E i \in 1 .. n : text[i] \in Controls
    BY <1>15, <1>17 DEF Plain
  <2> QED
    BY <1>8, <1>11, <2>1 DEF Behind
<1> QED
  BY <1>1, <1>3, <1>11, <1>14, <1>16, <1>17

LEMMA EmitAdds ==
    ASSUME NEW S, NEW scan \in ScansOf(S), NEW kind \in Sorts, NEW value \in Seq(S), NEW end \in Int
    PROVE  /\ Emit(scan, kind, value, end).errors = scan.errors
           /\ Emit(scan, kind, value, end).tokens = Append(scan.tokens, Token(scan, kind, value, end))
BY EmitFacts

(* What is left of a source that is one quoted text, turn by turn.         *)
LEMMA QuotedRead ==
    ASSUME NEW T, Script \subseteq T, NEW text \in Seq(T), NEW s \in Seq(T), NEW e, QuotedAt(text, s, e)
    PROVE  LET literal == Literal(s, Begin) IN
           ReadAll(s) = Emit(literal.scan, "STRING", literal.text, literal.end)
<1>1. PICK l \in Nat : l = Len(s)
  OBVIOUS
<1>2. Len(s) \in Nat /\ DOMAIN s = 1 .. l
  BY <1>1
<1>3. PICK p : p = Literal(s, Begin)
  OBVIOUS
<1>4. p \in LiteralsOf(T) /\ p.closed /\ p.end = l + 1
  BY <1>1, <1>3, LiteralReadsBack
<1>5. p.scan \in ScansOf(T) /\ p.text \in Seq(T) /\ p.end \in Int /\ "STRING" \in Sorts
  BY <1>4, LiteralFields DEF Sorts
<1>6. PICK a : a = Emit(p.scan, "STRING", p.text, p.end)
  OBVIOUS
<1>7. a.at = l + 1
  BY <1>4, <1>5, <1>6, EmitTypes
<1>8. l >= 2 /\ s[1] = Quote
  <2>1. 0 \in 0 .. Len(text) /\ Len(text) \in Nat
    OBVIOUS
  <2>2. e[0] >= 0 + 2 /\ e[0] <= Len(s) /\ e[0] = 2 /\ s[1] = Quote
    BY <2>1 DEF QuotedAt
  <2> QED
    BY <1>1, <2>2
<1>9. Turn(s, Begin) = a
  <2>1. Begin.at = 1
    BY BeginFacts
  <2>2. Begin.at \in 1 .. Len(s) /\ Begin.at \in DOMAIN s
    BY <1>1, <1>2, <1>8, <2>1
  <2>3. ReadNext(s, Begin) = ReadLiteral(s, Begin)
    BY <1>8, <2>1, <2>2, ReadCases
  <2>4. ReadLiteral(s, Begin) = a
    BY <1>3, <1>4, <1>6 DEF ReadLiteral
  <2> QED
    BY <2>2, <2>3, <2>4 DEF Turn
<1>10. Turn(s, a) = a
  <2>1. a.at \notin DOMAIN s
    BY <1>2, <1>7
  <2> QED
    BY <2>1 DEF Turn
<1>11. PICK g : g[0] = Begin /\ (\A k \in 0 .. l - 1 : g[k + 1] = Turn(s, g[k])) /\ ReadAll(s) = g[l]
  BY <1>1, <1>2, SourceLoop
<1>12. PICK m \in Nat : m = l - 1
  <2>1. l - 1 \in Nat
    BY <1>8
  <2> QED
    BY <2>1
<1> DEFINE U == {k \in 0 .. m : g[k + 1] = a}
<1>13. 0 \in U
  <2>1. 0 \in 0 .. m /\ 0 \in 0 .. l - 1
    BY <1>12
  <2>2. g[0 + 1] = Turn(s, g[0])
    BY <1>11, <2>1
  <2> QED
    BY <1>9, <1>11, <2>1, <2>2
<1>14. ASSUME NEW k \in 0 .. m - 1, k \in U PROVE k + 1 \in U
  <2>1. k + 1 \in 0 .. m /\ k + 1 \in 0 .. l - 1
    BY <1>12
  <2>2. g[(k + 1) + 1] = Turn(s, g[k + 1])
    BY <1>11, <2>1
  <2> QED
    BY <1>10, <1>14, <2>1, <2>2
<1>15. m \in U
  <2> HIDE DEF U
  <2>1. \A k \in 0 .. m : k \in U
    BY <1>13, <1>14, Climbs
  <2>2. m \in 0 .. m
    BY <1>12
  <2> QED
    BY <2>1, <2>2
<1>16. m + 1 = l
  BY <1>12
<1> QED
  BY <1>3, <1>6, <1>11, <1>15, <1>16

LEMMA QuotedReadsBack ==
    ASSUME NEW T, Script \subseteq T, NEW text \in Seq(T)
    PROVE  Plain(text) <=> ReadsBack(text)
<1>1. PICK s \in Seq(T) : s = Quoted(text)
  BY QuotedFacts
<1>2. PICK e : QuotedAt(text, s, e)
  BY <1>1, QuotedFacts
<1>3. PICK p : p = Literal(s, Begin)
  OBVIOUS
<1>4. /\ p \in LiteralsOf(T) /\ (Plain(text) => p.scan = Begin /\ p.text = text)
      /\ ~Plain(text) => p.scan.errors # <<>>
  BY <1>2, <1>3, LiteralReadsBack
<1>5. p.scan \in ScansOf(T) /\ p.text \in Seq(T) /\ p.end \in Int
  BY <1>4, LiteralFields
<1>6. PICK old \in Seq(T) : old = p.text
  BY <1>5
<1>7. PICK end \in Int : end = p.end
  BY <1>5
<1>8. PICK string \in Sorts, eof \in Sorts : string = "STRING" /\ eof = "EOF"
  BY DEF Sorts
<1>9. PICK a : a = Emit(p.scan, string, old, end)
  OBVIOUS
<1>10. PICK first : first = Token(p.scan, string, old, end)
  OBVIOUS
<1>11. a \in ScansOf(T) /\ a.errors = p.scan.errors /\ a.tokens = Append(p.scan.tokens, first) /\ a.at = end
  <2>1. /\ a.errors = p.scan.errors
        /\ a.tokens = Append(p.scan.tokens, Token(p.scan, string, old, end))
    BY SMTT(30), <1>5, <1>8, <1>9, <1>7, <1>6, EmitAdds
  <2>2. a \in ScansOf(T) /\ a.at = end
    <3>1. p.scan \in ScansOf(T) /\ string \in Sorts /\ old \in Seq(T) /\ end \in Int
      BY <1>5, <1>8, <1>7, <1>6
    <3>2. Emit(p.scan, string, old, end) \in ScansOf(T)
      BY <3>1, EmitTypes
    <3>3. Emit(p.scan, string, old, end).at = end
      BY <3>1, EmitTypes
    <3> QED
      BY <1>9, <3>2, <3>3
  <2> QED
    BY <1>10, <2>1, <2>2
<1>12. ReadAll(s) = a
  BY <1>2, <1>3, <1>8, <1>9, <1>7, <1>6, QuotedRead
<1>13. PICK none \in Seq(T) : none = <<>>
  <2>1. <<>> \in Seq(T)
    OBVIOUS
  <2> QED
    BY <2>1
<1>14. PICK b : b = Emit(a, eof, none, end)
  OBVIOUS
<1>15. PICK last : last = Token(a, eof, none, end)
  OBVIOUS
<1>16. b.errors = a.errors /\ b.tokens = Append(a.tokens, last)
  <2>1. a \in ScansOf(T) /\ end \in Int
    BY <1>11, <1>7
  <2>2. eof \in Sorts /\ none \in Seq(T)
    BY <1>8, <1>13
  <2>3. b.errors = a.errors /\ b.tokens = Append(a.tokens, Token(a, eof, none, end))
    BY <1>14, <2>1, <2>2, EmitAdds
  <2> QED
    BY <1>15, <2>3
<1>17. Lex(s) = Outcome(b)
  BY <1>8, <1>11, <1>12, <1>13, <1>14 DEF Lex
<1>18. Lex(s).errors = p.scan.errors
  BY <1>11, <1>16, <1>17 DEF Outcome
<1>19. CASE ~Plain(text)
  BY <1>1, <1>4, <1>18, <1>19 DEF ReadsBack
<1>20. CASE Plain(text)
  <2>1. p.scan = Begin /\ p.text = text
    BY <1>4, <1>20
  <2>2. Begin.errors = <<>> /\ Begin.tokens = <<>>
    BY DEF Begin
  <2>3. Lex(s).errors = <<>>
    BY <1>18, <2>1, <2>2
  <2>4. Lex(s).tokens = Append(Append(<<>>, first), last)
    BY <1>11, <1>16, <1>17, <1>18, <2>1, <2>2, <2>3 DEF Outcome
  <2>5. PICK both : both = {first, last}
    OBVIOUS
  <2>6. first \in both /\ last \in both
    BY <2>5
  <2>7. PICK one : one = Append(<<>>, first)
    OBVIOUS
  <2>8. one \in Seq(both) /\ Len(one) = 1 /\ one[1] = first
    BY <2>6, <2>7
  <2>9. Len(Append(one, last)) = 2 /\ Append(one, last)[1] = first
    <3>1. ASSUME NEW U, NEW u \in Seq(U), NEW x \in U, Len(u) = 1
          PROVE  Len(Append(u, x)) = 2 /\ Append(u, x)[1] = u[1]
      <4>1. Len(Append(u, x)) = Len(u) + 1
        OBVIOUS
      <4>2. \A i \in 1 .. Len(u) : Append(u, x)[i] = u[i]
        OBVIOUS
      <4>3. 1 \in 1 .. Len(u)
        BY <3>1
      <4> QED
        BY <3>1, <4>1, <4>2, <4>3
    <3> QED
      BY <2>6, <2>8, <3>1
  <2>10. first.kind = "STRING" /\ first.value = text
    BY <1>8, <1>10, <1>6, <2>1 DEF Token
  <2>11. ReadsBack(text)
    BY <1>1, <2>3, <2>4, <2>10, <2>7, <2>9 DEF ReadsBack
  <2> QED
    BY <1>20, <2>11
<1> QED
  BY <1>19, <1>20

(* The texts of literals are texts.                                        *)
LEMMA LiteralTexts ==
    ASSUME NEW S, Marks \subseteq S, characters \in Seq(S), NEW text \in Literals
    PROVE  text \in Seq(S)
<1>1. PICK p : p = ReadAll(characters)
  OBVIOUS
<1>2. p \in ScansOf(S)
  <2>1. Abreast(S, characters, NativeReadAll(characters), p, Len(characters))
    BY <1>1, SourcesAbreast
  <2> QED
    BY <2>1 DEF Abreast
<1>3. PICK eof \in Sorts : eof = "EOF"
  BY DEF Sorts
<1>4. PICK none \in Seq(S) : none = <<>>
  <2>1. <<>> \in Seq(S)
    OBVIOUS
  <2> QED
    BY <2>1
<1>5. PICK end \in Int : end = p.at
  <2>1. p.at \in Int
    BY <1>2 DEF ScansOf
  <2> QED
    BY <2>1
<1>6. PICK b : b = Emit(p, eof, none, end)
  OBVIOUS
<1>7. b \in ScansOf(S)
  BY <1>2, <1>3, <1>6, <1>4, <1>5, EmitTypes
<1>8. b.tokens \in Seq(TokensOf(S))
  BY <1>7 DEF ScansOf
<1>9. Lex(characters).tokens = IF b.errors = <<>> THEN b.tokens ELSE <<>>
  BY <1>1, <1>3, <1>6, <1>4, <1>5 DEF Lex, Outcome
<1>10. Lex(characters).tokens \in Seq(TokensOf(S))
  BY <1>8, <1>9
<1>11. PICK i \in DOMAIN Lex(characters).tokens : text = Lex(characters).tokens[i].value
  BY DEF Literals
<1>12. PICK token \in TokensOf(S) : text = token.value
  BY <1>10, <1>11
<1> QED
  BY <1>12 DEF TokensOf

LEMMA PlainTextThere == Drafted => PlainTextReadsBack
<1>1. SUFFICES ASSUME Drafted, NEW text \in Literals
      PROVE  (\A i \in DOMAIN text : text[i] \notin Controls) <=> ReadsBack(text)
  BY DEF PlainTextReadsBack
<1>2. PICK S : S = Alphabet \cup Marks
  OBVIOUS
<1>3. Marks \subseteq S /\ Alphabet \subseteq S
  BY <1>2
<1>4. characters \in Seq(S)
  BY <1>1, <1>3 DEF Drafted
<1>5. text \in Seq(S)
  BY <1>3, <1>4, LiteralTexts
<1>6. PICK T : T = S \cup Script
  OBVIOUS
<1>7. Script \subseteq T /\ S \subseteq T
  BY <1>6
<1>8. text \in Seq(T)
  BY <1>5, <1>7
<1> QED
  BY <1>7, <1>8, QuotedReadsBack DEF Plain

-----------------------------------------------------------------------------
(* Server::handle: once everything is read, the screen shows what the      *)
(* compiler has to say of the editor's own documents, under the version    *)
(* the editor has, however its messages were batched, and nothing of a     *)
(* document whose name is too long; and a request is answered once, about  *)
(* the text it was asked about.                                            *)
THEOREM EditorAndServerAlwaysAgree == Spec => []EditorAndServerAgree
<1>1. IInv => ScreenIsCurrent
  <2> SUFFICES ASSUME IInv, session = "open", unread = <<>>, NEW u \in Uris
               PROVE  screen[u] = Expected(u) \/ (u \in crowded /\ Refused(u))
    BY DEF ScreenIsCurrent
  <2>1. PICK run : run = [i \in {0} |-> Now]
    OBVIOUS
  <2>2. Run(run, 0) /\ run[0] = Now /\ 0 \in 0 .. Len(unread) /\ Len(unread) = 0
    BY <2>1 DEF Run
  <2>3. Agrees(Now)
    BY <2>2 DEF IInv, Ahead
  <2>4. Faithful(Now, u) /\ Now.screen = screen
    BY <2>3 DEF Agrees, Now
  <2>5. CASE u \in DOMAIN Now.documents
    BY <2>4, <2>5 DEF Faithful
  <2>6. CASE u \notin DOMAIN Now.documents /\ IsOpen(u)
    BY <2>4, <2>6 DEF Faithful, Refused, Expected, Followed
  <2>7. CASE u \notin DOMAIN Now.documents /\ ~IsOpen(u)
    BY <2>4, <2>7 DEF Faithful, Expected, Followed
  <2> QED
    BY <2>5, <2>6, <2>7
<1>2. IInv => AnswersFitTheirRequests
  BY DEF IInv, Pipe, Answered, Numbered, AnswersFitTheirRequests
<1>3. IInv => EditorAndServerAgree
  BY <1>1, <1>2 DEF EditorAndServerAgree
<1> QED
  BY <1>3, Inductive, PTL

-----------------------------------------------------------------------------
(* Whatever is typed and however a program is changed, the two lexers give *)
(* the same tokens or the same errors unless a budget or a character       *)
(* outside ASCII is in the way, and so do the two parsers within the       *)
(* limits: the front ends of foresee/ and of crates/foresee-syntax read    *)
(* one language.                                                           *)
THEOREM FrontEndsReadAlike == DraftSpec => []FrontEndsAgree
<1>1. DraftInit => Drafted
  BY DraftBegins
<1>2. Drafted /\ [DraftNext]_draft => Drafted'
  BY DraftGoesOn
<1>3. Drafted => FrontEndsAgree
  BY FrontEndsAgreeThere
<1> QED
  BY <1>1, <1>2, <1>3, PTL DEF DraftSpec

(* However a document is typed, a text an accepted literal denotes is      *)
(* quoted by the recorded form so that the lexer reads the same text back  *)
(* exactly when it holds none of the control characters the language has   *)
(* no escape for.                                                          *)
THEOREM PlainTextIsReadBack == DraftSpec => []PlainTextReadsBack
<1>1. DraftInit => Drafted
  BY DraftBegins
<1>2. Drafted /\ [DraftNext]_draft => Drafted'
  BY DraftGoesOn
<1>3. Drafted => PlainTextReadsBack
  BY PlainTextThere
<1> QED
  BY <1>1, <1>2, <1>3, PTL DEF DraftSpec
=============================================================================
