---------------------------- MODULE WebUIProofs ----------------------------
(***************************************************************************)
(* Proofs about WebUI for every set of sites and tokens, every plan of the *)
(* user and every number of requests under way.                            *)
(***************************************************************************)
EXTENDS WebUI, FiniteSetTheorems, SequenceTheorems, TLAPS

-----------------------------------------------------------------------------
(* The inductive invariant.                                                  *)

Filled == Site \cup {Empty}

\* What a field may hold, and what Load and Save may be about.
Entry == Filled \cup Path \cup File
Target == Site \X File

\* What a request of kind k is about.
Subject(k) ==
    CASE k \in {"load", "save"} -> Target
      [] k = "upload"           -> Site \X Path
      [] OTHER                  -> Filled

\* A poll is only sent with a token, the other requests also without one.
Tokens(k) == IF k \in Poll THEN Token ELSE Token \cup {Empty}

\* The answers a request of kind k may get.
Replies(k) ==
    {NoReply, Error} \cup
    CASE k = "login"  -> [kind : {"ok"}, token : Token]
      [] k = "sites"  -> [kind : {"ok"}, items : SUBSET Site]
      [] k = "status" -> [kind : {"ok"}, running : BOOLEAN]
      [] k = "update" -> {Ok} \cup [kind : {"refused"}, running : BOOLEAN]
      [] k = "load"   -> [kind : {"ok"}, value : Nat]
      [] OTHER        -> {Ok}

Request(k) == [tok : Tokens(k), on : Subject(k), value : Nat, reply : Replies(k), open : BOOLEAN]

Labels == {"none", "Not authenticated", "Not running", "Updating", "Unknown", "Triggered",
           "Applying", "Reconnecting"}

PageType == [token : Token \cup {Empty}, timer : [Poll -> BOOLEAN], live : [Poll -> Nat],
             shown : SUBSET Site, label : Labels, disabled : BOOLEAN]

FormType == [value : [Field -> Entry], chosen : [Field -> Entry], domain : Filled,
             rootDirty : BOOLEAN, content : Nat, local : Path \cup {Empty}]

PanelType == [sessions : SUBSET Token, used : SUBSET Token, sites : SUBSET Site,
              updating : BOOLEAN, file : [Target -> Nat]]

SavesType == [edits : Nat, last : {<<>>} \cup (Target \X Nat), alone : BOOLEAN,
              said : {<<>>} \cup (Target \X Nat)]

\* n holds requests of each kind, and every poll in it carries a token.
NetOK(n) == DOMAIN n = Kind /\ \A k \in Kind : n[k] \in Seq(Request(k))

TypeOK ==
    page \in PageType /\ form \in FormType /\ NetOK(net) /\ panel \in PanelType /\ saves \in SavesType

\* One interval runs for each handle the script holds.
OneInterval(p) == \A k \in Poll : p.live[k] = (IF p.timer[k] THEN 1 ELSE 0)

\* The intervals of p follow its token.
Polls(p) == OneInterval(p) /\ \A k \in Poll : p.token # Empty => p.timer[k]

\* The editor's fields hold a site, a file of the list and paths.
EditorOK(v) ==
    v["fileSiteID"] \in Filled /\ v["fileName"] \in File /\ v["uploadPath"] \in Path \cup {Empty}

\* With v in the fields and c chosen: what the user typed stands, a typed root path
\* is marked as such, and no file field counts as chosen while no site is selected.
Settled(v, c, dirty) ==
    /\ EditorOK(v)
    /\ \A name \in Field : c[name] # Empty => v[name] = c[name]
    /\ c["rootPath"] # Empty => dirty
    /\ v["fileSiteID"] = Empty => \A name \in FileField : c[name] = Empty

\* The form is in order.
Kept(f) == Settled(f.value, f.chosen, f.rootDirty)

\* With q the saves under way: the last save, if it was alone when it was clicked,
\* is the only one of its file; the page has not spoken of it while it is under
\* way; and once the panel or the page has confirmed it the file holds it.
SaveSound(q, file, s) == s.alone =>
    /\ s.last # <<>>
    /\ \A i, j \in DOMAIN q : q[i].on = s.last[1] /\ q[j].on = s.last[1] => i = j
    /\ \A i \in DOMAIN q : q[i].on = s.last[1] =>
           /\ q[i].value = s.last[2]
           /\ s.said # s.last
           /\ q[i].reply.kind = "ok" => file[s.last[1]] = s.last[2]
    /\ s.said = s.last => file[s.last[1]] = s.last[2]

WebInv == TypeOK /\ Polls(page) /\ Kept(form) /\ SaveSound(net["save"], panel.file, saves)
-----------------------------------------------------------------------------
(* Sequences.                                                                *)

\* What is left of a sequence without its i-th element.
LEMMA RemoveAtProperties ==
    ASSUME NEW S, NEW s \in Seq(S), NEW i \in DOMAIN s
    PROVE  /\ RemoveAt(s, i) \in Seq(S)
           /\ DOMAIN RemoveAt(s, i) = 1 .. Len(s) - 1
           /\ \A j \in 1 .. Len(s) - 1 :
                 RemoveAt(s, i)[j] = IF j < i THEN s[j] ELSE s[j + 1]
<1>1. Len(s) \in Nat /\ DOMAIN s = 1 .. Len(s) /\ i \in 1 .. Len(s)
    BY LenProperties
<1>2. \A j \in 1 .. Len(s) : s[j] \in S
    BY ElementOfSeq
<1> DEFINE a == SubSeq(s, 1, i - 1)
           b == SubSeq(s, i + 1, Len(s))
<1>3. a \in Seq(S) /\ Len(a) = i - 1 /\ \A j \in 1 .. i - 1 : a[j] = s[j]
    <2>1. 1 \in Int /\ i - 1 \in Int /\ \A j \in 1 .. i - 1 : s[j] \in S
        BY <1>1, <1>2
    <2> QED BY <1>1, <2>1, SubSeqProperties
<1>4. b \in Seq(S) /\ Len(b) = Len(s) - i /\ \A j \in 1 .. Len(s) - i : b[j] = s[i + j]
    <2>1. i + 1 \in Int /\ Len(s) \in Int /\ \A j \in i + 1 .. Len(s) : s[j] \in S
        BY <1>1, <1>2
    <2> HIDE <1>2
    <2>2. /\ b \in Seq(S)
          /\ Len(b) = IF i + 1 <= Len(s) THEN Len(s) - (i + 1) + 1 ELSE 0
          /\ \A j \in 1 .. Len(s) - (i + 1) + 1 : b[j] = s[(i + 1) + j - 1]
        BY <2>1, SubSeqProperties
    <2> QED BY <1>1, <2>2
<1> HIDE DEF a, b
<1> DEFINE c == a \o b
<1>5. /\ c \in Seq(S) /\ Len(c) = Len(a) + Len(b)
      /\ \A j \in 1 .. Len(a) + Len(b) : c[j] = IF j <= Len(a) THEN a[j] ELSE b[j - Len(a)]
    BY <1>3, <1>4, ConcatProperties
<1> HIDE DEF c
<1>6. DOMAIN c = 1 .. Len(s) - 1
    BY <1>1, <1>3, <1>4, <1>5
<1>7. ASSUME NEW j \in 1 .. Len(s) - 1
      PROVE  c[j] = IF j < i THEN s[j] ELSE s[j + 1]
    <2>1. CASE j < i
        <3>1. j \in 1 .. i - 1 /\ j \in 1 .. Len(a) + Len(b) /\ j <= Len(a)
            BY <1>1, <1>3, <1>4, <2>1
        <3> QED BY <1>3, <1>5, <2>1, <3>1
    <2>2. CASE ~(j < i)
        <3>1. /\ j \in 1 .. Len(a) + Len(b) /\ ~(j <= Len(a))
              /\ j - Len(a) \in 1 .. Len(s) - i /\ i + (j - Len(a)) = j + 1
            BY <1>1, <1>3, <1>4, <2>2
        <3>2. c[j] = b[j - Len(a)]
            BY <1>5, <3>1
        <3>3. b[j - Len(a)] = s[i + (j - Len(a))]
            BY <1>4, <3>1
        <3> QED BY <2>2, <3>1, <3>2, <3>3
    <2> QED BY <2>1, <2>2
<1>8. RemoveAt(s, i) = c
    BY DEF RemoveAt, a, b, c
<1> QED BY <1>5, <1>6, <1>7, <1>8

\* A finite set as a sequence without repetitions.
LEMMA SetToSeqProperties ==
    ASSUME NEW S, IsFiniteSet(S)
    PROVE  /\ Cardinality(S) \in Nat
           /\ SetToSeq(S) \in [1 .. Cardinality(S) -> S]
           /\ \A a, b \in 1 .. Cardinality(S) : SetToSeq(S)[a] = SetToSeq(S)[b] => a = b
<1>1. Cardinality(S) \in Nat /\ ExistsBijection(1 .. Cardinality(S), S)
    BY FS_CardinalityType
<1>2. PICK f \in [1 .. Cardinality(S) -> S] : IsInjective(f)
    BY <1>1 DEF ExistsBijection, Bijection, Injection, IsInjective
<1> DEFINE g == SetToSeq(S)
<1>3. g \in [1 .. Cardinality(S) -> S] /\ IsInjective(g)
    BY <1>2 DEF SetToSeq
<1> QED BY <1>1, <1>3 DEF IsInjective

-----------------------------------------------------------------------------
(* The requests under way.                                                   *)

\* Sending a request adds it at the end of its kind.
Sent(p, on, value) ==
    [tok |-> p.token, on |-> on, value |-> value, reply |-> NoReply, open |-> TRUE]

\* A call of the API adds its request at the end of its kind.
LEMMA CallAPIEffect ==
    ASSUME NEW n, NetOK(n), NEW p, NEW k \in Kind, NEW on \in Subject(k), NEW value \in Nat,
           p.token \in Tokens(k)
    PROVE  /\ NetOK(CallAPI(n, p, k, on, value))
           /\ \A j \in Kind \ {k} : CallAPI(n, p, k, on, value)[j] = n[j]
           /\ CallAPI(n, p, k, on, value)[k] = Append(n[k], Sent(p, on, value))
<1> DEFINE r == Sent(p, on, value)
<1>1. r \in Request(k)
    BY DEF Request, Replies, Sent
<1>2. DOMAIN n = Kind /\ n[k] \in Seq(Request(k))
    BY DEF NetOK
<1>3. Append(n[k], r) \in Seq(Request(k))
    BY <1>1, <1>2
<1>4. CallAPI(n, p, k, on, value) = [n EXCEPT ![k] = Append(@, r)]
    BY DEF CallAPI, Sent
<1> QED BY <1>2, <1>3, <1>4 DEF NetOK

\* A fetch sends a poll, with a token, or nothing.
LEMMA FetchEffect ==
    ASSUME NEW n, NetOK(n), NEW p, p.token \in Token \cup {Empty}, NEW k \in Poll
    PROVE  NetOK(Fetch(n, p, k)) /\ Fetch(n, p, k)["save"] = n["save"]
<1>1. k \in Kind /\ "save" \in Kind \ {k} /\ Silent \in Nat /\ Empty \in Filled
    BY DEF Kind, Poll, Silent, Filled
<1>2. CASE p.token = Empty
    BY <1>2 DEF Fetch
<1>3. CASE p.token # Empty
    <2>1. p.token \in Tokens(k) /\ Empty \in Subject(k)
        BY <1>1, <1>3 DEF Tokens, Subject, Poll
    <2> DEFINE m == CallAPI(n, p, k, Empty, Silent)
    <2>2. NetOK(m) /\ \A j \in Kind \ {k} : m[j] = n[j]
        BY <1>1, <2>1, CallAPIEffect
    <2>3. Fetch(n, p, k) = m
        BY <1>3 DEF Fetch
    <2> HIDE DEF m
    <2> QED BY <1>1, <2>2, <2>3
<1> QED BY <1>2, <1>3

\* The fetches after a change of the token send no save.
LEMMA SetTokenFetchesEffect ==
    ASSUME NEW n, NetOK(n), NEW p, p.token \in Token \cup {Empty}
    PROVE  NetOK(SetTokenFetches(n, p)) /\ SetTokenFetches(n, p)["save"] = n["save"]
<1>1. "sites" \in Poll /\ "status" \in Poll
    BY DEF Poll
<1>2. NetOK(Fetch(n, p, "sites")) /\ Fetch(n, p, "sites")["save"] = n["save"]
    BY <1>1, FetchEffect
<1> QED BY <1>1, <1>2, FetchEffect DEF SetTokenFetches

\* Settling a request removes it from its kind.
LEMMA RestEffect ==
    ASSUME NetOK(net), NEW k \in Kind, NEW i \in DOMAIN net[k]
    PROVE  /\ NetOK(Rest(k, i))
           /\ \A j \in Kind \ {k} : Rest(k, i)[j] = net[j]
           /\ Rest(k, i)[k] = RemoveAt(net[k], i)
<1>1. DOMAIN net = Kind /\ net[k] \in Seq(Request(k))
    BY DEF NetOK
<1>2. RemoveAt(net[k], i) \in Seq(Request(k))
    BY <1>1, RemoveAtProperties
<1> QED BY <1>1, <1>2 DEF Rest, NetOK

\* An answer, or giving a request up, changes one request.
LEMMA ReplaceEffect ==
    ASSUME NEW n, NetOK(n), NEW k \in Kind, NEW i \in DOMAIN n[k], NEW r \in Request(k)
    PROVE  NetOK([n EXCEPT ![k] = [@ EXCEPT ![i] = r]])
<1>1. DOMAIN n = Kind /\ n[k] \in Seq(Request(k))
    BY DEF NetOK
<1>2. [n[k] EXCEPT ![i] = r] \in Seq(Request(k))
    BY <1>1
<1> QED BY <1>1, <1>2 DEF NetOK

\* Handling a request answers it, or ends it when the page has given it up.
LEMMA HandledEffect ==
    ASSUME NetOK(net), NEW k \in Kind, NEW i \in DOMAIN net[k], NEW r \in Replies(k),
           Handled(k, i, r)
    PROVE  /\ NetOK(net')
           /\ \A j \in Kind \ {k} : net'[j] = net[j]
           /\ \/ net'[k] = [net[k] EXCEPT ![i] = [@ EXCEPT !.reply = r]]
              \/ net'[k] = RemoveAt(net[k], i)
<1>1. DOMAIN net = Kind /\ net[k] \in Seq(Request(k)) /\ net[k][i] \in Request(k)
    BY DEF NetOK
<1>2. CASE net[k][i].open
    <2>1. [net[k][i] EXCEPT !.reply = r] \in Request(k)
        BY <1>1 DEF Request
    <2>2. net' = [net EXCEPT ![k] = [@ EXCEPT ![i] = [net[k][i] EXCEPT !.reply = r]]]
        BY <1>1, <1>2 DEF Handled, Answer
    <2> QED BY <1>1, <2>1, <2>2, ReplaceEffect
<1>3. CASE ~net[k][i].open
    <2>1. net' = Rest(k, i)
        BY <1>3 DEF Handled, Rest
    <2> QED BY <2>1, RestEffect
<1> QED BY <1>2, <1>3

\* A request that is given up goes, or stays to be handled.
LEMMA GivenUpEffect ==
    ASSUME NetOK(net), NEW k \in Kind, NEW i \in DOMAIN net[k]
    PROVE  /\ NetOK(GivenUp(k, i))
           /\ \A j \in Kind \ {k} : GivenUp(k, i)[j] = net[j]
           /\ \/ GivenUp(k, i)[k] = [net[k] EXCEPT ![i] = [@ EXCEPT !.open = FALSE]]
              \/ GivenUp(k, i)[k] = RemoveAt(net[k], i)
<1>1. DOMAIN net = Kind /\ net[k] \in Seq(Request(k)) /\ net[k][i] \in Request(k)
    BY DEF NetOK
<1>2. [net[k][i] EXCEPT !.open = FALSE] \in Request(k)
    BY <1>1 DEF Request
<1>3. NetOK([net EXCEPT ![k] = [@ EXCEPT ![i] = [net[k][i] EXCEPT !.open = FALSE]]])
    BY <1>1, <1>2, ReplaceEffect
<1>4. CASE k \in Writes /\ net[k][i].reply = NoReply
    <2>1. GivenUp(k, i) = [net EXCEPT ![k] = [@ EXCEPT ![i] = [net[k][i] EXCEPT !.open = FALSE]]]
        BY <1>1, <1>4 DEF GivenUp
    <2> QED BY <1>1, <1>3, <2>1
<1>5. CASE ~(k \in Writes /\ net[k][i].reply = NoReply)
    BY <1>5, RestEffect DEF GivenUp
<1> QED BY <1>4, <1>5

\* The requests a reload leaves are some of the earlier ones, each once.
LEMMA AbandonedEffect ==
    ASSUME NEW n, NetOK(n)
    PROVE  /\ NetOK(Abandoned(n))
           /\ \A k \in Kind : \E from \in [DOMAIN Abandoned(n)[k] -> DOMAIN n[k]] :
                /\ \A a, b \in DOMAIN Abandoned(n)[k] : from[a] = from[b] => a = b
                /\ \A j \in DOMAIN Abandoned(n)[k] :
                     Abandoned(n)[k][j] = [n[k][from[j]] EXCEPT !.open = FALSE]
<1>1. SUFFICES ASSUME NEW k \in Kind
               PROVE  /\ Abandoned(n)[k] \in Seq(Request(k))
                      /\ \E from \in [DOMAIN Abandoned(n)[k] -> DOMAIN n[k]] :
                           /\ \A a, b \in DOMAIN Abandoned(n)[k] : from[a] = from[b] => a = b
                           /\ \A j \in DOMAIN Abandoned(n)[k] :
                                Abandoned(n)[k][j] = [n[k][from[j]] EXCEPT !.open = FALSE]
    <2>1. DOMAIN Abandoned(n) = Kind
        BY DEF Abandoned
    <2> QED BY <1>1, <2>1 DEF NetOK
<1> DEFINE U == Unhandled(n, k)
           from == SetToSeq(U)
           C == Cardinality(U)
           left2 == [j \in 1 .. C |-> [n[k][from[j]] EXCEPT !.open = FALSE]]
<1>2. n[k] \in Seq(Request(k)) /\ DOMAIN n[k] = 1 .. Len(n[k]) /\ Len(n[k]) \in Nat
    BY DEF NetOK
<1>3. U \subseteq DOMAIN n[k]
    BY DEF Unhandled
<1>4. IsFiniteSet(U)
    <2>1. IsFiniteSet(1 .. Len(n[k]))
        BY <1>2, FS_Interval
    <2> QED BY <1>2, <1>3, <2>1, FS_Subset
<1>5. /\ C \in Nat
      /\ from \in [1 .. C -> U]
      /\ \A a, b \in 1 .. C : from[a] = from[b] => a = b
    BY <1>4, SetToSeqProperties
<1>6. Abandoned(n)[k] = left2
    <2>1. Abandoned(n)[k] = [j \in DOMAIN from |-> [n[k][from[j]] EXCEPT !.open = FALSE]]
        BY DEF Abandoned
    <2> QED BY <1>5, <2>1
<1> HIDE DEF U, from, C
<1>7. \A j \in 1 .. C : from[j] \in DOMAIN n[k]
    BY <1>3, <1>5
<1>8. \A j \in 1 .. C : [n[k][from[j]] EXCEPT !.open = FALSE] \in Request(k)
    <2> TAKE j \in 1 .. C
    <2>1. n[k][from[j]] \in Request(k)
        BY <1>2, <1>7
    <2> QED BY <2>1 DEF Request
<1>9. left2 \in Seq(Request(k)) /\ DOMAIN left2 = 1 .. C
    BY <1>5, <1>8, IsASeq
<1>10. from \in [1 .. C -> DOMAIN n[k]]
    BY <1>5, <1>7
<1>11. \A j \in 1 .. C : left2[j] = [n[k][from[j]] EXCEPT !.open = FALSE]
    OBVIOUS
<1> HIDE DEF left2
<1> QED BY <1>5, <1>6, <1>9, <1>10, <1>11

-----------------------------------------------------------------------------
(* The page.                                                                 *)

\* The types of the page's fields.
LEMMA PageFields ==
    ASSUME NEW p \in PageType
    PROVE  /\ p.token \in Token \cup {Empty} /\ p.timer \in [Poll -> BOOLEAN]
           /\ p.live \in [Poll -> Nat] /\ p.shown \in SUBSET Site
BY DEF PageType

\* Changing the intervals, and changing what is shown.
LEMMA PageTimers ==
    ASSUME NEW p \in PageType, NEW x \in [Poll -> BOOLEAN], NEW y \in [Poll -> Nat]
    PROVE  /\ [p EXCEPT !.timer = x, !.live = y] \in PageType
           /\ [p EXCEPT !.timer = x, !.live = y].token = p.token
BY DEF PageType

\* The update button changes nothing the polls depend on.
LEMMA PageLabel ==
    ASSUME NEW p \in PageType, NEW l \in Labels, NEW d \in BOOLEAN
    PROVE  LET q == [p EXCEPT !.label = l, !.disabled = d] IN
           q \in PageType /\ q.token = p.token /\ q.timer = p.timer /\ q.live = p.live
BY DEF PageType

\* Nor does the list of sites.
LEMMA PageShows ==
    ASSUME NEW p \in PageType, NEW l \in Labels, NEW v \in SUBSET Site
    PROVE  LET q == [p EXCEPT !.label = l, !.shown = v] IN
           q \in PageType /\ q.token = p.token /\ q.timer = p.timer /\ q.live = p.live
BY DEF PageType

\* Starting an interval starts no second one.
LEMMA StartPollingEffect ==
    ASSUME NEW p \in PageType, OneInterval(p), NEW k \in Poll
    PROVE  /\ StartPolling(p, k) \in PageType
           /\ OneInterval(StartPolling(p, k))
           /\ StartPolling(p, k).token = p.token
           /\ StartPolling(p, k).timer[k]
           /\ \A j \in Poll \ {k} : StartPolling(p, k).timer[j] = p.timer[j]
<1>1. CASE p.timer[k]
    BY <1>1 DEF StartPolling
<1>2. CASE ~p.timer[k]
    <2> DEFINE q == [p EXCEPT !.timer[k] = TRUE, !.live[k] = @ + 1]
    <2>1. StartPolling(p, k) = q
        BY <1>2 DEF StartPolling
    <2>2. q \in PageType /\ q.token = p.token
        <3> DEFINE x == [p.timer EXCEPT ![k] = TRUE]
                   y == [p.live EXCEPT ![k] = @ + 1]
        <3>1. x \in [Poll -> BOOLEAN]
            BY PageFields
        <3>2. y \in [Poll -> Nat]
            BY PageFields
        <3>3. q = [p EXCEPT !.timer = x, !.live = y]
            BY DEF PageType
        <3> HIDE DEF q, x, y
        <3> QED BY <3>1, <3>2, <3>3, PageTimers
    <2>3. q.timer[k] /\ \A j \in Poll \ {k} : q.timer[j] = p.timer[j]
        BY DEF PageType
    <2>4. q.live[k] = 1 /\ \A j \in Poll \ {k} : q.live[j] = p.live[j]
        BY <1>2 DEF PageType, OneInterval
    <2> HIDE DEF q
    <2>5. OneInterval(q)
        BY <2>3, <2>4 DEF OneInterval
    <2> QED BY <2>1, <2>2, <2>3, <2>5
<1> QED BY <1>1, <1>2

\* Stopping an interval stops the one that runs.
LEMMA StopPollingEffect ==
    ASSUME NEW p \in PageType, OneInterval(p), NEW k \in Poll
    PROVE  /\ StopPolling(p, k) \in PageType
           /\ OneInterval(StopPolling(p, k))
           /\ StopPolling(p, k).token = p.token
<1>1. CASE ~p.timer[k]
    BY <1>1 DEF StopPolling
<1>2. CASE p.timer[k]
    <2> DEFINE q == [p EXCEPT !.timer[k] = FALSE, !.live[k] = @ - 1]
    <2>1. StopPolling(p, k) = q
        BY <1>2 DEF StopPolling
    <2>2. p.live[k] = 1
        BY <1>2 DEF OneInterval
    <2>3. q \in PageType /\ q.token = p.token
        <3> DEFINE x == [p.timer EXCEPT ![k] = FALSE]
                   y == [p.live EXCEPT ![k] = @ - 1]
        <3>1. x \in [Poll -> BOOLEAN]
            BY PageFields
        <3>2. y \in [Poll -> Nat]
            BY <2>2, PageFields
        <3>3. q = [p EXCEPT !.timer = x, !.live = y]
            BY DEF PageType
        <3> HIDE DEF q, x, y
        <3> QED BY <3>1, <3>2, <3>3, PageTimers
    <2>4. ~q.timer[k] /\ \A j \in Poll \ {k} : q.timer[j] = p.timer[j]
        BY DEF PageType
    <2>5. q.live[k] = 0 /\ \A j \in Poll \ {k} : q.live[j] = p.live[j]
        BY <2>2 DEF PageType
    <2> HIDE DEF q
    <2>6. OneInterval(q)
        BY <2>4, <2>5 DEF OneInterval
    <2> QED BY <2>1, <2>3, <2>6
<1> QED BY <1>1, <1>2

\* The polls follow the token, whatever it was before.
LEMMA SetTokenEffect ==
    ASSUME NEW p \in PageType, OneInterval(p), NEW t \in Token \cup {Empty}
    PROVE  /\ SetToken(p, t) \in PageType
           /\ Polls(SetToken(p, t))
           /\ SetToken(p, t).token = t
<1> DEFINE q == [p EXCEPT !.token = t]
<1>1. q \in PageType /\ OneInterval(q) /\ q.token = t
    BY DEF PageType, OneInterval
<1>2. "status" \in Poll /\ "sites" \in Poll /\ \A k \in Poll : k = "status" \/ k = "sites"
    BY DEF Poll
<1> HIDE DEF q
<1>3. CASE t # Empty
    <2> DEFINE a == StartPolling(q, "status")
               b == StartPolling(a, "sites")
    <2>1. a \in PageType /\ OneInterval(a) /\ a.token = t /\ a.timer["status"]
        BY <1>1, <1>2, StartPollingEffect
    <2> HIDE DEF a
    <2>2. b \in PageType /\ OneInterval(b) /\ b.token = t /\ b.timer["sites"] /\ b.timer["status"]
        BY <1>2, <2>1, StartPollingEffect
    <2>3. SetToken(p, t) = b
        BY <1>3 DEF SetToken, a, b, q
    <2> HIDE DEF b
    <2> QED BY <1>2, <2>2, <2>3 DEF Polls
<1>4. CASE t = Empty
    <2> DEFINE a == StopPolling(q, "status")
               b == StopPolling(a, "sites")
               c == [b EXCEPT !.label = "Not authenticated", !.shown = {}]
    <2>1. a \in PageType /\ OneInterval(a) /\ a.token = t
        BY <1>1, <1>2, StopPollingEffect
    <2> HIDE DEF a
    <2>2. b \in PageType /\ OneInterval(b) /\ b.token = t
        BY <1>2, <2>1, StopPollingEffect
    <2>3. SetToken(p, t) = c
        BY <1>4 DEF SetToken, a, b, q
    <2> HIDE DEF b
    <2>4. c \in PageType /\ c.token = t /\ c.timer = b.timer /\ c.live = b.live
        <3>1. "Not authenticated" \in Labels /\ {} \in SUBSET Site
            BY DEF Labels
        <3> QED BY <2>2, <3>1, PageShows
    <2> HIDE DEF c
    <2> QED BY <1>4, <2>2, <2>3, <2>4 DEF Polls, OneInterval
<1> QED BY <1>3, <1>4

\* A page without a token or a poll, before the script runs.
LEMMA NewPageType == NewPage \in PageType /\ OneInterval(NewPage)
<1>1. [k \in Poll |-> FALSE] \in [Poll -> BOOLEAN] /\ [k \in Poll |-> 0] \in [Poll -> Nat]
    OBVIOUS
<1>2. NewPage \in PageType
    <2> DEFINE x == [k \in Poll |-> FALSE]
               y == [k \in Poll |-> 0]
    <2>1. NewPage = [token |-> Empty, timer |-> x, live |-> y, shown |-> {},
                     label |-> "none", disabled |-> FALSE]
        BY DEF NewPage
    <2> HIDE DEF x, y
    <2>2. "none" \in Labels
        BY DEF Labels
    <2>3. x \in [Poll -> BOOLEAN] /\ y \in [Poll -> Nat]
        BY <1>1 DEF x, y
    <2> QED BY <2>1, <2>2, <2>3 DEF PageType
<1>3. NewPage.timer = [k \in Poll |-> FALSE] /\ NewPage.live = [k \in Poll |-> 0]
    BY DEF NewPage
<1> QED BY <1>2, <1>3 DEF OneInterval

\* The rest of the script keeps the polls in step with the token.
LEMMA ShowingKeepsPolls ==
    ASSUME NEW p \in PageType, Polls(p), NEW q,
           q.token = p.token, q.timer = p.timer, q.live = p.live
    PROVE  Polls(q)
BY DEF Polls, OneInterval

\* Starting an interval keeps every other one as the token wants it.
LEMMA StartPollingKeepsPolls ==
    ASSUME NEW p \in PageType, Polls(p), NEW k \in Poll
    PROVE  Polls(StartPolling(p, k))
<1> DEFINE q == StartPolling(p, k)
<1>1. OneInterval(q) /\ q.token = p.token /\ q.timer[k] /\ \A j \in Poll \ {k} : q.timer[j] = p.timer[j]
    BY StartPollingEffect DEF Polls
<1> HIDE DEF q
<1>2. Polls(q)
    BY <1>1 DEF Polls
<1> QED BY <1>2 DEF q

-----------------------------------------------------------------------------
(* The form.                                                                 *)

\* The types of the form's fields.
LEMMA FormFields ==
    ASSUME NEW f \in FormType
    PROVE  /\ f.value \in [Field -> Entry] /\ f.chosen \in [Field -> Entry]
           /\ f.rootDirty \in BOOLEAN /\ f.local \in Path \cup {Empty} /\ f.domain \in Filled
           /\ f.content \in Nat
BY DEF FormType

\* The names of the fields, and what they may hold.
LEMMA FieldNames ==
    /\ {"fileSiteID", "sslDomain", "rootPath", "fileName", "fileDir", "uploadPath", "dirPath"} = Field
    /\ {"fileName", "fileDir", "uploadPath", "dirPath"} = FileField
    /\ Site \subseteq Filled /\ Empty \in Filled /\ Filled \subseteq Entry
    /\ Path \subseteq Entry /\ File \subseteq Entry
BY DEF Field, FileField, Filled, Entry

\* New values and choices in order keep the form in order.
LEMMA FormStep ==
    ASSUME NEW f \in FormType, NEW v \in [Field -> Entry], NEW c \in [Field -> Entry],
           Settled(v, c, f.rootDirty), NEW g, g = [f EXCEPT !.value = v, !.chosen = c]
    PROVE  g \in FormType /\ Kept(g)
<1>1. g \in FormType /\ g.value = v /\ g.chosen = c /\ g.rootDirty = f.rootDirty
    BY DEF FormType
<1> QED BY <1>1 DEF Kept

\* Filling an empty field keeps what the user typed.
LEMMA FillKeeps ==
    ASSUME NEW f \in FormType, Kept(f), NEW name \in {"sslDomain", "uploadPath"}, NEW s \in Entry,
           name = "uploadPath" => s \in Path
    PROVE  FillIfEmpty(f, name, s) \in FormType /\ Kept(FillIfEmpty(f, name, s))
<1>1. CASE f.value[name] # Empty
    BY <1>1 DEF FillIfEmpty
<1>2. CASE f.value[name] = Empty
    <2> DEFINE v == [f.value EXCEPT ![name] = s]
               c == f.chosen
    <2>1. FillIfEmpty(f, name, s) = [f EXCEPT !.value = v, !.chosen = c]
        <3>1. FillIfEmpty(f, name, s) = [f EXCEPT !.value[name] = s]
            BY <1>2 DEF FillIfEmpty
        <3>2. [f EXCEPT !.value[name] = s] = [f EXCEPT !.value = v, !.chosen = c]
            BY DEF FormType
        <3> QED BY <3>1, <3>2
    <2>2. name \in Field /\ f.value \in [Field -> Entry] /\ c \in [Field -> Entry]
        BY FormFields, FieldNames
    <2>3. v \in [Field -> Entry] /\ v[name] = s /\ \A x \in Field \ {name} : v[x] = f.value[x]
        BY <2>2
    <2> HIDE DEF v, c
    <2>4. EditorOK(v)
        BY <2>3, FieldNames DEF Kept, Settled, EditorOK
    <2>5. \A x \in Field : c[x] # Empty => v[x] = c[x]
        BY <1>2, <2>3 DEF Kept, Settled, c
    <2>6. c["rootPath"] # Empty => f.rootDirty
        BY DEF Kept, Settled, c
    <2>7. v["fileSiteID"] = Empty => \A x \in FileField : c[x] = Empty
        BY <2>3, FieldNames DEF Kept, Settled, c
    <2>8. Settled(v, c, f.rootDirty)
        BY <2>4, <2>5, <2>6, <2>7 DEF Settled
    <2> QED BY <2>1, <2>2, <2>3, <2>8, FormStep
<1> QED BY <1>1, <1>2

\* What is left of the choices when the file fields do not count.
LEMMA UnsettledEffect ==
    ASSUME NEW c \in [Field -> Entry]
    PROVE  /\ Unsettled(c) \in [Field -> Entry]
           /\ \A x \in FileField : Unsettled(c)[x] = Empty
           /\ \A x \in Field \ FileField : Unsettled(c)[x] = c[x]
BY FieldNames DEF Unsettled

\* What the user puts into a field is what it then holds.
LEMMA TypedKeeps ==
    ASSUME NEW f \in FormType, Kept(f), NEW name \in Field, NEW s \in Entry,
           name = "rootPath" => f.rootDirty,
           name = "fileSiteID" => s \in Filled, name = "fileName" => s \in File,
           name = "uploadPath" => s \in Path \cup {Empty}
    PROVE  Typed(f, name, s) \in FormType /\ Kept(Typed(f, name, s))
<1> DEFINE v == [f.value EXCEPT ![name] = s]
           t == [f.chosen EXCEPT ![name] = s]
           c == IF v["fileSiteID"] = Empty THEN Unsettled(t) ELSE t
<1>1. Typed(f, name, s) = [f EXCEPT !.value = v, !.chosen = c]
    BY DEF Typed
<1>2. f.value \in [Field -> Entry] /\ f.chosen \in [Field -> Entry]
    BY FormFields
<1>3. /\ v \in [Field -> Entry] /\ v[name] = s /\ \A x \in Field \ {name} : v[x] = f.value[x]
      /\ t \in [Field -> Entry] /\ t[name] = s /\ \A x \in Field \ {name} : t[x] = f.chosen[x]
    BY <1>2
<1> HIDE DEF v, t
<1>4. /\ c \in [Field -> Entry] /\ \A x \in Field : c[x] = t[x] \/ c[x] = Empty
      /\ v["fileSiteID"] = Empty => \A x \in FileField : c[x] = Empty
    BY <1>3, UnsettledEffect
<1> HIDE DEF c
<1>5. EditorOK(v)
    BY <1>3, FieldNames DEF Kept, Settled, EditorOK
<1>6. \A x \in Field : c[x] # Empty => v[x] = c[x]
    BY <1>3, <1>4 DEF Kept, Settled
<1>7. c["rootPath"] # Empty => f.rootDirty
    BY <1>3, <1>4, FieldNames DEF Kept, Settled
<1>8. Settled(v, c, f.rootDirty)
    BY <1>4, <1>5, <1>6, <1>7 DEF Settled
<1> QED BY <1>1, <1>3, <1>4, <1>8, FormStep

\* Selecting a site for the editor sets its fields and no other.
LEMMA SelectEffect ==
    ASSUME NEW f \in FormType, EditorOK(f.value), NEW s \in Site
    PROVE  \E v \in [Field -> Entry] :
              /\ EditorOK(v) /\ v["fileSiteID"] = s
              /\ \A x \in {"sslDomain", "rootPath"} : v[x] = f.value[x]
              /\ \A c \in [Field -> Entry] :
                   [SelectSiteForEditor(f, s) EXCEPT !.chosen = c] = [f EXCEPT !.value = v, !.chosen = c]
              /\ SelectSiteForEditor(f, s) = [f EXCEPT !.value = v, !.chosen = f.chosen]
              /\ SelectSiteForEditor(f, s).chosen = f.chosen
<1> DEFINE d == DefaultFileByRuntime(s)
           v == [f.value EXCEPT !["fileSiteID"] = s, !["fileName"] = d, !["fileDir"] = Empty,
                                !["uploadPath"] = Empty, !["dirPath"] = Empty]
<1>1. d \in File
    BY DEF DefaultFileByRuntime, File
<1>2. SelectSiteForEditor(f, s) = [f EXCEPT !.value = v]
    <2> HIDE DEF d
    <2>1. SelectSiteForEditor(f, s) =
            [f EXCEPT !.value["fileSiteID"] = s, !.value["fileName"] = d,
                      !.value["fileDir"] = Empty, !.value["uploadPath"] = Empty,
                      !.value["dirPath"] = Empty]
        BY DEF SelectSiteForEditor, d
    <2> QED BY <2>1 DEF FormType
<1> HIDE DEF d
<1>3. f.value \in [Field -> Entry] /\ s \in Entry /\ d \in Entry /\ Empty \in Entry
    BY <1>1, FormFields, FieldNames
<1>4. /\ v \in [Field -> Entry] /\ v["fileSiteID"] = s /\ v["fileName"] = d /\ v["uploadPath"] = Empty
      /\ \A x \in {"sslDomain", "rootPath"} : v[x] = f.value[x]
    BY <1>3, FieldNames
<1> HIDE DEF v
<1>5. EditorOK(v)
    BY <1>1, <1>4, FieldNames DEF EditorOK
<1>6. /\ \A c \in [Field -> Entry] :
            [SelectSiteForEditor(f, s) EXCEPT !.chosen = c] = [f EXCEPT !.value = v, !.chosen = c]
      /\ SelectSiteForEditor(f, s) = [f EXCEPT !.value = v, !.chosen = f.chosen]
      /\ SelectSiteForEditor(f, s).chosen = f.chosen
    BY <1>2 DEF FormType
<1> QED BY <1>4, <1>5, <1>6

\* A list selects a site only when no file field counts as chosen.
LEMMA EditorKeeps ==
    ASSUME NEW f \in FormType, Kept(f), NEW s \in Site
    PROVE  FillEditor(f, s) \in FormType /\ Kept(FillEditor(f, s))
<1>1. CASE f.value["fileSiteID"] # Empty
    BY <1>1 DEF FillEditor
<1>2. CASE f.value["fileSiteID"] = Empty
    <2>1. EditorOK(f.value) /\ f.chosen \in [Field -> Entry]
        BY FormFields DEF Kept, Settled
    <2>2. PICK v \in [Field -> Entry] :
              /\ EditorOK(v) /\ v["fileSiteID"] = s
              /\ \A x \in {"sslDomain", "rootPath"} : v[x] = f.value[x]
              /\ \A c \in [Field -> Entry] :
                   [SelectSiteForEditor(f, s) EXCEPT !.chosen = c] = [f EXCEPT !.value = v, !.chosen = c]
              /\ SelectSiteForEditor(f, s) = [f EXCEPT !.value = v, !.chosen = f.chosen]
              /\ SelectSiteForEditor(f, s).chosen = f.chosen
        BY <2>1, SelectEffect
    <2>3. FillEditor(f, s) = [f EXCEPT !.value = v, !.chosen = f.chosen]
        BY <1>2, <2>2 DEF FillEditor
    <2>4. \A x \in Field : f.chosen[x] # Empty => v[x] = f.chosen[x]
        BY <1>2, <2>2, FieldNames DEF Kept, Settled
    <2>5. f.chosen["rootPath"] # Empty => f.rootDirty
        BY DEF Kept, Settled
    <2>6. v["fileSiteID"] # Empty
        BY <2>2, EmptyIsNoValue
    <2>7. Settled(v, f.chosen, f.rootDirty)
        BY <2>2, <2>4, <2>5, <2>6 DEF Settled
    <2> QED BY ONLY f \in FormType, v \in [Field -> Entry], <2>1, <2>3, <2>7, FormStep
<1> QED BY <1>1, <1>2

\* "Edit Index": the user wants the site, and what comes with it.
LEMMA EditIndexKeeps ==
    ASSUME NEW f \in FormType, Kept(f), NEW s \in Site, NEW g,
           g = [SelectSiteForEditor(f, s) EXCEPT !.chosen = [Unsettled(@) EXCEPT !["fileSiteID"] = s]]
    PROVE  g \in FormType /\ Kept(g)
<1>1. EditorOK(f.value) /\ f.chosen \in [Field -> Entry]
    BY FormFields DEF Kept, Settled
<1> DEFINE u == Unsettled(f.chosen)
           c == [u EXCEPT !["fileSiteID"] = s]
<1>2. /\ u \in [Field -> Entry] /\ \A x \in FileField : u[x] = Empty
      /\ \A x \in Field \ FileField : u[x] = f.chosen[x]
    BY <1>1, UnsettledEffect
<1> HIDE DEF u
<1>3. /\ c \in [Field -> Entry] /\ c["fileSiteID"] = s
      /\ \A x \in FileField : c[x] = Empty
      /\ \A x \in {"sslDomain", "rootPath"} : c[x] = f.chosen[x]
    BY <1>2, FieldNames
<1>4. PICK v \in [Field -> Entry] :
              /\ EditorOK(v) /\ v["fileSiteID"] = s
              /\ \A x \in {"sslDomain", "rootPath"} : v[x] = f.value[x]
              /\ \A a \in [Field -> Entry] :
                   [SelectSiteForEditor(f, s) EXCEPT !.chosen = a] = [f EXCEPT !.value = v, !.chosen = a]
              /\ SelectSiteForEditor(f, s) = [f EXCEPT !.value = v, !.chosen = f.chosen]
              /\ SelectSiteForEditor(f, s).chosen = f.chosen
    BY <1>1, SelectEffect
<1>5. g = [SelectSiteForEditor(f, s) EXCEPT !.chosen = c]
    BY <1>4 DEF c, u
<1> HIDE DEF c
<1>6. g = [f EXCEPT !.value = v, !.chosen = c]
    BY <1>3, <1>4, <1>5
<1>7. \A x \in Field : c[x] # Empty => v[x] = c[x]
    BY <1>3, <1>4, FieldNames DEF Kept, Settled
<1>8. c["rootPath"] # Empty => f.rootDirty
    BY <1>3 DEF Kept, Settled
<1>9. v["fileSiteID"] # Empty
    BY <1>4, EmptyIsNoValue
<1>10. Settled(v, c, f.rootDirty)
    BY <1>4, <1>7, <1>8, <1>9 DEF Settled
<1> QED BY ONLY f \in FormType, v \in [Field -> Entry], <1>3, <1>6, <1>10, FormStep

\* An answered upload puts its target back.
LEMMA UploadKeeps ==
    ASSUME NEW f \in FormType, Kept(f), NEW t \in Path, NEW g,
           g = [f EXCEPT !.value["uploadPath"] = t, !.chosen["uploadPath"] = Empty]
    PROVE  g \in FormType /\ Kept(g)
<1> DEFINE v == [f.value EXCEPT !["uploadPath"] = t]
           c == [f.chosen EXCEPT !["uploadPath"] = Empty]
<1>1. g = [f EXCEPT !.value = v, !.chosen = c]
    BY DEF FormType
<1>2. f.value \in [Field -> Entry] /\ f.chosen \in [Field -> Entry] /\ t \in Entry /\ Empty \in Entry
    BY FormFields, FieldNames
<1>3. /\ v \in [Field -> Entry] /\ v["uploadPath"] = t
      /\ \A x \in Field \ {"uploadPath"} : v[x] = f.value[x]
      /\ c \in [Field -> Entry] /\ c["uploadPath"] = Empty
      /\ \A x \in Field \ {"uploadPath"} : c[x] = f.chosen[x]
    BY <1>2, FieldNames
<1> HIDE DEF v, c
<1>4. EditorOK(v)
    BY <1>3, FieldNames DEF Kept, Settled, EditorOK
<1>5. \A x \in Field : c[x] # Empty => v[x] = c[x]
    BY <1>3 DEF Kept, Settled
<1>6. c["rootPath"] # Empty => f.rootDirty
    BY <1>3, FieldNames DEF Kept, Settled
<1>7. v["fileSiteID"] = Empty => \A x \in FileField : c[x] = Empty
    BY <1>3, FieldNames DEF Kept, Settled
<1>8. Settled(v, c, f.rootDirty)
    BY <1>4, <1>5, <1>6, <1>7 DEF Settled
<1> QED BY ONLY f \in FormType, <1>1, <1>3, <1>8, FormStep

\* The root path is marked as typed, a local file or a text is chosen.
LEMMA MarkKeeps ==
    ASSUME NEW f \in FormType, Kept(f)
    PROVE  /\ [f EXCEPT !.rootDirty = TRUE] \in FormType /\ Kept([f EXCEPT !.rootDirty = TRUE])
           /\ \A p \in Path : [f EXCEPT !.local = p] \in FormType /\ Kept([f EXCEPT !.local = p])
           /\ \A n \in Nat : [f EXCEPT !.content = n] \in FormType /\ Kept([f EXCEPT !.content = n])
<1>1. ASSUME NEW g \in FormType, g.value = f.value, g.chosen = f.chosen, f.rootDirty => g.rootDirty
      PROVE  Kept(g)
    BY <1>1 DEF Kept, Settled
<1>2. LET g == [f EXCEPT !.rootDirty = TRUE] IN
      g \in FormType /\ g.value = f.value /\ g.chosen = f.chosen /\ g.rootDirty
    BY DEF FormType
<1>3. \A p \in Path : LET g == [f EXCEPT !.local = p] IN
      g \in FormType /\ g.value = f.value /\ g.chosen = f.chosen /\ g.rootDirty = f.rootDirty
    BY DEF FormType
<1>4. \A n \in Nat : LET g == [f EXCEPT !.content = n] IN
      g \in FormType /\ g.value = f.value /\ g.chosen = f.chosen /\ g.rootDirty = f.rootDirty
    BY DEF FormType
<1> QED BY <1>1, <1>2, <1>3, <1>4

\* A typed root path is marked as such.
LEMMA RootPathKeeps ==
    ASSUME NEW f \in FormType, Kept(f), NEW s \in Site, NEW g,
           g = [Typed(f, "rootPath", s) EXCEPT !.rootDirty = TRUE]
    PROVE  g \in FormType /\ Kept(g)
<1> DEFINE h == [f EXCEPT !.rootDirty = TRUE]
<1>1. h \in FormType /\ Kept(h) /\ h.rootDirty
    BY MarkKeeps DEF FormType
<1>2. g = Typed(h, "rootPath", s)
    BY DEF Typed, FormType
<1> HIDE DEF h
<1>3. "rootPath" \in Field /\ s \in Entry
    BY FieldNames
<1> QED BY <1>1, <1>2, <1>3, TypedKeeps

\* A suggestion for the root path gives way to a typed one.
LEMMA DomainKeeps ==
    ASSUME NEW f \in FormType, Kept(f), NEW s \in Site
    PROVE  DomainInput(f, s) \in FormType /\ Kept(DomainInput(f, s))
<1> DEFINE v == [f.value EXCEPT !["rootPath"] = IF f.rootDirty THEN @ ELSE s]
           h == [f EXCEPT !.domain = s]
<1>1. DomainInput(f, s) = [h EXCEPT !.value = v, !.chosen = f.chosen]
    BY DEF DomainInput, FormType
<1>2. f.value \in [Field -> Entry] /\ f.chosen \in [Field -> Entry] /\ s \in Filled /\ s \in Entry
    BY FormFields, FieldNames
<1>3. /\ v \in [Field -> Entry]
      /\ \A x \in Field : x # "rootPath" \/ f.rootDirty => v[x] = f.value[x]
    BY <1>2, FieldNames
<1> HIDE DEF v
<1>4. h \in FormType /\ h.rootDirty = f.rootDirty
    BY <1>2 DEF FormType
<1> HIDE DEF h
<1>5. EditorOK(v)
    BY <1>3, FieldNames DEF Kept, Settled, EditorOK
<1>6. \A x \in Field : f.chosen[x] # Empty => v[x] = f.chosen[x]
    BY <1>3 DEF Kept, Settled
<1>7. f.chosen["rootPath"] # Empty => h.rootDirty
    BY <1>4 DEF Kept, Settled
<1>8. v["fileSiteID"] = Empty => \A x \in FileField : f.chosen[x] = Empty
    BY <1>3, FieldNames DEF Kept, Settled
<1>9. Settled(v, f.chosen, h.rootDirty)
    BY <1>5, <1>6, <1>7, <1>8 DEF Settled
<1> QED BY <1>1, <1>2, <1>3, <1>4, <1>9, FormStep

\* The form of a fresh page: nothing typed, nothing to keep.
LEMMA NewFormType == NewForm \in FormType /\ Kept(NewForm)
<1> DEFINE e == [name \in Field |-> Empty]
           v == [name \in Field |-> IF name = "fileName" THEN "index.html" ELSE Empty]
<1>1. "index.html" \in File /\ "index.html" \in Entry /\ Empty \in Entry /\ Empty \in Filled
    BY FieldNames DEF File
<1>2. NewForm = [value |-> v, chosen |-> e, domain |-> Empty, rootDirty |-> FALSE, content |-> 0,
                 local |-> Empty]
    BY DEF NewForm
<1>3. e \in [Field -> Entry] /\ \A name \in Field : e[name] = Empty
    BY <1>1
<1>4. v \in [Field -> Entry] /\ EditorOK(v)
    BY <1>1, FieldNames DEF EditorOK
<1> HIDE DEF e, v
<1>5. NewForm \in FormType
    BY <1>1, <1>2, <1>3, <1>4 DEF FormType
<1>6. NewForm.value = v /\ NewForm.chosen = e
    BY <1>2
<1> QED BY <1>3, <1>4, <1>5, <1>6, FieldNames DEF Kept, Settled
-----------------------------------------------------------------------------
(* The saves under way.                                                      *)

\* The last save is known by its file and content.
LEMMA LastSave ==
    ASSUME NEW s \in SavesType, s.last # <<>>
    PROVE  s.last[1] \in Target /\ s.last[2] \in Nat
BY DEF SavesType

\* Losing saves, or the page's word of one, upsets nothing: every save of q2 is one
\* of q, of the same file and content, and no answer was added.
LEMMA FewerSaves ==
    ASSUME NEW q, NEW q2, NEW file, NEW s, NEW s2, SaveSound(q, file, s),
           NEW from \in [DOMAIN q2 -> DOMAIN q],
           \A a, b \in DOMAIN q2 : from[a] = from[b] => a = b,
           \A j \in DOMAIN q2 : /\ q2[j].on = q[from[j]].on
                                /\ q2[j].value = q[from[j]].value
                                /\ q2[j].reply = q[from[j]].reply,
           s2.alone => s.alone, s2.last = s.last, s2.said = s.said \/ s2.said = <<>>
    PROVE  SaveSound(q2, file, s2)
<1>1. SUFFICES ASSUME s2.alone PROVE SaveSound(q2, file, s2)!2
    BY DEF SaveSound
<1>2. s.alone
    BY <1>1
<1>3. /\ s.last # <<>>
      /\ \A i, j \in DOMAIN q : q[i].on = s.last[1] /\ q[j].on = s.last[1] => i = j
      /\ \A i \in DOMAIN q : q[i].on = s.last[1] =>
           /\ q[i].value = s.last[2]
           /\ s.said # s.last
           /\ q[i].reply.kind = "ok" => file[s.last[1]] = s.last[2]
      /\ s.said = s.last => file[s.last[1]] = s.last[2]
    BY <1>2 DEF SaveSound
<1>4. \A i, j \in DOMAIN q2 : q2[i].on = s2.last[1] /\ q2[j].on = s2.last[1] => i = j
    BY <1>3
<1>5. ASSUME NEW j \in DOMAIN q2, q2[j].on = s2.last[1]
      PROVE  /\ q2[j].value = s2.last[2]
             /\ s2.said # s2.last
             /\ q2[j].reply.kind = "ok" => file[s2.last[1]] = s2.last[2]
    <2>1. from[j] \in DOMAIN q /\ q[from[j]].on = s.last[1]
        BY <1>5
    <2> QED BY <1>3, <1>5, <2>1
<1>6. s2.said = s2.last => file[s2.last[1]] = s2.last[2]
    BY <1>3
<1> QED BY <1>3, <1>4, <1>5, <1>6

\* A sequence without its i-th element holds the others, each once.
LEMMA RemoveAtFrom ==
    ASSUME NEW S, NEW q \in Seq(S), NEW i \in DOMAIN q
    PROVE  \E from \in [DOMAIN RemoveAt(q, i) -> DOMAIN q \ {i}] :
              /\ \A a, b \in DOMAIN RemoveAt(q, i) : from[a] = from[b] => a = b
              /\ \A j \in DOMAIN RemoveAt(q, i) : RemoveAt(q, i)[j] = q[from[j]]
<1> DEFINE r == RemoveAt(q, i)
           from == [j \in 1 .. Len(q) - 1 |-> IF j < i THEN j ELSE j + 1]
<1>1. Len(q) \in Nat /\ DOMAIN q = 1 .. Len(q) /\ i \in 1 .. Len(q)
    BY LenProperties
<1>2. /\ DOMAIN r = 1 .. Len(q) - 1
      /\ \A j \in 1 .. Len(q) - 1 : r[j] = IF j < i THEN q[j] ELSE q[j + 1]
    BY RemoveAtProperties
<1> HIDE DEF r
<1>3. from \in [DOMAIN r -> DOMAIN q \ {i}]
    BY <1>1, <1>2
<1>4. \A a, b \in DOMAIN r : from[a] = from[b] => a = b
    BY <1>1, <1>2
<1>5. \A j \in DOMAIN r : r[j] = q[from[j]]
    BY <1>1, <1>2
<1> HIDE DEF from
<1>6. \E f \in [DOMAIN r -> DOMAIN q \ {i}] :
              /\ \A a, b \in DOMAIN r : f[a] = f[b] => a = b
              /\ \A j \in DOMAIN r : r[j] = q[f[j]]
    BY <1>3, <1>4, <1>5
<1> QED BY <1>6 DEF r

\* Without one of its saves: the page said nothing, or it said "Saved" of it.
LEMMA RemovedSave ==
    ASSUME NEW q \in Seq(Request("save")), NEW i \in DOMAIN q, NEW file, NEW s \in SavesType,
           NEW s2, SaveSound(q, file, s),
           \/ s2 = s
           \/ q[i].reply.kind = "ok" /\ s2 = [s EXCEPT !.said = <<q[i].on, q[i].value>>]
    PROVE  SaveSound(RemoveAt(q, i), file, s2)
<1> DEFINE r == RemoveAt(q, i)
<1>1. PICK from \in [DOMAIN r -> DOMAIN q \ {i}] :
              /\ \A a, b \in DOMAIN r : from[a] = from[b] => a = b
              /\ \A j \in DOMAIN r : r[j] = q[from[j]]
    BY RemoveAtFrom
<1> HIDE DEF r
<1>2. from \in [DOMAIN r -> DOMAIN q]
    BY <1>1
<1>3. SaveSound(r, file, s)
    BY <1>1, <1>2, FewerSaves
<1>4. CASE s2 = s
    BY <1>3, <1>4 DEF r
<1>5. CASE q[i].reply.kind = "ok" /\ s2 = [s EXCEPT !.said = <<q[i].on, q[i].value>>]
    <2>1. s2.alone = s.alone /\ s2.last = s.last /\ s2.said = <<q[i].on, q[i].value>>
        BY <1>5 DEF SavesType
    <2>2. SUFFICES ASSUME s.alone PROVE SaveSound(r, file, s2)
        BY <2>1 DEF SaveSound, r
    <2>3. /\ s.last # <<>>
          /\ \A a, b \in DOMAIN q : q[a].on = s.last[1] /\ q[b].on = s.last[1] => a = b
          /\ \A a \in DOMAIN q : q[a].on = s.last[1] =>
               q[a].value = s.last[2] /\ (q[a].reply.kind = "ok" => file[s.last[1]] = s.last[2])
        BY <2>2 DEF SaveSound
    <2>4. s.last \in Target \X Nat
        BY <2>3 DEF SavesType
    <2>5. CASE q[i].on = s.last[1]
        <3>1. \A j \in DOMAIN r : r[j].on # s.last[1]
            BY <1>1, <2>3, <2>5
        <3>2. file[s.last[1]] = s.last[2]
            BY <1>5, <2>3, <2>5
        <3> QED BY <2>1, <2>3, <3>1, <3>2 DEF SaveSound
    <2>6. CASE q[i].on # s.last[1]
        <3>1. s2.said # s.last
            BY <2>1, <2>4, <2>6
        <3>2. SaveSound(r, file, s)!2
            BY <1>3, <2>2 DEF SaveSound
        <3> QED BY <2>1, <3>1, <3>2 DEF SaveSound
    <2> QED BY <2>5, <2>6
<1> QED BY <1>4, <1>5

\* The panel handles a save: it touches no other file, and answers "ok" only
\* when the file holds the content.
LEMMA AnsweredSave ==
    ASSUME NEW q \in Seq(Request("save")), NEW i \in DOMAIN q, NEW file, NEW file2,
           NEW s \in SavesType, NEW r, SaveSound(q, file, s),
           \A x \in Target \ {q[i].on} : file2[x] = file[x],
           r.kind = "ok" => file2[q[i].on] = q[i].value,
           NEW q2, \/ q2 = [q EXCEPT ![i] = [@ EXCEPT !.reply = r]]
                   \/ q2 = RemoveAt(q, i)
    PROVE  SaveSound(q2, file2, s)
<1> SUFFICES ASSUME s.alone PROVE SaveSound(q2, file2, s)
    BY DEF SaveSound
<1>1. /\ s.last # <<>>
      /\ \A a, b \in DOMAIN q : q[a].on = s.last[1] /\ q[b].on = s.last[1] => a = b
      /\ \A a \in DOMAIN q : q[a].on = s.last[1] =>
           /\ q[a].value = s.last[2]
           /\ s.said # s.last
           /\ q[a].reply.kind = "ok" => file[s.last[1]] = s.last[2]
      /\ s.said = s.last => file[s.last[1]] = s.last[2]
    BY DEF SaveSound
<1>2. s.last[1] \in Target
    BY <1>1, LastSave
<1>3. q[i] \in Request("save")
    BY ElementOfSeq, LenProperties
<1> DEFINE t == [q EXCEPT ![i] = [@ EXCEPT !.reply = r]]
<1>4. /\ DOMAIN t = DOMAIN q
      /\ \A a \in DOMAIN q \ {i} : t[a] = q[a]
      /\ t[i].on = q[i].on /\ t[i].value = q[i].value /\ t[i].reply = r
    BY <1>3 DEF Request
<1> HIDE DEF t
<1>5. \A a \in DOMAIN t : t[a].on = q[a].on /\ t[a].value = q[a].value
    BY <1>4
<1>6. \A a, b \in DOMAIN t : t[a].on = s.last[1] /\ t[b].on = s.last[1] => a = b
    BY <1>1, <1>4, <1>5
<1>7. ASSUME NEW a \in DOMAIN t, t[a].on = s.last[1]
      PROVE  /\ t[a].value = s.last[2]
             /\ s.said # s.last
             /\ t[a].reply.kind = "ok" => file2[s.last[1]] = s.last[2]
    <2>1. t[a].value = s.last[2] /\ s.said # s.last
        BY <1>1, <1>4, <1>5, <1>7
    <2>2. CASE a = i
        BY <1>1, <1>4, <1>5, <1>7, <2>1, <2>2
    <2>3. CASE a # i
        <3>1. t[a] = q[a]
            BY <1>4, <2>3
        <3>2. q[i].on # s.last[1]
            BY <1>1, <1>4, <1>5, <1>7, <2>3
        <3>3. file2[s.last[1]] = file[s.last[1]]
            BY <1>2, <3>2
        <3> QED BY <1>1, <1>4, <1>5, <1>7, <2>1, <3>1, <3>3
    <2> QED BY <2>1, <2>2, <2>3
<1>8. s.said = s.last => file2[s.last[1]] = s.last[2]
    <2>1. CASE q[i].on = s.last[1]
        BY <1>1, <2>1
    <2>2. CASE q[i].on # s.last[1]
        BY <1>1, <1>2, <2>2
    <2> QED BY <2>1, <2>2
<1>9. SaveSound(t, file2, s)
    BY <1>1, <1>6, <1>7, <1>8 DEF SaveSound
<1>10. CASE q2 = [q EXCEPT ![i] = [@ EXCEPT !.reply = r]]
    BY <1>9, <1>10 DEF t
<1>11. CASE q2 = RemoveAt(q, i)
    <2> DEFINE u == RemoveAt(q, i)
    <2>1. PICK from \in [DOMAIN u -> DOMAIN q \ {i}] :
              /\ \A a, b \in DOMAIN u : from[a] = from[b] => a = b
              /\ \A j \in DOMAIN u : u[j] = q[from[j]]
        BY RemoveAtFrom
    <2> HIDE DEF u
    <2>2. from \in [DOMAIN u -> DOMAIN t] /\ \A j \in DOMAIN u : u[j] = t[from[j]]
        BY <1>4, <2>1
    <2>3. SaveSound(u, file2, s)
        BY <1>9, <2>1, <2>2, FewerSaves
    <2> QED BY <1>11, <2>3 DEF u
<1> QED BY <1>10, <1>11

\* A reload: what stays are earlier requests, and the page has said nothing.
LEMMA AbandonedSave ==
    ASSUME NEW n, NetOK(n), NEW file, NEW s \in SavesType, SaveSound(n["save"], file, s)
    PROVE  SaveSound(Abandoned(n)["save"], file, [s EXCEPT !.said = <<>>])
<1> DEFINE q == n["save"]
           q2 == Abandoned(n)["save"]
           s2 == [s EXCEPT !.said = <<>>]
<1>1. "save" \in Kind
    BY DEF Kind
<1>2. PICK from \in [DOMAIN q2 -> DOMAIN q] :
              /\ \A a, b \in DOMAIN q2 : from[a] = from[b] => a = b
              /\ \A j \in DOMAIN q2 : q2[j] = [q[from[j]] EXCEPT !.open = FALSE]
    <2>1. \A k \in Kind : \E from \in [DOMAIN Abandoned(n)[k] -> DOMAIN n[k]] :
                /\ \A a, b \in DOMAIN Abandoned(n)[k] : from[a] = from[b] => a = b
                /\ \A j \in DOMAIN Abandoned(n)[k] :
                     Abandoned(n)[k][j] = [n[k][from[j]] EXCEPT !.open = FALSE]
        BY AbandonedEffect
    <2> QED BY <1>1, <2>1
<1>3. q \in Seq(Request("save"))
    BY <1>1 DEF NetOK
<1>4. s2.alone = s.alone /\ s2.last = s.last /\ s2.said = <<>>
    BY DEF SavesType
<1> HIDE DEF q, q2, s2
<1>5. \A j \in DOMAIN q2 : q[from[j]] \in Request("save")
    BY <1>2, <1>3, ElementOfSeq, LenProperties
<1>6. \A j \in DOMAIN q2 : /\ q2[j].on = q[from[j]].on
                           /\ q2[j].value = q[from[j]].value
                           /\ q2[j].reply = q[from[j]].reply
    BY <1>2, <1>5 DEF Request
<1>7. SaveSound(q, file, s)
    BY DEF q
<1>8. SaveSound(q2, file, s2)
    BY <1>2, <1>4, <1>6, <1>7, FewerSaves
<1> QED BY <1>8 DEF q2, s2

\* The page gives a save up.
LEMMA GivenUpSave ==
    ASSUME NEW q \in Seq(Request("save")), NEW i \in DOMAIN q, NEW file, NEW s \in SavesType,
           SaveSound(q, file, s), NEW q2,
           \/ q2 = [q EXCEPT ![i] = [@ EXCEPT !.open = FALSE]]
           \/ q2 = RemoveAt(q, i)
    PROVE  SaveSound(q2, file, s)
<1>1. CASE q2 = RemoveAt(q, i)
    BY <1>1, RemovedSave
<1>2. CASE q2 = [q EXCEPT ![i] = [@ EXCEPT !.open = FALSE]]
    <2>1. q[i] \in Request("save")
        BY ElementOfSeq, LenProperties
    <2>2. /\ DOMAIN q2 = DOMAIN q
          /\ \A a \in DOMAIN q : q2[a].on = q[a].on /\ q2[a].value = q[a].value
                                 /\ q2[a].reply = q[a].reply
        BY <1>2, <2>1 DEF Request
    <2> QED BY <2>2 DEF SaveSound
<1> QED BY <1>1, <1>2

\* A save is clicked: it is alone when no other one of its file is under way.
LEMMA ClickedSave ==
    ASSUME NEW q \in Seq(Request("save")), NEW file, NEW s \in SavesType,
           NEW x \in Target, NEW v \in Nat, NEW r, r.on = x, r.value = v, r.reply = NoReply
    PROVE  SaveSound(Append(q, r), file,
                     [s EXCEPT !.last = <<x, v>>, !.said = <<>>,
                               !.alone = \A i \in DOMAIN q : q[i].on # x])
<1> DEFINE free == \A i \in DOMAIN q : q[i].on # x
           s2 == [s EXCEPT !.last = <<x, v>>, !.said = <<>>, !.alone = free]
           q2 == Append(q, r)
<1>1. s2.last = <<x, v>> /\ s2.said = <<>> /\ s2.alone = free
    BY DEF SavesType
<1>2. /\ Len(q) \in Nat /\ DOMAIN q = 1 .. Len(q) /\ DOMAIN q2 = 1 .. Len(q) + 1
      /\ q2[Len(q) + 1] = r /\ \A i \in 1 .. Len(q) : q2[i] = q[i]
    BY AppendProperties, LenProperties
<1> HIDE DEF s2, q2
<1>3. SUFFICES ASSUME free PROVE SaveSound(q2, file, s2)
    BY <1>1 DEF SaveSound, q2, s2
<1>4. s2.last # <<>> /\ s2.last[1] = x /\ s2.last[2] = v /\ s2.said # s2.last
    BY <1>1
<1>5. \A i \in DOMAIN q2 : q2[i].on = x => i = Len(q) + 1
    BY <1>2, <1>3
<1>6. r.reply.kind # "ok"
    BY DEF NoReply
<1> QED BY <1>2, <1>4, <1>5, <1>6 DEF SaveSound
-----------------------------------------------------------------------------
(* The panel's handlers.                                                     *)

\* The types of the panel's fields.
LEMMA PanelFields ==
    ASSUME NEW p \in PanelType
    PROVE  /\ p.sessions \in SUBSET Token /\ p.used \in SUBSET Token /\ p.sites \in SUBSET Site
           /\ p.updating \in BOOLEAN /\ p.file \in [Target -> Nat]
BY DEF PanelType

\* The ways the panel changes, besides its files.
LEMMA PanelUpdates ==
    ASSUME NEW p \in PanelType, NEW t \in SUBSET Token, NEW u \in SUBSET Token,
           NEW v \in SUBSET Site, NEW b \in BOOLEAN
    PROVE  /\ [p EXCEPT !.sessions = t] \in PanelType /\ [p EXCEPT !.sessions = t].file = p.file
           /\ [p EXCEPT !.sites = v] \in PanelType /\ [p EXCEPT !.sites = v].file = p.file
           /\ [p EXCEPT !.updating = b] \in PanelType /\ [p EXCEPT !.updating = b].file = p.file
           /\ [p EXCEPT !.sessions = t, !.used = u] \in PanelType
           /\ [p EXCEPT !.sessions = t, !.used = u].file = p.file
BY DEF PanelType

\* Storing a file changes that file only.
LEMMA PanelStores ==
    ASSUME NEW p \in PanelType, NEW x \in Target, NEW v \in Nat
    PROVE  /\ [p EXCEPT !.file[x] = v] \in PanelType
           /\ [p EXCEPT !.file[x] = v].file[x] = v
           /\ \A y \in Target \ {x} : [p EXCEPT !.file[x] = v].file[y] = p.file[y]
<1> DEFINE f == [p.file EXCEPT ![x] = v]
           g == [p EXCEPT !.file = f]
<1>1. f \in [Target -> Nat] /\ f[x] = v /\ \A y \in Target \ {x} : f[y] = p.file[y]
    BY PanelFields
<1>2. [p EXCEPT !.file[x] = v] = g
    BY DEF PanelType
<1> HIDE DEF f
<1>3. g \in PanelType /\ g.file = f
    BY <1>1 DEF PanelType
<1> HIDE DEF g
<1> QED BY <1>1, <1>2, <1>3

\* Every outcome is a panel and an answer of the request's kind; only a save
\* touches a file, its own, and says "ok" only when the file holds the content.
LEMMA OutcomesType ==
    ASSUME panel \in PanelType, NEW k \in Kind \ {"login"}, NEW r \in Request(k),
           NEW o \in Outcomes(k, r)
    PROVE  /\ o[1] \in PanelType /\ o[2] \in Replies(k)
           /\ k # "save" => o[1].file = panel.file
           /\ k = "save" => /\ \A x \in Target \ {r.on} : o[1].file[x] = panel.file[x]
                            /\ o[2].kind = "ok" => o[1].file[r.on] = r.value
<1> USE DEF Error, Ok
<1>0. /\ panel.sessions \in SUBSET Token /\ panel.used \in SUBSET Token
      /\ panel.sites \in SUBSET Site /\ panel.updating \in BOOLEAN /\ panel.file \in [Target -> Nat]
    BY PanelFields
<1>1. CASE k = "sites"
    <2>1. o = <<panel, [kind |-> "ok", items |-> panel.sites]>>
        BY <1>1 DEF Outcomes, HandleListSites
    <2> QED BY <1>0, <1>1, <2>1 DEF Replies
<1>2. CASE k = "status"
    <2>1. o = <<panel, [kind |-> "ok", running |-> panel.updating]>>
        BY <1>2 DEF Outcomes, HandlePanelUpdateStatus
    <2> QED BY <1>0, <1>2, <2>1 DEF Replies
<1>3. CASE k = "logout"
    <2>1. o = <<[panel EXCEPT !.sessions = @ \ {r.tok}], Ok>>
        BY <1>3 DEF Outcomes, HandleLogout
    <2>2. panel.sessions \ {r.tok} \in SUBSET Token
        BY <1>0
    <2> QED BY <1>3, <2>1, <2>2, PanelUpdates DEF Replies
<1>4. CASE k = "update"
    <2>1. o \in HandleStartPanelUpdate
        BY <1>4 DEF Outcomes
    <2> DEFINE p == [panel EXCEPT !.updating = TRUE]
    <2>2. \/ o = <<panel, Error>>
          \/ o = <<panel, [kind |-> "refused", running |-> panel.updating]>>
          \/ o = <<p, Ok>>
        BY <2>1 DEF HandleStartPanelUpdate, Refuse
    <2>3. p \in PanelType /\ p.file = panel.file
        BY PanelUpdates
    <2> HIDE DEF p
    <2>4. CASE o = <<panel, Error>>
        BY <1>4, <2>4 DEF Replies
    <2>5. CASE o = <<panel, [kind |-> "refused", running |-> panel.updating]>>
        BY <1>0, <1>4, <2>5 DEF Replies
    <2>6. CASE o = <<p, Ok>>
        BY <1>4, <2>3, <2>6 DEF Replies
    <2> QED BY <2>2, <2>4, <2>5, <2>6
<1>5. CASE k = "create"
    <2>1. o \in HandleCreateSite(r)
        BY <1>5 DEF Outcomes
    <2>2. \/ o = <<panel, Error>>
          \/ r.on \in Site /\ o = <<[panel EXCEPT !.sites = @ \cup {r.on}], Ok>>
        BY <2>1 DEF HandleCreateSite, Refuse
    <2>3. CASE o = <<panel, Error>>
        BY <1>5, <2>3 DEF Replies
    <2>4. CASE r.on \in Site /\ o = <<[panel EXCEPT !.sites = @ \cup {r.on}], Ok>>
        <3> DEFINE p == [panel EXCEPT !.sites = @ \cup {r.on}]
        <3>1. panel.sites \cup {r.on} \in SUBSET Site
            BY <1>0, <2>4
        <3>2. p \in PanelType /\ p.file = panel.file
            BY <3>1, PanelUpdates
        <3>3. o = <<p, Ok>>
            BY <2>4
        <3> HIDE DEF p
        <3> QED BY <1>5, <3>2, <3>3 DEF Replies
    <2> QED BY <2>2, <2>3, <2>4
<1>6. CASE k = "delete"
    <2>1. o = <<panel, Error>> \/ o = <<panel, Ok>>
        BY <1>6 DEF Outcomes, HandleDeleteSite, Refuse
    <2> QED BY <1>6, <2>1 DEF Replies
<1>7. CASE k = "load"
    <2>1. o \in HandleGetSiteContent(r)
        BY <1>7 DEF Outcomes
    <2>2. \/ o = <<panel, Error>>
          \/ o = <<panel, [kind |-> "ok", value |-> panel.file[r.on]]>>
        BY <2>1 DEF HandleGetSiteContent, Refuse
    <2>3. panel.file[r.on] \in Nat
        BY <1>0, <1>7 DEF Request, Subject
    <2> QED BY <1>7, <2>2, <2>3 DEF Replies
<1>8. CASE k = "save"
    <2>1. o \in HandleUpdateSiteContent(r)
        BY <1>8 DEF Outcomes
    <2>2. r.value \in Nat /\ 0 \in Nat /\ r.on \in Target
        BY <1>8 DEF Request, Subject
    <2>3. \/ o = <<panel, Error>>
          \/ o = <<[panel EXCEPT !.file[r.on] = r.value], Ok>>
          \/ o = <<[panel EXCEPT !.file[r.on] = 0], Error>>
        BY <2>1 DEF HandleUpdateSiteContent, Refuse
    <2>4. CASE o = <<panel, Error>>
        BY <1>8, <2>4 DEF Replies
    <2>5. CASE o = <<[panel EXCEPT !.file[r.on] = r.value], Ok>>
        <3> DEFINE p == [panel EXCEPT !.file[r.on] = r.value]
        <3>1. /\ p \in PanelType /\ p.file[r.on] = r.value
              /\ \A x \in Target \ {r.on} : p.file[x] = panel.file[x]
            BY <2>2, PanelStores
        <3>2. o = <<p, Ok>>
            BY <2>5
        <3> HIDE DEF p
        <3> QED BY <1>8, <3>1, <3>2 DEF Replies
    <2>6. CASE o = <<[panel EXCEPT !.file[r.on] = 0], Error>>
        <3> DEFINE p == [panel EXCEPT !.file[r.on] = 0]
        <3>1. /\ p \in PanelType /\ p.file[r.on] = 0
              /\ \A x \in Target \ {r.on} : p.file[x] = panel.file[x]
            BY <2>2, PanelStores
        <3>2. o = <<p, Error>>
            BY <2>6
        <3> HIDE DEF p
        <3> QED BY <1>8, <3>1, <3>2 DEF Replies
    <2> QED BY <2>3, <2>4, <2>5, <2>6
<1>9. CASE k = "upload"
    <2>1. o = <<panel, Error>> \/ o = <<panel, Ok>>
        BY <1>9 DEF Outcomes, HandleUploadSiteFile, Refuse
    <2> QED BY <1>9, <2>1 DEF Replies
<1> QED BY <1>1, <1>2, <1>3, <1>4, <1>5, <1>6, <1>7, <1>8, <1>9 DEF Kind, Poll
-----------------------------------------------------------------------------
(* The steps.                                                                *)

\* A step that leaves the saves alone.
LEMMA NoSaveStep ==
    ASSUME WebInv, page' \in PageType, Polls(page'), form' \in FormType, Kept(form'),
           NetOK(net'), net'["save"] = net["save"], panel' \in PanelType, panel'.file = panel.file,
           saves' = saves
    PROVE  WebInv'
BY DEF WebInv, TypeOK

\* A request that is not a save is sent.
LEMMA SendStep ==
    ASSUME WebInv, NEW p, NEW k \in Kind \ {"save"}, p.token \in Tokens(k),
           NEW on \in Subject(k), NEW value \in Nat, net' = CallAPI(net, p, k, on, value),
           UNCHANGED <<page, form, panel, saves>>
    PROVE  WebInv'
<1>1. NetOK(net) /\ "save" \in Kind \ {k} /\ k \in Kind
    BY DEF WebInv, TypeOK, Kind
<1> DEFINE m == CallAPI(net, p, k, on, value)
<1>2. NetOK(m) /\ \A j \in Kind \ {k} : m[j] = net[j]
    BY <1>1, CallAPIEffect
<1> HIDE DEF m
<1>3. net' = m
    BY DEF m
<1>4. NetOK(net') /\ net'["save"] = net["save"]
    BY <1>1, <1>2, <1>3
<1> QED BY <1>4, NoSaveStep DEF WebInv, TypeOK

\* Clicks that send a request.
LEMMA ClicksKeep ==
    ASSUME WebInv,
           \/ ClickLogin \/ ClickLogout \/ ClickRefresh \/ ClickStartUpdate
           \/ ClickCreateSite \/ ClickDeleteSite \/ ClickLoadFile \/ ClickUploadFile
    PROVE  WebInv'
<1>1. /\ page.token \in Token \cup {Empty} /\ page.shown \in SUBSET Site
      /\ form.domain \in Filled /\ EditorOK(form.value) /\ form.local \in Path \cup {Empty}
      /\ Empty \in Filled /\ 0 \in Nat /\ Loud \in Nat /\ Site \subseteq Filled
    BY PageFields, FormFields, FieldNames DEF WebInv, TypeOK, Kept, Settled, Loud
<1>2. \A k \in Kind \ Poll : page.token \in Tokens(k)
    BY <1>1 DEF Tokens
<1>3. /\ {"login", "logout", "update", "create", "delete", "load", "upload"}
            \subseteq Kind \ (Poll \cup {"save"})
      /\ \A k \in Poll \cup {"login", "logout", "update", "create", "delete"} : Subject(k) = Filled
      /\ Subject("load") = Target /\ Subject("upload") = Site \X Path
    BY DEF Kind, Poll, Subject
<1>4. CASE ClickLogin
    <2> DEFINE p == [page EXCEPT !.token = Empty]
    <2>1. p.token \in Tokens("login")
        <3>1. p.token = Empty
            BY DEF WebInv, TypeOK, PageType
        <3> QED BY <1>3, <3>1 DEF Tokens
    <2>2. net' = CallAPI(net, p, "login", Empty, 0) /\ UNCHANGED <<page, form, panel, saves>>
        BY <1>4 DEF ClickLogin
    <2> HIDE DEF p
    <2> QED BY <1>1, <1>3, <2>1, <2>2, SendStep
<1>5. CASE ClickLogout
    BY <1>1, <1>2, <1>3, <1>5, SendStep DEF ClickLogout
<1>6. CASE ClickRefresh
    <2>1. PICK k \in Poll : net' = CallAPI(net, page, k, Empty, Loud)
        BY <1>6 DEF ClickRefresh
    <2>2. page.token \in Tokens(k) /\ k \in Kind \ {"save"}
        BY <1>1, <1>6 DEF ClickRefresh, Tokens, Kind, Poll
    <2>3. UNCHANGED <<page, form, panel, saves>>
        BY <1>6 DEF ClickRefresh
    <2> QED BY <1>1, <1>3, <2>1, <2>2, <2>3, SendStep
<1>7. CASE ClickStartUpdate
    BY <1>1, <1>2, <1>3, <1>7, SendStep DEF ClickStartUpdate
<1>8. CASE ClickCreateSite
    BY <1>1, <1>2, <1>3, <1>8, SendStep DEF ClickCreateSite
<1>9. CASE ClickDeleteSite
    <2>1. PICK s \in page.shown : net' = CallAPI(net, page, "delete", s, 0)
        BY <1>9 DEF ClickDeleteSite
    <2>2. s \in Filled
        BY <1>1, <2>1
    <2>3. UNCHANGED <<page, form, panel, saves>>
        BY <1>9 DEF ClickDeleteSite
    <2> QED BY <1>1, <1>2, <1>3, <2>1, <2>2, <2>3, SendStep
<1>10. CASE ClickLoadFile
    <2>1. /\ net' = CallAPI(net, page, "load", Edited(form), 0)
          /\ UNCHANGED <<page, form, panel, saves>>
        BY <1>10 DEF ClickLoadFile
    <2>2. Edited(form) \in Target
        BY <1>1, <1>10 DEF ClickLoadFile, Edited, EditorOK, Filled, Target
    <2> QED BY <1>1, <1>2, <1>3, <2>1, <2>2, SendStep
<1>11. CASE ClickUploadFile
    <2> DEFINE on == <<form.value["fileSiteID"], UploadTarget(form)>>
    <2>1. net' = CallAPI(net, page, "upload", on, 0) /\ UNCHANGED <<page, form, panel, saves>>
        BY <1>11 DEF ClickUploadFile
    <2>2. on \in Site \X Path
        BY <1>1, <1>11 DEF ClickUploadFile, UploadTarget, EditorOK, Filled
    <2> HIDE DEF on
    <2> QED BY <1>1, <1>2, <1>3, <2>1, <2>2, SendStep
<1> QED BY <1>4, <1>5, <1>6, <1>7, <1>8, <1>9, <1>10, <1>11

\* A click on Save.
LEMMA SaveClickKeeps == ASSUME WebInv, ClickSaveFile PROVE WebInv'
<1> DEFINE s == Edited(form)
           v == form.content
           q == net["save"]
           free == \A i \in DOMAIN q : q[i].on # s
<1>1. s \in Target /\ v \in Nat /\ s \in Subject("save")
    <2>1. EditorOK(form.value) /\ v \in Nat
        BY FormFields DEF WebInv, TypeOK, Kept, Settled
    <2> QED BY <2>1 DEF ClickSaveFile, Edited, EditorOK, Filled, Target, Subject
<1>2. page.token \in Tokens("save") /\ "save" \in Kind
    BY PageFields DEF WebInv, TypeOK, Tokens, Kind, Poll
<1>3. NetOK(net) /\ q \in Seq(Request("save")) /\ saves \in SavesType
    BY <1>2 DEF WebInv, TypeOK, NetOK
<1>4. /\ net' = CallAPI(net, page, "save", s, v)
      /\ saves' = [saves EXCEPT !.last = <<s, v>>, !.said = <<>>, !.alone = free]
      /\ UNCHANGED <<page, form, panel>>
    BY DEF ClickSaveFile
<1> HIDE DEF s, v
<1>5. NetOK(net') /\ net'["save"] = Append(q, Sent(page, s, v))
    BY <1>1, <1>2, <1>3, <1>4, CallAPIEffect
<1>6. saves' \in SavesType
    <2>1. free \in BOOLEAN /\ <<s, v>> \in Target \X Nat
        BY <1>1
    <2> HIDE DEF free
    <2> QED BY <1>3, <1>4, <2>1 DEF SavesType
<1> HIDE DEF q
<1>7. Sent(page, s, v).on = s /\ Sent(page, s, v).value = v /\ Sent(page, s, v).reply = NoReply
    BY DEF Sent
<1>8. SaveSound(Append(q, Sent(page, s, v)), panel.file, saves')
    BY <1>1, <1>3, <1>4, <1>7, ClickedSave
<1> QED BY <1>4, <1>5, <1>6, <1>8 DEF WebInv, TypeOK

\* The user fills the form.
LEMMA TypingKeeps ==
    ASSUME WebInv,
           \/ ChooseField \/ ClickEditIndex \/ PickFileName \/ TypePath \/ ChooseLocalFile
           \/ TypeRootPath \/ TypeDomain \/ EditContent
    PROVE  WebInv'
<1>1. form \in FormType /\ Kept(form) /\ page.shown \in SUBSET Site
    BY PageFields DEF WebInv, TypeOK
<1>2. ASSUME form' \in FormType, Kept(form'), UNCHANGED <<page, net, panel, saves>>
      PROVE  WebInv'
    BY <1>2, NoSaveStep DEF WebInv, TypeOK
<1>3. CASE ChooseField
    <2>1. PICK name \in {"fileSiteID", "sslDomain"}, v \in Filled : form' = Typed(form, name, v)
        BY <1>3 DEF ChooseField, Filled
    <2>2. form' \in FormType /\ Kept(form')
        BY <1>1, <2>1, FieldNames, TypedKeeps
    <2> QED BY <1>2, <1>3, <2>2 DEF ChooseField
<1>4. CASE ClickEditIndex
    <2>1. PICK s \in page.shown :
            form' = [SelectSiteForEditor(form, s) EXCEPT
                        !.chosen = [Unsettled(@) EXCEPT !["fileSiteID"] = s]]
        BY <1>4 DEF ClickEditIndex
    <2>2. form' \in FormType /\ Kept(form')
        BY <1>1, <2>1, EditIndexKeeps
    <2> QED BY <1>2, <1>4, <2>2 DEF ClickEditIndex
<1>5. CASE PickFileName
    <2>1. PICK v \in File : form' = Typed(form, "fileName", v)
        BY <1>5 DEF PickFileName
    <2>2. form' \in FormType /\ Kept(form')
        BY <1>1, <2>1, FieldNames, TypedKeeps
    <2> QED BY <1>2, <1>5, <2>2 DEF PickFileName
<1>6. CASE TypePath
    <2>1. PICK name \in FileField \ {"fileName"}, v \in Path \cup {Empty} :
            form' = Typed(form, name, v)
        BY <1>6 DEF TypePath
    <2>2. name \in Field /\ v \in Entry /\ name \notin {"rootPath", "fileSiteID", "fileName"}
        BY <2>1, FieldNames
    <2>3. form' \in FormType /\ Kept(form')
        BY <1>1, <2>1, <2>2, TypedKeeps
    <2> QED BY <1>2, <1>6, <2>3 DEF TypePath
<1>7. CASE ChooseLocalFile
    <2>1. PICK v \in Path : form' = FillIfEmpty([form EXCEPT !.local = v], "uploadPath", v)
        BY <1>7 DEF ChooseLocalFile
    <2> DEFINE f == [form EXCEPT !.local = v]
    <2>2. f \in FormType /\ Kept(f) /\ form' = FillIfEmpty(f, "uploadPath", v)
        BY <1>1, <2>1, MarkKeeps
    <2> HIDE DEF f
    <2>3. form' \in FormType /\ Kept(form')
        BY <2>2, FieldNames, FillKeeps
    <2> QED BY <1>2, <1>7, <2>3 DEF ChooseLocalFile
<1>8. CASE TypeRootPath
    <2>1. PICK v \in Site : form' = [Typed(form, "rootPath", v) EXCEPT !.rootDirty = TRUE]
        BY <1>8 DEF TypeRootPath
    <2>2. form' \in FormType /\ Kept(form')
        BY <1>1, <2>1, RootPathKeeps
    <2> QED BY <1>2, <1>8, <2>2 DEF TypeRootPath
<1>9. CASE TypeDomain
    <2>1. form' \in FormType /\ Kept(form')
        BY <1>1, <1>9, DomainKeeps DEF TypeDomain
    <2> QED BY <1>2, <1>9, <2>1 DEF TypeDomain
<1>10. CASE EditContent
    <2>1. saves \in SavesType /\ saves.edits \in Nat
        BY DEF WebInv, TypeOK, SavesType
    <2>2. /\ form' = [form EXCEPT !.content = saves.edits + 1]
          /\ saves' = [saves EXCEPT !.edits = @ + 1]
          /\ UNCHANGED <<page, net, panel>>
        BY <1>10 DEF EditContent
    <2>3. form' \in FormType /\ Kept(form')
        <3>1. saves.edits + 1 \in Nat
            BY <2>1
        <3> QED BY <1>1, <2>2, <3>1, MarkKeeps
    <2>4. /\ saves' \in SavesType /\ saves'.alone = saves.alone /\ saves'.last = saves.last
          /\ saves'.said = saves.said
        BY <2>1, <2>2 DEF SavesType
    <2>5. SaveSound(net["save"], panel.file, saves')
        BY <2>4 DEF WebInv, SaveSound
    <2> QED BY <2>2, <2>3, <2>4, <2>5 DEF WebInv, TypeOK
<1> QED BY <1>3, <1>4, <1>5, <1>6, <1>7, <1>8, <1>9, <1>10

\* The page is loaded again.
LEMMA ReloadKeeps == ASSUME WebInv, Reload PROVE WebInv'
<1>1. NetOK(net) /\ saves \in SavesType /\ page.token \in Token \cup {Empty}
    BY PageFields DEF WebInv, TypeOK
<1>2. /\ page' = SetToken(NewPage, page.token) /\ form' = NewForm /\ panel' = panel
      /\ net' = SetTokenFetches(Abandoned(net), page') /\ saves' = [saves EXCEPT !.said = <<>>]
    BY DEF Reload
<1>3. page' \in PageType /\ Polls(page') /\ page'.token = page.token
    BY <1>1, <1>2, NewPageType, SetTokenEffect
<1>4. NetOK(Abandoned(net))
    BY <1>1, AbandonedEffect
<1>5. NetOK(net') /\ net'["save"] = Abandoned(net)["save"]
    BY <1>1, <1>2, <1>3, <1>4, SetTokenFetchesEffect
<1>6. SaveSound(Abandoned(net)["save"], panel.file, [saves EXCEPT !.said = <<>>])
    BY <1>1, AbandonedSave DEF WebInv
<1>7. saves' \in SavesType
    BY <1>1, <1>2 DEF SavesType
<1> QED BY <1>2, <1>3, <1>5, <1>6, <1>7, NewFormType DEF WebInv, TypeOK

\* The panel handles a request, or fails to.
LEMMA HandledKeeps ==
    ASSUME WebInv, NEW k \in Kind, NEW i \in DOMAIN net[k], NEW r \in Replies(k),
           Handled(k, i, r), UNCHANGED <<page, form, saves>>, panel' \in PanelType,
           k # "save" => panel'.file = panel.file,
           k = "save" => /\ \A x \in Target \ {net[k][i].on} : panel'.file[x] = panel.file[x]
                         /\ r.kind = "ok" => panel'.file[net[k][i].on] = net[k][i].value
    PROVE  WebInv'
<1>1. NetOK(net) /\ "save" \in Kind /\ saves \in SavesType
    BY DEF WebInv, TypeOK, Kind
<1>2. /\ NetOK(net')
      /\ \A j \in Kind \ {k} : net'[j] = net[j]
      /\ \/ net'[k] = [net[k] EXCEPT ![i] = [@ EXCEPT !.reply = r]]
         \/ net'[k] = RemoveAt(net[k], i)
    BY <1>1, HandledEffect
<1>3. CASE k # "save"
    <2>1. net'["save"] = net["save"]
        BY <1>1, <1>2, <1>3
    <2> QED BY <1>2, <1>3, <2>1, NoSaveStep DEF WebInv, TypeOK
<1>4. CASE k = "save"
    <2> DEFINE q == net["save"]
    <2>1. q \in Seq(Request("save")) /\ i \in DOMAIN q /\ SaveSound(q, panel.file, saves)
        BY <1>1, <1>4 DEF WebInv, NetOK
    <2>2. \/ net'["save"] = [q EXCEPT ![i] = [@ EXCEPT !.reply = r]]
          \/ net'["save"] = RemoveAt(q, i)
        BY <1>2, <1>4
    <2>3. /\ \A x \in Target \ {q[i].on} : panel'.file[x] = panel.file[x]
          /\ r.kind = "ok" => panel'.file[q[i].on] = q[i].value
        BY <1>4
    <2> HIDE DEF q
    <2>4. SaveSound(net'["save"], panel'.file, saves)
        BY <1>1, <2>1, <2>2, <2>3, AnsweredSave
    <2> QED BY <1>2, <2>4 DEF WebInv, TypeOK
<1> QED BY <1>3, <1>4

\* Any request may be answered with an error, which is not "ok".
LEMMA ErrorIsAReply == \A k \in Kind : Error \in Replies(k) /\ Error.kind # "ok"
BY DEF Replies, Error

\* The panel handles a request of any kind, or fails to.
LEMMA HandleKeeps ==
    ASSUME WebInv, NEW k \in Kind, NEW i \in DOMAIN net[k], Handle(k, i) \/ HandlerErrs(k, i)
    PROVE  WebInv'
<1>1. panel \in PanelType /\ NetOK(net)
    BY DEF WebInv, TypeOK
<1>2. net[k][i] \in Request(k)
    BY <1>1 DEF NetOK
<1>3. ASSUME Handled(k, i, Error), UNCHANGED <<page, form, panel, saves>>
      PROVE  WebInv'
    BY <1>1, <1>3, ErrorIsAReply, HandledKeeps
<1>4. CASE HandlerErrs(k, i)
    BY <1>3, <1>4 DEF HandlerErrs
<1>5. CASE HandleAuthenticated(k, i)
    <2>1. k # "login" /\ UNCHANGED <<page, form, saves>>
        BY <1>5 DEF HandleAuthenticated
    <2>2. CASE net[k][i].tok \in panel.sessions
        <3>1. PICK o \in Outcomes(k, net[k][i]) : panel' = o[1] /\ Handled(k, i, o[2])
            BY <1>5, <2>2 DEF HandleAuthenticated
        <3>2. /\ o[1] \in PanelType /\ o[2] \in Replies(k)
              /\ k # "save" => o[1].file = panel.file
              /\ k = "save" =>
                   /\ \A x \in Target \ {net[k][i].on} : o[1].file[x] = panel.file[x]
                   /\ o[2].kind = "ok" => o[1].file[net[k][i].on] = net[k][i].value
            BY <1>1, <1>2, <2>1, <3>1, OutcomesType
        <3> QED BY <2>1, <3>1, <3>2, HandledKeeps
    <2>3. CASE net[k][i].tok \notin panel.sessions
        BY <1>3, <1>5, <2>3 DEF HandleAuthenticated
    <2> QED BY <2>2, <2>3
<1>6. CASE k = "login" /\ HandleLogin(i)
    <2>1. CASE panel' = panel /\ Handled("login", i, Error)
        BY <1>3, <1>6, <2>1 DEF HandleLogin
    <2>2. CASE \E t \in Token \ panel.used :
                  /\ panel' = [panel EXCEPT !.sessions = @ \cup {t}, !.used = @ \cup {t}]
                  /\ Handled("login", i, [kind |-> "ok", token |-> t])
        <3>1. PICK t \in Token :
                  /\ panel' = [panel EXCEPT !.sessions = @ \cup {t}, !.used = @ \cup {t}]
                  /\ Handled("login", i, [kind |-> "ok", token |-> t])
            BY <2>2
        <3>2. panel.sessions \cup {t} \in SUBSET Token /\ panel.used \cup {t} \in SUBSET Token
            BY <1>1, PanelFields
        <3>3. panel' \in PanelType /\ panel'.file = panel.file
            BY <1>1, <3>1, <3>2, PanelUpdates
        <3>4. [kind |-> "ok", token |-> t] \in Replies("login")
            BY DEF Replies
        <3> QED BY <1>6, <3>1, <3>3, <3>4, HandledKeeps DEF HandleLogin
    <2> QED BY <1>6, <2>1, <2>2 DEF HandleLogin
<1> QED BY <1>4, <1>5, <1>6 DEF Handle

\* The panel changes by itself.
LEMMA PanelKeeps == ASSUME WebInv, UpdateEnds \/ PanelChanges PROVE WebInv'
<1>1. panel \in PanelType /\ UNCHANGED <<page, form, net, saves>>
    BY DEF WebInv, TypeOK, UpdateEnds, PanelChanges
<1>2. panel' \in PanelType /\ panel'.file = panel.file
    <2>1. CASE UpdateEnds
        BY <1>1, <2>1, PanelUpdates DEF UpdateEnds
    <2>2. ASSUME NEW s \in Site,
                 panel' = [panel EXCEPT !.sites = IF s \in @ THEN @ \ {s} ELSE @ \cup {s}]
          PROVE  panel' \in PanelType /\ panel'.file = panel.file
        <3> DEFINE v == IF s \in panel.sites THEN panel.sites \ {s} ELSE panel.sites \cup {s}
        <3>1. v \in SUBSET Site
            BY <1>1, PanelFields
        <3>2. panel' = [panel EXCEPT !.sites = v]
            BY <2>2
        <3> HIDE DEF v
        <3> QED BY <1>1, <3>1, <3>2, PanelUpdates
    <2>3. ASSUME NEW t \in panel.sessions, panel' = [panel EXCEPT !.sessions = @ \ {t}]
          PROVE  panel' \in PanelType /\ panel'.file = panel.file
        <3>1. panel.sessions \ {t} \in SUBSET Token
            BY <1>1, PanelFields
        <3> QED BY <1>1, <2>3, <3>1, PanelUpdates
    <2> QED BY <2>1, <2>2, <2>3 DEF PanelChanges
<1> QED BY <1>1, <1>2, NoSaveStep DEF WebInv, TypeOK

\* A timer fires.
LEMMA TickKeeps == ASSUME WebInv, NEW k \in Poll, Tick(k) PROVE WebInv'
<1>1. NetOK(net) /\ page.token \in Token \cup {Empty}
    BY PageFields DEF WebInv, TypeOK
<1>2. net' = Fetch(net, page, k) /\ UNCHANGED <<page, form, panel, saves>>
    BY DEF Tick
<1>3. NetOK(net') /\ net'["save"] = net["save"]
    BY <1>1, <1>2, FetchEffect
<1> QED BY <1>2, <1>3, NoSaveStep DEF WebInv, TypeOK

-----------------------------------------------------------------------------
(* Answers arrive, or are lost.                                              *)

\* A request that is not a save is settled, and perhaps a fetch sent.
LEMMA SettledNet ==
    ASSUME WebInv, NEW k \in Kind \ {"save"}, NEW i \in DOMAIN net[k]
    PROVE  /\ NetOK(Rest(k, i)) /\ Rest(k, i)["save"] = net["save"]
           /\ \A j \in Poll : /\ NetOK(Fetch(Rest(k, i), page, j))
                              /\ Fetch(Rest(k, i), page, j)["save"] = net["save"]
<1>1. NetOK(net) /\ "save" \in Kind \ {k} /\ k \in Kind /\ page.token \in Token \cup {Empty}
    BY PageFields DEF WebInv, TypeOK, Kind
<1> DEFINE m == Rest(k, i)
<1>2. NetOK(m) /\ m["save"] = net["save"]
    BY <1>1, RestEffect
<1> HIDE DEF m
<1>3. \A j \in Poll : NetOK(Fetch(m, page, j)) /\ Fetch(m, page, j)["save"] = m["save"]
    BY <1>1, <1>2, FetchEffect
<1> QED BY <1>2, <1>3 DEF m

\* The answer of a request has the type of its kind.
LEMMA ReplyType ==
    ASSUME WebInv, NEW k \in Kind, NEW i \in DOMAIN net[k]
    PROVE  net[k][i] \in Request(k) /\ net[k][i].reply \in Replies(k)
<1>1. net[k] \in Seq(Request(k))
    BY DEF WebInv, TypeOK, NetOK
<1>2. net[k][i] \in Request(k)
    BY <1>1
<1> QED BY <1>2 DEF Request

\* Showing something keeps the page in order.
LEMMA LabelKeeps ==
    ASSUME WebInv, NEW l \in Labels, NEW d \in BOOLEAN
    PROVE  /\ [page EXCEPT !.label = l] \in PageType /\ Polls([page EXCEPT !.label = l])
           /\ [page EXCEPT !.label = l, !.disabled = d] \in PageType
           /\ Polls([page EXCEPT !.label = l, !.disabled = d])
<1>1. page \in PageType /\ Polls(page)
    BY DEF WebInv, TypeOK
<1>2. /\ [page EXCEPT !.label = l] \in PageType
      /\ [page EXCEPT !.label = l].token = page.token
      /\ [page EXCEPT !.label = l].timer = page.timer
      /\ [page EXCEPT !.label = l].live = page.live
    BY <1>1 DEF PageType
<1>3. /\ [page EXCEPT !.label = l, !.disabled = d] \in PageType
      /\ [page EXCEPT !.label = l, !.disabled = d].token = page.token
      /\ [page EXCEPT !.label = l, !.disabled = d].timer = page.timer
      /\ [page EXCEPT !.label = l, !.disabled = d].live = page.live
    BY <1>1, PageLabel
<1> QED BY <1>1, <1>2, <1>3, ShowingKeepsPolls

\* The answer to a status poll changes the button only.
LEMMA StatusKeeps ==
    ASSUME WebInv, NEW b \in BOOLEAN
    PROVE  ApplyUpdateStatus(page, b) \in PageType /\ Polls(ApplyUpdateStatus(page, b))
<1> DEFINE l == IF b THEN "Updating" ELSE "Not running"
<1>1. l \in Labels
    BY DEF Labels
<1>2. ApplyUpdateStatus(page, b) = [page EXCEPT !.label = l, !.disabled = b]
    BY DEF ApplyUpdateStatus
<1> HIDE DEF l
<1> QED BY <1>1, <1>2, LabelKeeps

\* Answers that change the session or the page.
LEMMA SessionAnswersKeep ==
    ASSUME WebInv, NEW k \in Kind, NEW i \in DOMAIN net[k],
           \/ k = "login"  /\ LoginArrives(i)
           \/ k = "logout" /\ LogoutArrives(i)
           \/ k = "status" /\ StatusArrives(i)
           \/ k = "update" /\ UpdateArrives(i)
    PROVE  WebInv'
<1>0. page \in PageType /\ Polls(page) /\ OneInterval(page) /\ form \in FormType /\ Kept(form)
      /\ panel \in PanelType
    BY DEF WebInv, TypeOK, Polls
<1>1. k \in Kind \ {"save"} /\ UNCHANGED <<form, panel, saves>>
    BY DEF LoginArrives, LogoutArrives, StatusArrives, UpdateArrives
<1>2. /\ NetOK(Rest(k, i)) /\ Rest(k, i)["save"] = net["save"]
      /\ \A j \in Poll : /\ NetOK(Fetch(Rest(k, i), page, j))
                         /\ Fetch(Rest(k, i), page, j)["save"] = net["save"]
    BY <1>1, SettledNet
<1>3. SUFFICES page' \in PageType /\ Polls(page') /\ NetOK(net') /\ net'["save"] = net["save"]
    BY <1>0, <1>1, NoSaveStep
<1> DEFINE r == net[k][i].reply
<1>4. r \in Replies(k)
    BY ReplyType
<1>5. CASE k = "login" /\ LoginArrives(i)
    <2>1. CASE r.kind = "ok"
        <3>1. r.token \in Token
            BY <1>4, <1>5, <2>1 DEF Replies, NoReply, Error
        <3>2. page' = SetToken(page, r.token) /\ net' = SetTokenFetches(Rest(k, i), page')
            BY <1>5, <2>1 DEF LoginArrives
        <3>3. page' \in PageType /\ Polls(page') /\ page'.token = r.token
            BY <1>0, <3>1, <3>2, SetTokenEffect
        <3> HIDE DEF r
        <3> QED BY <1>2, <3>1, <3>2, <3>3, SetTokenFetchesEffect
    <2>2. CASE r.kind # "ok"
        BY <1>0, <1>2, <1>5, <2>2 DEF LoginArrives
    <2> QED BY <2>1, <2>2
<1>6. CASE k = "logout" /\ LogoutArrives(i)
    <2>1. page' = SetToken(page, Empty) /\ net' = Rest(k, i)
        BY <1>6 DEF LogoutArrives
    <2> QED BY <1>0, <1>2, <2>1, SetTokenEffect
<1>7. CASE k = "status" /\ StatusArrives(i)
    <2>1. net' = Rest(k, i)
        BY <1>7 DEF StatusArrives
    <2>2. CASE r.kind = "ok"
        <3>1. r.running \in BOOLEAN
            BY <1>4, <1>7, <2>2 DEF Replies, NoReply, Error
        <3>2. page' = ApplyUpdateStatus(page, r.running)
            BY <1>7, <2>2 DEF StatusArrives
        <3> QED BY <1>2, <2>1, <3>1, <3>2, StatusKeeps
    <2>3. CASE r.kind # "ok"
        <3>1. page' = [page EXCEPT !.label = "Unknown", !.disabled = FALSE] /\ "Unknown" \in Labels
            BY <1>7, <2>3 DEF StatusArrives, Labels
        <3> QED BY <1>2, <2>1, <3>1, LabelKeeps
    <2> QED BY <2>2, <2>3
<1>8. CASE k = "update" /\ UpdateArrives(i)
    <2>1. "status" \in Poll
        BY DEF Poll
    <2>2. CASE r.kind = "refused"
        <3>1. r.running \in BOOLEAN
            BY <1>4, <1>8, <2>2 DEF Replies, NoReply, Error, Ok
        <3> DEFINE p == ApplyUpdateStatus(page, r.running)
        <3>2. page' = StartPolling(p, "status") /\ net' = Rest(k, i)
            BY <1>8, <2>2 DEF UpdateArrives
        <3>3. p \in PageType /\ Polls(p) /\ OneInterval(p)
            BY <3>1, StatusKeeps DEF Polls
        <3> HIDE DEF p
        <3> QED BY <1>2, <2>1, <3>2, <3>3, StartPollingEffect, StartPollingKeepsPolls
    <2>3. CASE r.kind # "refused"
        <3> DEFINE p == [page EXCEPT !.label = "Triggered"]
        <3>1. page' = StartPolling(p, "status") /\ net' = Fetch(Rest(k, i), page, "status")
            BY <1>8, <2>3 DEF UpdateArrives
        <3>2. "Triggered" \in Labels
            BY DEF Labels
        <3>3. p \in PageType /\ Polls(p) /\ OneInterval(p)
            BY <3>2, LabelKeeps DEF Polls
        <3> HIDE DEF p
        <3> QED BY <1>2, <2>1, <3>1, <3>3, StartPollingEffect, StartPollingKeepsPolls
    <2> QED BY <2>2, <2>3
<1> QED BY <1>5, <1>6, <1>7, <1>8

\* Answers that change the form, and the list of sites.
LEMMA FormAnswersKeep ==
    ASSUME WebInv, NEW k \in Kind, NEW i \in DOMAIN net[k],
           \/ k = "sites"  /\ SitesArrive(i)
           \/ k = "create" /\ CreateArrives(i)
           \/ k = "delete" /\ DeleteArrives(i)
           \/ k = "load"   /\ LoadArrives(i)
           \/ k = "upload" /\ UploadArrives(i)
    PROVE  WebInv'
<1>0. page \in PageType /\ Polls(page) /\ form \in FormType /\ Kept(form) /\ panel \in PanelType
      /\ form.domain \in Entry
    BY FormFields, FieldNames DEF WebInv, TypeOK
<1>1. k \in Kind \ {"save"} /\ UNCHANGED <<panel, saves>>
    BY DEF SitesArrive, CreateArrives, DeleteArrives, LoadArrives, UploadArrives
<1>2. /\ NetOK(Rest(k, i)) /\ Rest(k, i)["save"] = net["save"]
      /\ \A j \in Poll : /\ NetOK(Fetch(Rest(k, i), page, j))
                         /\ Fetch(Rest(k, i), page, j)["save"] = net["save"]
    BY <1>1, SettledNet
<1>3. SUFFICES /\ page' \in PageType /\ Polls(page') /\ NetOK(net') /\ net'["save"] = net["save"]
               /\ form' \in FormType /\ Kept(form')
    BY <1>0, <1>1, NoSaveStep
<1> DEFINE r == net[k][i].reply
<1>4. r \in Replies(k) /\ "sites" \in Poll
    BY ReplyType DEF Poll
<1>5. CASE k = "sites" /\ SitesArrive(i)
    <2> DEFINE items == IF r.kind = "ok" THEN r.items ELSE {}
    <2>1. items \in SUBSET Site
        BY <1>4, <1>5 DEF Replies, NoReply, Error
    <2>2. page' = RenderSites(page, items) /\ form' \in SitesFill(form, items) /\ net' = Rest(k, i)
        BY <1>5 DEF SitesArrive
    <2> HIDE DEF items
    <2>3. page' \in PageType /\ Polls(page')
        <3>1. page' = [page EXCEPT !.shown = items]
            BY <2>2 DEF RenderSites
        <3>2. page' \in PageType /\ page'.token = page.token /\ page'.timer = page.timer
              /\ page'.live = page.live
            BY <1>0, <2>1, <3>1 DEF PageType
        <3> QED BY <1>0, <3>2, ShowingKeepsPolls
    <2>4. form' \in FormType /\ Kept(form')
        <3>1. CASE items = {}
            BY <1>0, <2>2, <3>1 DEF SitesFill
        <3>2. CASE items # {}
            <4>1. PICK s \in items :
                    form' = FillEditor(FillIfEmpty(form, "sslDomain", s), s)
                BY <2>2, <3>2 DEF SitesFill
            <4> DEFINE f == FillIfEmpty(form, "sslDomain", s)
            <4>2. s \in Site /\ s \in Entry
                BY <2>1, FieldNames
            <4>3. f \in FormType /\ Kept(f)
                BY <1>0, <4>2, FillKeeps
            <4>4. form' = FillEditor(f, s)
                BY <4>1
            <4> HIDE DEF f
            <4> QED BY <4>2, <4>3, <4>4, EditorKeeps
        <3> QED BY <3>1, <3>2
    <2> QED BY <1>2, <2>2, <2>3, <2>4
<1>6. CASE k = "create" /\ CreateArrives(i)
    <2>1. /\ form' = FillIfEmpty(form, "sslDomain", form.domain)
          /\ net' = Fetch(Rest(k, i), page, "sites") /\ page' = page
        BY <1>6 DEF CreateArrives
    <2>2. form' \in FormType /\ Kept(form')
        BY <1>0, <2>1, FillKeeps
    <2> QED BY <1>0, <1>2, <1>4, <2>1, <2>2
<1>7. CASE k = "delete" /\ DeleteArrives(i)
    <2>1. net' = Fetch(Rest(k, i), page, "sites") /\ UNCHANGED <<page, form>>
        BY <1>7 DEF DeleteArrives
    <2> QED BY <1>0, <1>2, <1>4, <2>1
<1>8. CASE k = "load" /\ LoadArrives(i)
    <2>1. net' = Rest(k, i) /\ page' = page
        BY <1>8 DEF LoadArrives
    <2>2. CASE r.kind = "ok"
        <3>1. r.value \in Nat
            BY <1>4, <1>8, <2>2 DEF Replies, NoReply, Error
        <3>2. form' = [form EXCEPT !.content = r.value]
            BY <1>8, <2>2 DEF LoadArrives
        <3> HIDE DEF r
        <3>3. form' \in FormType /\ Kept(form')
            BY <1>0, <3>1, <3>2, MarkKeeps
        <3> QED BY <1>0, <1>2, <2>1, <3>3
    <2>3. CASE r.kind # "ok"
        BY <1>0, <1>2, <1>8, <2>1, <2>3 DEF LoadArrives
    <2> QED BY <2>2, <2>3
<1>9. CASE k = "upload" /\ UploadArrives(i)
    <2> DEFINE t == net[k][i].on[2]
    <2>1. /\ form' = [form EXCEPT !.value["uploadPath"] = t, !.chosen["uploadPath"] = Empty]
          /\ net' = Rest(k, i) /\ page' = page
        BY <1>9 DEF UploadArrives
    <2>2. t \in Path
        BY <1>9, ReplyType DEF Request, Subject
    <2> HIDE DEF t
    <2>3. form' \in FormType /\ Kept(form')
        BY <1>0, <2>1, <2>2, UploadKeeps
    <2> QED BY <1>0, <1>2, <2>1, <2>3
<1> QED BY <1>5, <1>6, <1>7, <1>8, <1>9

\* The answer to a save.
LEMMA SaveAnswerKeeps ==
    ASSUME WebInv, NEW i \in DOMAIN net["save"], SaveArrives(i)
    PROVE  WebInv'
<1> DEFINE q == net["save"]
<1>1. "save" \in Kind /\ NetOK(net) /\ saves \in SavesType /\ SaveSound(q, panel.file, saves)
    BY DEF WebInv, TypeOK, Kind
<1>2. q \in Seq(Request("save")) /\ i \in DOMAIN q /\ q[i] \in Request("save")
    BY <1>1, ReplyType DEF NetOK
<1>3. net' = Rest("save", i) /\ UNCHANGED <<page, form, panel>>
    BY DEF SaveArrives
<1>4. NetOK(net') /\ net'["save"] = RemoveAt(q, i)
    BY <1>1, <1>3, RestEffect
<1>5. \/ saves' = saves
      \/ q[i].reply.kind = "ok" /\ saves' = [saves EXCEPT !.said = <<q[i].on, q[i].value>>]
    BY DEF SaveArrives, SaysSaved
<1> HIDE DEF q
<1>6. <<q[i].on, q[i].value>> \in Target \X Nat
    BY <1>2 DEF Request, Subject
<1>7. saves' \in SavesType
    BY <1>1, <1>5, <1>6 DEF SavesType
<1>8. SaveSound(RemoveAt(q, i), panel.file, saves')
    BY <1>1, <1>2, <1>5, RemovedSave
<1> QED BY <1>3, <1>4, <1>7, <1>8 DEF WebInv, TypeOK

\* An answer is lost: the catch branches.
LEMMA LossKeeps ==
    ASSUME WebInv, NEW k \in Kind, NEW i \in DOMAIN net[k], RequestFails(k, i)
    PROVE  WebInv'
<1>0. /\ page \in PageType /\ Polls(page) /\ OneInterval(page) /\ NetOK(net) /\ saves \in SavesType
      /\ page.token \in Token \cup {Empty} /\ "save" \in Kind /\ "status" \in Poll
      /\ {"Reconnecting", "Applying"} \subseteq Labels
    BY PageFields DEF WebInv, TypeOK, Polls, Kind, Poll, Labels
<1>1. /\ page' = AfterLoss(page, k, net[k][i].value)
      /\ net' = IF k = "update" THEN Fetch(GivenUp(k, i), page, "status") ELSE GivenUp(k, i)
      /\ UNCHANGED <<form, panel, saves>>
    BY DEF RequestFails
<1>2. page' \in PageType /\ Polls(page')
    <2>1. CASE k = "logout"
        <3>1. page' = SetToken(page, Empty)
            BY <1>1, <2>1 DEF AfterLoss
        <3> QED BY <1>0, <3>1, SetTokenEffect
    <2>2. CASE k = "update"
        <3> DEFINE p == [page EXCEPT !.label = "Applying"]
        <3>1. page' = StartPolling(p, "status")
            BY <1>1, <2>2 DEF AfterLoss
        <3>2. p \in PageType /\ Polls(p) /\ OneInterval(p)
            BY <1>0, LabelKeeps DEF Polls
        <3> HIDE DEF p
        <3> QED BY <1>0, <3>1, <3>2, StartPollingEffect, StartPollingKeepsPolls
    <2>3. CASE k = "status" /\ net[k][i].value = Silent
        <3>1. page' = [page EXCEPT !.label = "Reconnecting"]
            BY <1>1, <2>3 DEF AfterLoss
        <3> QED BY <1>0, <3>1, LabelKeeps
    <2>4. CASE k \notin {"logout", "update"} /\ ~(k = "status" /\ net[k][i].value = Silent)
        <3>1. page' = page
            BY <1>1, <2>4 DEF AfterLoss
        <3> QED BY <1>0, <3>1
    <2> QED BY <2>1, <2>2, <2>3, <2>4
<1> DEFINE m == GivenUp(k, i)
<1>3. /\ NetOK(m)
      /\ \A j \in Kind \ {k} : m[j] = net[j]
      /\ \/ m[k] = [net[k] EXCEPT ![i] = [@ EXCEPT !.open = FALSE]]
         \/ m[k] = RemoveAt(net[k], i)
    BY <1>0, GivenUpEffect
<1> HIDE DEF m
<1>4. CASE k = "save"
    <2> DEFINE q == net["save"]
    <2>1. net' = m /\ i \in DOMAIN q
        BY <1>1, <1>4 DEF m
    <2>2. \/ m["save"] = [q EXCEPT ![i] = [@ EXCEPT !.open = FALSE]]
          \/ m["save"] = RemoveAt(q, i)
        BY <1>3, <1>4
    <2>3. q \in Seq(Request("save")) /\ SaveSound(q, panel.file, saves)
        BY <1>0 DEF NetOK, WebInv
    <2> HIDE DEF q
    <2>4. SaveSound(m["save"], panel.file, saves)
        BY <1>0, <2>1, <2>2, <2>3, GivenUpSave
    <2> QED BY <1>1, <1>2, <1>3, <2>1, <2>4 DEF WebInv, TypeOK
<1>5. CASE k # "save"
    <2>1. m["save"] = net["save"]
        BY <1>0, <1>3, <1>5
    <2>2. NetOK(Fetch(m, page, "status")) /\ Fetch(m, page, "status")["save"] = m["save"]
        BY <1>0, <1>3, FetchEffect
    <2>3. NetOK(net') /\ net'["save"] = net["save"]
        BY <1>1, <1>3, <2>1, <2>2 DEF m
    <2> QED BY <1>1, <1>2, <2>3, NoSaveStep DEF WebInv, TypeOK
<1> QED BY <1>4, <1>5
-----------------------------------------------------------------------------
(* The theorems.                                                             *)

\* A page just opened.
LEMMA WebInit == Init => WebInv
<1> SUFFICES ASSUME Init PROVE WebInv
    OBVIOUS
<1>1. PICK stored \in SUBSET {FirstToken} :
        /\ page = SetToken(NewPage, IF stored = {} THEN Empty ELSE FirstToken)
        /\ form = NewForm
        /\ net = SetTokenFetches([k \in Kind |-> <<>>], page)
        /\ panel = [sessions |-> stored, used |-> stored, sites |-> {FirstSite},
                    updating |-> FALSE, file |-> [x \in Site \X File |-> 0]]
        /\ saves = [edits |-> 0, last |-> <<>>, alone |-> FALSE, said |-> <<>>]
    BY DEF Init
<1>2. FirstToken \in Token /\ FirstSite \in Site
    BY SomethingToShow DEF FirstToken, FirstSite
<1>3. page \in PageType /\ Polls(page) /\ page.token \in Token \cup {Empty}
    <2> DEFINE t == IF stored = {} THEN Empty ELSE FirstToken
    <2>1. t \in Token \cup {Empty} /\ page = SetToken(NewPage, t)
        BY <1>1, <1>2
    <2> HIDE DEF t
    <2> QED BY <2>1, NewPageType, SetTokenEffect
<1>4. NetOK(net)
    <2>1. NetOK([k \in Kind |-> <<>>])
        BY DEF NetOK
    <2> QED BY <1>1, <1>3, <2>1, SetTokenFetchesEffect
<1>5. panel \in PanelType
    <2> DEFINE f == [x \in Site \X File |-> 0]
    <2>1. f \in [Target -> Nat] /\ stored \in SUBSET Token /\ {FirstSite} \in SUBSET Site
        BY <1>2 DEF Target
    <2>2. panel = [sessions |-> stored, used |-> stored, sites |-> {FirstSite},
                   updating |-> FALSE, file |-> f]
        BY <1>1
    <2> HIDE DEF f
    <2> QED BY <2>1, <2>2 DEF PanelType
<1>6. saves \in SavesType /\ ~saves.alone
    BY <1>1 DEF SavesType
<1> QED BY <1>1, <1>3, <1>4, <1>5, <1>6, NewFormType DEF WebInv, TypeOK, SaveSound

\* Every step of the page, the panel and the network keeps the invariant.
LEMMA WebStep == WebInv /\ [Next]_vars => WebInv'
<1> SUFFICES ASSUME WebInv, [Next]_vars PROVE WebInv'
    OBVIOUS
<1>1. CASE UserActs
    BY <1>1, ClicksKeep, SaveClickKeeps, TypingKeeps, ReloadKeeps DEF UserActs
<1>2. CASE UpdateEnds \/ PanelChanges
    BY <1>2, PanelKeeps
<1>3. CASE \E k \in Poll : Tick(k)
    BY <1>3, TickKeeps
<1>4. ASSUME NEW k \in Kind, NEW i \in DOMAIN net[k],
             Handle(k, i) \/ HandlerErrs(k, i) \/ Arrive(k, i) \/ RequestFails(k, i)
      PROVE  WebInv'
    <2>1. CASE Handle(k, i) \/ HandlerErrs(k, i)
        BY <2>1, HandleKeeps
    <2>2. CASE Arrive(k, i)
        BY <2>2, SessionAnswersKeep, FormAnswersKeep, SaveAnswerKeeps DEF Arrive
    <2>3. CASE RequestFails(k, i)
        BY <2>3, LossKeeps
    <2> QED BY <1>4, <2>1, <2>2, <2>3
<1>5. CASE UNCHANGED vars
    BY <1>5 DEF WebInv, TypeOK, vars
<1> QED BY <1>1, <1>2, <1>3, <1>4, <1>5 DEF Next

\* The invariant of the page holds in every state.
THEOREM WebInvariance == Spec => []WebInv
BY WebInit, WebStep, PTL DEF Spec

\* One interval of each kind while there is a token, stoppable, and no poll is
\* ever sent without a token (setToken, startUpdatePolling, stopUpdatePolling,
\* startSitesPolling, stopSitesPolling, fetchSites, fetchUpdateStatus).
THEOREM PollingIsSound == Spec => []PollingSound
<1>1. WebInv => PollingSound
    <2> SUFFICES ASSUME WebInv, NEW k \in Poll
                 PROVE  /\ page.live[k] = (IF page.timer[k] THEN 1 ELSE 0)
                        /\ page.token # Empty => page.timer[k]
                        /\ \A i \in DOMAIN net[k] : net[k][i].tok # Empty
        BY DEF PollingSound
    <2>1. k \in Kind
        BY DEF Kind
    <2>2. \A i \in DOMAIN net[k] : net[k][i].tok \in Tokens(k)
        BY <2>1, ReplyType DEF Request
    <2>3. Empty \notin Tokens(k)
        BY EmptyIsNoValue DEF Tokens
    <2> QED BY <2>2, <2>3 DEF WebInv, Polls, OneInterval
<1> QED BY <1>1, WebInvariance, PTL

\* No answer that arrives later replaces what the user put into a field, the file
\* name and the paths typed with a site selected included (fetchSites and
\* selectSiteForEditor, the create and upload handlers and the listeners of the
\* domain and of the local file fill fields).
THEOREM InputIsKept == Spec => []UserInputKept
<1>1. WebInv => UserInputKept
    BY DEF WebInv, Kept, Settled, UserInputKept
<1> QED BY <1>1, WebInvariance, PTL

\* "Saved" is true of the last save when no other save of its file was under way
\* at the click, whatever was lost, reordered, reloaded or handled late.
THEOREM SavedIsStored == Spec => []SavedStands
<1>1. WebInv => SavedStands
    BY DEF WebInv, SaveSound, SavedStands
<1> QED BY <1>1, WebInvariance, PTL
=============================================================================
