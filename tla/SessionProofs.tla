---------------------------- MODULE SessionProofs ---------------------------
(***************************************************************************)
(* Theorems about Session, for pictures of any length, any texts and any   *)
(* way in which the streams are cut.                                       *)
(*                                                                         *)
(* The inductive invariant says of an orderly session what the dialogue    *)
(* is: for every location of the client, where the handler may be and what *)
(* is on its way (Dialogue), with the account of the picture that is being *)
(* received (Account).  Of any session it says what the variables are      *)
(* (TypeOK), and that no more is read than asked for (Reading).            *)
(***************************************************************************)
EXTENDS Session, Integers, SequenceTheorems, TLAPS

\* Nothing is on its way, or one message from the client, or one to it.
Quiet     == c2s = <<>> /\ s2c = <<>>
Asked(t)  == c2s = <<t>> /\ s2c = <<>>
Told(t)   == c2s = <<>> /\ s2c = <<t>>

Dialogue ==
    /\ client = "welcome"       => server = "option" /\ Told("welcome")
    /\ client = "menu"          => server = "option" /\ Quiet
    /\ client = "list"          => \/ server = "option" /\ Asked("searchphoto")
                                   \/ server = "name" /\ Told("list")
    /\ client = "chooseName"    => server = "name" /\ Quiet
    /\ client = "verdict"       => \/ server = "name" /\ \E t \in NameTexts : Asked(t)
                                   \/ server = "ready" /\ Told("found")
                                   \/ server = "name" /\ c2s = <<>>
                                        /\ s2c = <<"notfound", "list">>
    /\ client = "sendReady"     => server = "ready" /\ Quiet
    /\ client = "size"          => \/ server = "ready" /\ Asked("ready")
                                   \/ server = "option" /\ c2s = <<>>
                                        /\ \E n \in 0..Blocks :
                                             /\ s2c = <<"size">> \o [i \in 1..n |-> "block"]
                                             /\ size = n
    /\ client = "copy"          => server = "option" /\ c2s = <<>> /\ s2c \in Seq({"block"})
    /\ client = "settingsList"  => \/ server = "option" /\ Asked("settings")
                                   \/ server = "settingsOption" /\ Told("list")
    /\ client = "chooseSetting" => server = "settingsOption" /\ Quiet
    /\ client = "valuePrompt"   => \/ server = "settingsOption"
                                        /\ \E t \in SettingTexts : Asked(t)
                                   \/ server = "value" /\ Told("prompt")
    /\ client = "chooseValue"   => server = "value" /\ Quiet
    /\ client = "anglePrompt"   => \/ server = "option" /\ Asked("setangle")
                                   \/ server = "angle" /\ Told("prompt")
    /\ client = "chooseAngle"   => server = "angle" /\ Quiet
    /\ client = "reply"         => \/ server = "value" /\ \E t \in ValueTexts : Asked(t)
                                   \/ server = "angle" /\ \E t \in AngleTexts : Asked(t)
                                   \/ server = "option" /\ Told("welldone")
                                   \/ server = "option" /\ Told("nogood")
    /\ client = "closed"        => \/ server = "option" /\ Asked("quit")
                                   \/ server = "closed" /\ Quiet

\* What has been read of the picture and what is on its way are all of it.
Account ==
    /\ client = "copy" => want = size /\ got + Len(s2c) = size
    /\ client \notin {"size", "copy"} => got \in {0, size}

Reading == client = "copy" => got <= want

\* The inductive invariant.
SessionInv == TypeOK /\ Reading /\ (orderly => Dialogue /\ Account)

USE StreamAssumption, BoundAssumption

-----------------------------------------------------------------------------
(* Streams *)

LEMMA Single == ASSUME NEW t PROVE <<t>> \in Seq({t})
OBVIOUS

\* What a recv leaves is a stream again; when it returns one whole message, that is the
\* first.
LEMMA RecvType ==
    ASSUME NEW S, "rest" \in S, NEW q \in Seq(S), NEW r \in Recv(q)
    PROVE  /\ q # <<>>
           /\ r.left \in Seq(S)
           /\ r.whole \in BOOLEAN
           /\ r.whole => r.text = q[1] /\ r.left = Tail(q)
<1>1. q # <<>>
  BY DEF Recv
<1>2. Len(q) \in Nat /\ Tail(q) \in Seq(S)
  BY <1>1, LenProperties, HeadTailProperties
<1>3. \A n \in 1..Len(q) : SubSeq(q, n + 1, Len(q)) \in Seq(S)
  <2> TAKE n \in 1..Len(q)
  <2>1. \A k \in n + 1..Len(q) : q[k] \in S
    BY <1>2, ElementOfSeq
  <2> QED
    BY <1>2, <2>1, SubSeqProperties
<1>4. CASE r \in Whole(q)
  <2>1. r = [text |-> q[1], left |-> Tail(q), whole |-> TRUE]
    BY <1>4 DEF Whole
  <2>2. r.text = q[1] /\ r.left = Tail(q) /\ r.whole = TRUE
    BY <2>1
  <2> QED
    BY <1>1, <1>2, <2>2
<1>5. CASE r \in Merged(q)
  <2>1. PICK n \in 2..Len(q) : r = [text |-> "jumble", left |-> SubSeq(q, n + 1, Len(q)),
                                   whole |-> FALSE]
    BY <1>5 DEF Merged
  <2>2. n \in 1..Len(q)
    BY <1>2
  <2> QED
    BY <1>1, <1>3, <2>1, <2>2
<1>6. CASE r \in Pieces(q)
  <2>1. PICK n \in 1 .. IF Coalesce THEN Len(q) ELSE 1 :
          r = [text |-> "jumble", left |-> <<"rest">> \o SubSeq(q, n + 1, Len(q)),
               whole |-> FALSE]
    BY <1>6 DEF Pieces
  <2>2. Len(q) # 0
    BY <1>1, EmptySeq
  <2>3. n \in 1..Len(q)
    BY <1>2, <2>2
  <2>4. SubSeq(q, n + 1, Len(q)) \in Seq(S) /\ <<"rest">> \in Seq(S)
    BY <1>3, <2>3
  <2>5. <<"rest">> \o SubSeq(q, n + 1, Len(q)) \in Seq(S)
    BY <2>4, ConcatProperties
  <2> QED
    BY <1>1, <2>1, <2>5
<1> QED
  BY <1>1, <1>4, <1>5, <1>6 DEF Recv

LEMMA OneMessage ==
    ASSUME NEW t, NEW r \in Recv(<<t>>), r.whole
    PROVE  r.text = t /\ r.left = <<>>
<1>1. <<t>> \in Seq({t, "rest"}) /\ <<t>>[1] = t
  OBVIOUS
<1>2. r.text = t /\ r.left = Tail(<<t>>)
  BY <1>1, RecvType
<1>3. Tail(<<t>>) = <<>>
  BY <1>1, HeadTailProperties, EmptySeq
<1> QED
  BY <1>2, <1>3

LEMMA TwoMessages ==
    ASSUME NEW t, NEW u, NEW r \in Recv(<<t, u>>), r.whole
    PROVE  r.text = t /\ r.left = <<u>>
<1>1. <<t, u>> \in Seq({t, u, "rest"}) /\ <<t, u>>[1] = t
  OBVIOUS
<1>2. r.text = t /\ r.left = Tail(<<t, u>>)
  BY <1>1, RecvType
<1>3. Tail(<<t, u>>) = <<u>>
  OBVIOUS
<1> QED
  BY <1>2, <1>3

\* A text of some bytes is one message.
LEMMA SentText ==
    ASSUME c2s = <<>>, NEW t, t # "", ClientSends(t)
    PROVE  c2s' = <<t>>
<1>1. <<t>> \in Seq({t})
  BY Single
<1>2. c2s' = <<>> \o <<t>>
  BY DEF ClientSends, Sent
<1> QED
  BY <1>1, <1>2, ConcatEmptySeq

LEMMA SendsType ==
    ASSUME c2s \in Seq(Texts), NEW t \in Texts, ClientSends(t)
    PROVE  c2s' \in Seq(Texts)
<1>1. <<>> \in Seq(Texts) /\ <<t>> \in Seq(Texts)
  OBVIOUS
<1>2. Sent(t) \in Seq(Texts)
  BY <1>1 DEF Sent
<1> QED
  BY <1>2, ConcatProperties DEF ClientSends

\* What is sent while nothing is on its way is all there is.
LEMMA AnswerQuiet ==
    ASSUME s2c = <<>>, NEW S, NEW replies \in Seq(S), NEW loc, Answer(replies, loc)
    PROVE  s2c' = replies /\ server' = loc
BY ConcatEmptySeq DEF Answer

LEMMA AnswerType ==
    ASSUME s2c \in Seq(Replies), NEW replies \in Seq(Replies), NEW loc, Answer(replies, loc)
    PROVE  s2c' \in Seq(Replies) /\ server' = loc
BY ConcatProperties DEF Answer

-----------------------------------------------------------------------------
(* The picture *)

\* The announcement of n blocks, and the blocks behind it.
LEMMA PictureBehindSize ==
    ASSUME NEW n \in Nat, NEW q, q = <<"size">> \o [i \in 1..n |-> "block"]
    PROVE  /\ q \in Seq({"size", "block"}) /\ q # <<>>
           /\ Tail(q) \in Seq({"block"}) /\ Len(Tail(q)) = n
<1> DEFINE b == [i \in 1..n |-> "block"]
<1>1. b \in Seq({"block"}) /\ Len(b) = n
  OBVIOUS
<1>2. b \in Seq({"size", "block"}) /\ <<"size">> \in Seq({"size", "block"})
  OBVIOUS
<1>3. /\ q \in Seq({"size", "block"})
      /\ Len(q) = n + 1
      /\ \A i \in 1..n + 1 : q[i] = IF i <= 1 THEN "size" ELSE b[i - 1]
  BY <1>1, <1>2, ConcatProperties
<1>4. q # <<>>
  BY <1>3, EmptySeq
<1>5. /\ Tail(q) \in Seq({"size", "block"}) /\ Len(Tail(q)) = n
      /\ \A i \in 1..n : Tail(q)[i] = q[i + 1]
  BY <1>3, <1>4, HeadTailProperties
<1>6. \A i \in 1..n : Tail(q)[i] = b[i]
  BY <1>1, <1>3, <1>5
<1>7. Tail(q) = b
  BY <1>1, <1>2, <1>5, <1>6, SeqEqual
<1> QED
  BY <1>1, <1>3, <1>4, <1>7

\* The announcement comes first.
LEMMA SizeFirst ==
    ASSUME NEW n \in Nat
    PROVE  (<<"size">> \o [i \in 1..n |-> "block"])[1] = "size"
<1> DEFINE b == [i \in 1..n |-> "block"]
<1>1. b \in Seq({"size", "block"}) /\ <<"size">> \in Seq({"size", "block"}) /\ Len(b) = n
  OBVIOUS
<1> QED
  BY <1>1, ConcatProperties

\* A read of n messages leaves the others.
LEMMA Left ==
    ASSUME NEW S, NEW q \in Seq(S), NEW n \in 1..Len(q)
    PROVE  /\ SubSeq(q, n + 1, Len(q)) \in Seq(S)
           /\ Len(SubSeq(q, n + 1, Len(q))) = Len(q) - n
<1>1. Len(q) \in Nat /\ \A i \in 1..Len(q) : q[i] \in S
  BY LenProperties, ElementOfSeq
<1> DEFINE left == SubSeq(q, n + 1, Len(q))
<1>2. \A i \in n + 1..Len(q) : q[i] \in S
  BY <1>1
<1>3. /\ left \in Seq(S)
      /\ Len(left) = IF n + 1 <= Len(q) THEN Len(q) - (n + 1) + 1 ELSE 0
  BY <1>1, <1>2, SubSeqProperties
<1> HIDE DEF left
<1>4. Len(left) = Len(q) - n
  BY <1>1, <1>3
<1> QED
  BY <1>3, <1>4 DEF left

-----------------------------------------------------------------------------
(* Types, in any session *)

LEMMA InitSession == Init => SessionInv
<1> SUFFICES ASSUME Init PROVE SessionInv
  OBVIOUS
<1>1. c2s \in Seq(Texts) /\ s2c \in Seq(Replies)
  BY DEF Init, Replies
<1>2. TypeOK
  BY <1>1 DEF Init, TypeOK, ClientRecvs, ServerRecvs
<1> QED
  BY <1>2 DEF Init, SessionInv, Reading, Dialogue, Account, Told

\* What a recv of the client leaves, and what one of the handler does.
LEMMA ClientRecvType ==
    ASSUME TypeOK, NEW r \in Recv(s2c)
    PROVE  /\ s2c # <<>> /\ r.left \in Seq(Replies) /\ r.whole \in BOOLEAN
           /\ r.whole => r.text = s2c[1] /\ r.left = Tail(s2c)
<1>1. "rest" \in Replies /\ s2c \in Seq(Replies)
  BY DEF TypeOK, Replies
<1> QED
  BY <1>1, RecvType

LEMMA HandlerRecvType ==
    ASSUME TypeOK, NEW r \in Recv(c2s)
    PROVE  /\ c2s # <<>> /\ r.left \in Seq(Texts) /\ r.whole \in BOOLEAN
           /\ r.whole => r.text = c2s[1] /\ r.left = Tail(c2s)
<1>1. "rest" \in Texts /\ c2s \in Seq(Texts)
  BY DEF TypeOK, Texts
<1> QED
  BY <1>1, RecvType

LEMMA UserTypes == ASSUME TypeOK, User \/ SendReady PROVE TypeOK'
<1>1. ASSUME NEW t \in Texts, ClientSends(t) PROVE c2s' \in Seq(Texts)
  BY <1>1, SendsType DEF TypeOK
<1>2. CASE ChooseOption
  <2>1. PICK o \in {"searchphoto", "settings", "setangle", "quit"} :
          /\ ClientSends(o)
          /\ client' = CASE o = "searchphoto" -> "list"
                         [] o = "settings"    -> "settingsList"
                         [] o = "setangle"    -> "anglePrompt"
                         [] o = "quit"        -> "closed"
    BY <1>2 DEF ChooseOption
  <2>2. c2s' \in Seq(Texts)
    BY <1>1, <2>1 DEF Texts
  <2> QED
    BY <1>2, <2>1, <2>2 DEF TypeOK, ChooseOption, ClientRecvs, copy
<1>3. ASSUME NEW from, NEW to \in ClientRecvs, NEW texts, texts \subseteq Texts,
             UserSends(from, texts, to)
      PROVE  TypeOK'
  <2>1. PICK t \in texts : ClientSends(t) /\ orderly' = (orderly /\ t # "")
    BY <1>3 DEF UserSends
  <2>2. c2s' \in Seq(Texts)
    BY <1>1, <1>3, <2>1
  <2>3. orderly' \in BOOLEAN /\ (orderly' => orderly)
    BY <2>1 DEF TypeOK
  <2>4. client' = to /\ UNCHANGED <<server, s2c, opt, size, copy, served>>
    BY <1>3 DEF UserSends
  <2> QED
    BY <2>2, <2>3, <2>4 DEF TypeOK, copy
<1>4. CASE ChooseName \/ ChooseSetting \/ ChooseValue \/ ChooseAngle
  <2>1. /\ NameTexts \subseteq Texts /\ SettingTexts \subseteq Texts
        /\ ValueTexts \subseteq Texts /\ AngleTexts \subseteq Texts
        /\ {"verdict", "valuePrompt", "reply"} \subseteq ClientRecvs
    BY DEF Texts, ClientRecvs
  <2> QED
    BY <1>3, <1>4, <2>1 DEF ChooseName, ChooseSetting, ChooseValue, ChooseAngle
<1>5. CASE SendReady
  <2>1. c2s' \in Seq(Texts)
    BY <1>1, <1>5 DEF SendReady, Texts
  <2> QED
    BY <1>5, <2>1 DEF TypeOK, SendReady, ClientRecvs, copy
<1> QED
  BY <1>2, <1>4, <1>5 DEF User

LEMMA ClientTypes ==
    ASSUME TypeOK, Reading, orderly => Account, ClientReceives \/ ReadVerdict \/ ReadSize
    PROVE  TypeOK'
<1>1. CASE ClientReceives
  <2>1. PICK from \in ClientRecvs, to \in UserTurns \cup ClientRecvs : ClientPrints(from, to)
    BY <1>1 DEF ClientReceives, ClientRecvs, UserTurns
  <2>2. PICK r \in Recv(s2c) : s2c' = r.left /\ orderly' = (orderly /\ r.whole)
    BY <2>1 DEF ClientPrints
  <2>3. s2c' \in Seq(Replies) /\ orderly' \in BOOLEAN /\ (orderly' => orderly)
    BY <2>2, ClientRecvType DEF TypeOK
  <2>4. client' = to /\ UNCHANGED <<server, c2s, opt, size, copy, served>>
    BY <2>1 DEF ClientPrints
  <2> QED
    BY <2>1, <2>3, <2>4 DEF TypeOK, copy
<1>2. CASE ReadVerdict
  <2>1. PICK r \in Recv(s2c) :
          /\ s2c' = r.left
          /\ orderly' = (orderly /\ r.whole)
          /\ client' = IF r.text = "found" THEN "sendReady" ELSE "list"
    BY <1>2 DEF ReadVerdict
  <2>2. s2c' \in Seq(Replies) /\ orderly' \in BOOLEAN /\ (orderly' => orderly)
    BY <2>1, ClientRecvType DEF TypeOK
  <2>3. UNCHANGED <<server, c2s, opt, size, copy, served>>
    BY <1>2 DEF ReadVerdict
  <2> QED
    BY <2>1, <2>2, <2>3 DEF TypeOK, ClientRecvs, copy
<1>3. CASE ReadSize
  <2>1. Tail(s2c) \in Seq(Replies)
    BY <1>3, HeadTailProperties DEF ReadSize, TypeOK
  <2>2. <<"rest">> \o Tail(s2c) \in Seq(Replies)
    <3>1. <<"rest">> \in Seq(Replies)
      BY DEF Replies
    <3> QED
      BY <2>1, <3>1, ConcatProperties
  <2>3. s2c' \in Seq(Replies) /\ want' \in 0..Blocks /\ orderly' \in BOOLEAN
    BY <1>3, <2>1, <2>2 DEF ReadSize, TypeOK
  <2> QED
    BY <1>3, <2>3 DEF ReadSize, TypeOK
<1> QED
  BY <1>1, <1>2, <1>3

LEMMA HandlerTypes == ASSUME TypeOK, Server \/ SemaphoreNeverComes PROVE TypeOK'
<1>1. ASSUME NEW r \in Recv(c2s), HandlerRecv(r), s2c' \in Seq(Replies),
             server' \in ServerRecvs \cup {"closed"}, size' \in 0..Blocks,
             opt' \in Settings \cup {"none"}, orderly' \in BOOLEAN, orderly' => orderly
      PROVE  TypeOK'
  <2>1. c2s' \in Seq(Texts) /\ UNCHANGED <<client, copy, served>>
    BY <1>1, HandlerRecvType DEF HandlerRecv
  <2> QED
    BY <1>1, <2>1 DEF TypeOK, copy
<1>2. ASSUME NEW r \in Recv(c2s), orderly' = (orderly /\ r.whole)
      PROVE  orderly' \in BOOLEAN /\ (orderly' => orderly)
  BY <1>2, HandlerRecvType DEF TypeOK
<1>3. ASSUME NEW replies, NEW loc \in ServerRecvs \cup {"closed"}, Answer(replies, loc),
             replies \in {<<>>, <<"prompt">>, <<"list">>, <<"welldone">>, <<"nogood">>,
                          <<"found">>, <<"notfound", "list">>}
      PROVE  s2c' \in Seq(Replies) /\ server' \in ServerRecvs \cup {"closed"}
  <2>1. /\ <<>> \in Seq(Replies) /\ <<"prompt">> \in Seq(Replies)
        /\ <<"list">> \in Seq(Replies) /\ <<"welldone">> \in Seq(Replies)
        /\ <<"nogood">> \in Seq(Replies) /\ <<"found">> \in Seq(Replies)
        /\ <<"notfound", "list">> \in Seq(Replies)
    BY DEF Replies
  <2>2. replies \in Seq(Replies)
    BY <1>3, <2>1
  <2> QED
    BY <1>3, <2>2, AnswerType DEF TypeOK
<1>4. CASE OnOption
  <2>1. PICK r \in Recv(c2s) :
          /\ HandlerRecv(r)
          /\ orderly' = (orderly /\ r.whole)
          /\ CASE r.text = "setangle"    -> Answer(<<"prompt">>, "angle")
               [] r.text = "searchphoto" -> Answer(<<"list">>, "name")
               [] r.text = "settings"    -> Answer(<<"list">>, "settingsOption")
               [] r.text = "quit"        -> Answer(<<>>, "closed")
               [] OTHER                  -> Answer(<<>>, "option")
    BY <1>4 DEF OnOption
  <2>2. \/ Answer(<<"prompt">>, "angle") \/ Answer(<<"list">>, "name")
        \/ Answer(<<"list">>, "settingsOption") \/ Answer(<<>>, "closed")
        \/ Answer(<<>>, "option")
    BY <2>1
  <2>3. s2c' \in Seq(Replies) /\ server' \in ServerRecvs \cup {"closed"}
    BY <1>3, <2>2 DEF ServerRecvs
  <2>4. opt' = "none" /\ size' = size
    BY <1>4 DEF OnOption
  <2> QED
    BY <1>1, <1>2, <2>1, <2>3, <2>4 DEF TypeOK
<1>5. CASE OnAngle
  <2>1. PICK r \in Recv(c2s) : \E ok \in Passes(r.text, "valid") :
          /\ HandlerRecv(r)
          /\ orderly' = (orderly /\ r.whole)
          /\ Answer(IF ok THEN <<"welldone">> ELSE <<"nogood">>, "option")
    BY <1>5 DEF OnAngle
  <2>2. Answer(<<"welldone">>, "option") \/ Answer(<<"nogood">>, "option")
    BY <2>1
  <2>3. s2c' \in Seq(Replies) /\ server' \in ServerRecvs \cup {"closed"}
    BY <1>3, <2>2 DEF ServerRecvs
  <2>4. opt' = opt /\ size' = size
    BY <1>5 DEF OnAngle
  <2> QED
    BY <1>1, <1>2, <2>1, <2>3, <2>4 DEF TypeOK
<1>6. CASE OnName
  <2>1. PICK r \in Recv(c2s) : \E ok \in Passes(r.text, "photo") :
          /\ HandlerRecv(r)
          /\ orderly' = (orderly /\ r.whole)
          /\ IF ok THEN Answer(<<"found">>, "ready")
                   ELSE Answer(<<"notfound", "list">>, "name")
    BY <1>6 DEF OnName
  <2>2. Answer(<<"found">>, "ready") \/ Answer(<<"notfound", "list">>, "name")
    BY <2>1
  <2>3. s2c' \in Seq(Replies) /\ server' \in ServerRecvs \cup {"closed"}
    BY <1>3, <2>2 DEF ServerRecvs
  <2>4. opt' = opt /\ size' = size
    BY <1>6 DEF OnName
  <2> QED
    BY <1>1, <1>2, <2>1, <2>3, <2>4 DEF TypeOK
<1>7. CASE OnReady
  <2>1. PICK r \in Recv(c2s), n \in 0..Blocks :
          /\ HandlerRecv(r)
          /\ orderly' = (orderly /\ r.whole)
          /\ size' = n
          /\ Answer(<<"size">> \o [i \in 1..n |-> "block"], "option")
    BY <1>7 DEF OnReady
  <2> DEFINE q == <<"size">> \o [i \in 1..n |-> "block"]
  <2>2. q \in Seq({"size", "block"})
    BY <2>1, PictureBehindSize
  <2>3. q \in Seq(Replies)
    BY <2>2, SeqMonotonic DEF Replies
  <2>4. s2c' \in Seq(Replies) /\ server' = "option"
    BY <2>1, <2>3, AnswerType DEF TypeOK
  <2>5. opt' = opt
    BY <1>7 DEF OnReady
  <2> QED
    BY <1>1, <1>2, <2>1, <2>4, <2>5 DEF TypeOK, ServerRecvs
<1>8. CASE OnSettingsOption
  <2>1. PICK r \in Recv(c2s) :
          /\ HandlerRecv(r)
          /\ orderly' = (orderly /\ r.whole /\ r.text \in Settings)
          /\ IF r.text \in Settings
               THEN Answer(<<"prompt">>, "value") /\ opt' = r.text
               ELSE Answer(<<"welldone">>, "option") /\ opt' = "none"
    BY <1>8 DEF OnSettingsOption
  <2>2. \/ Answer(<<"prompt">>, "value") /\ opt' \in Settings
        \/ Answer(<<"welldone">>, "option") /\ opt' = "none"
    BY <2>1
  <2>3. s2c' \in Seq(Replies) /\ server' \in ServerRecvs \cup {"closed"}
    BY <1>3, <2>2 DEF ServerRecvs
  <2>4. orderly' \in BOOLEAN /\ (orderly' => orderly) /\ size' = size
    BY <1>8, <2>1 DEF TypeOK, OnSettingsOption
  <2> QED
    BY <1>1, <2>1, <2>2, <2>3, <2>4 DEF TypeOK
<1>9. CASE OnValue
  <2>1. PICK r \in Recv(c2s) : \E ok \in Passes(r.text, "valid") :
          /\ HandlerRecv(r)
          /\ IF r.text = "contrast" /\ opt # "contrast"
               THEN /\ Answer(<<"prompt">>, "value")
                    /\ opt' = "contrast"
                    /\ orderly' = FALSE
               ELSE /\ Answer(IF ok THEN <<"welldone">> ELSE <<"nogood">>, "option")
                    /\ orderly' = (orderly /\ r.whole)
                    /\ UNCHANGED opt
    BY <1>9 DEF OnValue
  <2>2. \/ Answer(<<"prompt">>, "value") \/ Answer(<<"welldone">>, "option")
        \/ Answer(<<"nogood">>, "option")
    BY <2>1
  <2>3. s2c' \in Seq(Replies) /\ server' \in ServerRecvs \cup {"closed"}
    BY <1>3, <2>2 DEF ServerRecvs
  <2>4. opt' \in Settings \cup {"none"}
    BY <2>1 DEF TypeOK, Settings
  <2>5. orderly' \in BOOLEAN /\ (orderly' => orderly)
    BY <1>2, <2>1
  <2>6. size' = size
    BY <1>9 DEF OnValue
  <2> QED
    BY <1>1, <2>1, <2>3, <2>4, <2>5, <2>6 DEF TypeOK
<1>10. CASE SemaphoreNeverComes
  BY <1>10 DEF SemaphoreNeverComes, TypeOK, copy
<1> QED
  BY <1>4, <1>5, <1>6, <1>7, <1>8, <1>9, <1>10 DEF Server

-----------------------------------------------------------------------------
(* The picture, in any session *)

\* What has been read is not more than twice what was asked for, as a read asks for all
\* of it again.
LEMMA BlocksTypes ==
    ASSUME TypeOK, Reading, orderly => Account, ReadBlocks
    PROVE  TypeOK' /\ Reading'
<1>1. /\ client = "copy" /\ client' = IF got' >= want THEN "menu" ELSE "copy"
      /\ UNCHANGED <<server, c2s, opt, size, want, served, orderly>>
  BY DEF ReadBlocks
<1>2. got \in Nat /\ want \in 0..Blocks /\ got <= want /\ Len(s2c) \in Nat
  BY <1>1, LenProperties DEF TypeOK, Reading
<1>3. /\ s2c' \in Seq(Replies) /\ got' \in 0..want + got
      /\ got' + Len(s2c') = got + Len(s2c) /\ Len(s2c') \in Nat
  <2>1. CASE want = 0 /\ UNCHANGED <<s2c, got>>
    BY <1>2, <2>1 DEF TypeOK
  <2>2. ASSUME NEW n \in 1..Len(s2c), n <= want, got' = got + n,
               s2c' = SubSeq(s2c, n + 1, Len(s2c))
        PROVE  /\ s2c' \in Seq(Replies) /\ got' \in 0..want + got
               /\ got' + Len(s2c') = got + Len(s2c) /\ Len(s2c') \in Nat
    <3>1. s2c' \in Seq(Replies) /\ Len(s2c') = Len(s2c) - n
      BY <2>2, Left DEF TypeOK
    <3>2. n <= want /\ got' = got + n
      BY <2>2
    <3> QED
      BY <1>2, <3>1, <3>2
  <2> QED
    BY <1>1, <2>1, <2>2 DEF ReadBlocks, ReadsSome
<1>4. got' \in 0..2 * Blocks
  BY <1>2, <1>3
<1>5. ASSUME orderly PROVE got' \in 0..Blocks
  <2>1. got + Len(s2c) = size /\ size \in 0..Blocks
    BY <1>1, <1>5 DEF Account, TypeOK
  <2> QED
    BY <1>2, <1>3, <2>1
<1>6. TypeOK'
  BY <1>1, <1>3, <1>4, <1>5 DEF TypeOK, UserTurns
<1>7. Reading'
  BY <1>1, <1>2, <1>3 DEF Reading
<1> QED
  BY <1>6, <1>7

\* Only ReadSize begins to read.
LEMMA ReadingStep ==
    ASSUME TypeOK, Reading, User \/ Server \/ SemaphoreNeverComes \/ ClientReceives
                             \/ ReadVerdict \/ SendReady \/ ReadSize
    PROVE  Reading'
<1>1. CASE ReadSize
  BY <1>1 DEF ReadSize, Reading, TypeOK
<1>2. CASE User \/ SendReady \/ ClientReceives \/ ReadVerdict
  <2>1. client' # "copy"
    BY <1>2 DEF User, ChooseOption, ChooseName, ChooseSetting, ChooseValue, ChooseAngle,
                UserSends, SendReady, ClientReceives, ClientPrints, ReadVerdict
  <2> QED
    BY <2>1 DEF Reading
<1>3. CASE Server \/ SemaphoreNeverComes
  <2>1. UNCHANGED <<client, got, want>>
    BY <1>3 DEF Server, OnOption, OnAngle, OnName, OnReady, OnSettingsOption, OnValue,
                HandlerRecv, SemaphoreNeverComes, copy
  <2> QED
    BY <2>1 DEF Reading
<1> QED
  BY <1>1, <1>2, <1>3

LEMMA TypeStep ==
    ASSUME TypeOK, Reading, orderly => Account, [Next]_vars
    PROVE  TypeOK' /\ Reading'
<1>1. CASE UNCHANGED vars
  BY <1>1 DEF vars, copy, TypeOK, Reading
<1> QED
  BY <1>1, UserTypes, ClientTypes, HandlerTypes, BlocksTypes, ReadingStep DEF Next, Client

-----------------------------------------------------------------------------
(* The dialogue, in an orderly session *)

\* A session that is orderly has been so.
LEMMA WasOrderly == ASSUME TypeOK, [Next]_vars, orderly' PROVE orderly
<1>1. CASE UNCHANGED vars
  BY <1>1 DEF vars
<1>2. CASE User
  BY <1>2 DEF User, ChooseOption, ChooseName, ChooseSetting, ChooseValue, ChooseAngle,
              UserSends
<1>3. CASE Client
  BY <1>3 DEF Client, ClientReceives, ClientPrints, ReadVerdict, SendReady, ReadSize,
              ReadBlocks
<1>4. CASE Server \/ SemaphoreNeverComes
  BY <1>4 DEF Server, OnOption, OnAngle, OnName, OnReady, OnSettingsOption, OnValue,
              SemaphoreNeverComes
<1> QED
  BY <1>1, <1>2, <1>3, <1>4 DEF Next

\* The user answers: one message goes to a handler that waits for it.
LEMMA UserStep ==
    ASSUME SessionInv, orderly, User, orderly'
    PROVE  Dialogue' /\ Account'
<1> USE DEF SessionInv
<1>1. CASE ChooseOption
  <2>1. client = "menu" /\ server = "option" /\ Quiet
    BY <1>1 DEF ChooseOption, Dialogue
  <2>2. PICK o \in {"searchphoto", "settings", "setangle", "quit"} :
          /\ ClientSends(o)
          /\ client' = CASE o = "searchphoto" -> "list"
                         [] o = "settings"    -> "settingsList"
                         [] o = "setangle"    -> "anglePrompt"
                         [] o = "quit"        -> "closed"
    BY <1>1 DEF ChooseOption
  <2>3. c2s' = <<o>>
    BY <2>1, <2>2, SentText DEF Quiet
  <2>4. UNCHANGED <<server, s2c, opt, size, want, got>>
    BY <1>1 DEF ChooseOption, copy
  <2>5. Dialogue'
    BY <2>1, <2>2, <2>3, <2>4 DEF Dialogue, Quiet, Asked
  <2>6. Account'
    BY <2>1, <2>2, <2>4 DEF Account
  <2> QED
    BY <2>5, <2>6
<1>2. ASSUME NEW from, NEW texts, NEW to, UserSends(from, texts, to), Quiet
      PROVE  /\ client = from /\ client' = to /\ UNCHANGED <<server, s2c, size, want, got>>
             /\ \E t \in texts : c2s' = <<t>>
  <2>1. PICK t \in texts : ClientSends(t) /\ orderly' = (orderly /\ t # "")
    BY <1>2 DEF UserSends
  <2>2. c2s' = <<t>>
    BY <1>2, <2>1, SentText DEF Quiet
  <2> QED
    BY <1>2, <2>2 DEF UserSends, copy
<1>3. CASE ChooseName
  <2>1. client = "chooseName" /\ server = "name" /\ Quiet
    BY <1>3 DEF ChooseName, UserSends, Dialogue
  <2> QED
    BY <1>2, <1>3, <2>1 DEF ChooseName, Dialogue, Account, Quiet, Asked
<1>4. CASE ChooseSetting
  <2>1. client = "chooseSetting" /\ server = "settingsOption" /\ Quiet
    BY <1>4 DEF ChooseSetting, UserSends, Dialogue
  <2> QED
    BY <1>2, <1>4, <2>1 DEF ChooseSetting, Dialogue, Account, Quiet, Asked
<1>5. CASE ChooseValue
  <2>1. client = "chooseValue" /\ server = "value" /\ Quiet
    BY <1>5 DEF ChooseValue, UserSends, Dialogue
  <2> QED
    BY <1>2, <1>5, <2>1 DEF ChooseValue, Dialogue, Account, Quiet, Asked
<1>6. CASE ChooseAngle
  <2>1. client = "chooseAngle" /\ server = "angle" /\ Quiet
    BY <1>6 DEF ChooseAngle, UserSends, Dialogue
  <2> QED
    BY <1>2, <1>6, <2>1 DEF ChooseAngle, Dialogue, Account, Quiet, Asked
<1> QED
  BY <1>1, <1>3, <1>4, <1>5, <1>6 DEF User

\* The client prints a message: it was the only one on its way.
LEMMA PrintStep ==
    ASSUME SessionInv, orderly, NEW from, NEW to, ClientPrints(from, to), orderly',
           <<from, to>> \in {<<"welcome", "menu">>, <<"list", "chooseName">>,
                             <<"settingsList", "chooseSetting">>,
                             <<"valuePrompt", "chooseValue">>,
                             <<"anglePrompt", "chooseAngle">>, <<"reply", "menu">>}
    PROVE  Dialogue' /\ Account'
<1> USE DEF SessionInv
<1>1. client = from /\ client' = to /\ UNCHANGED <<server, c2s, opt, size, want, got>>
  BY DEF ClientPrints, copy
<1>2. PICK r \in Recv(s2c) : s2c' = r.left /\ orderly' = (orderly /\ r.whole)
  BY DEF ClientPrints
<1>3. s2c # <<>> /\ r.whole
  BY <1>2, ClientRecvType
<1>4. c2s = <<>> /\ (\E t : s2c = <<t>>)
      /\ <<from, server>> \in {<<"welcome", "option">>, <<"list", "name">>,
                               <<"settingsList", "settingsOption">>,
                               <<"valuePrompt", "value">>, <<"anglePrompt", "angle">>,
                               <<"reply", "option">>}
  BY <1>1, <1>3 DEF Dialogue, Asked, Told
<1>5. s2c' = <<>>
  BY <1>2, <1>3, <1>4, OneMessage
<1>6. Dialogue'
  BY <1>1, <1>4, <1>5 DEF Dialogue, Quiet
<1>7. Account'
  BY <1>1 DEF Account
<1> QED
  BY <1>6, <1>7

\* "found" is followed by ready; "notfound" leaves the list for the next recv.
LEMMA VerdictStep ==
    ASSUME SessionInv, orderly, ReadVerdict, orderly'
    PROVE  Dialogue' /\ Account'
<1> USE DEF SessionInv
<1>1. client = "verdict" /\ UNCHANGED <<server, c2s, opt, size, want, got>>
  BY DEF ReadVerdict, copy
<1>2. PICK r \in Recv(s2c) :
        /\ s2c' = r.left
        /\ orderly' = (orderly /\ r.whole)
        /\ client' = IF r.text = "found" THEN "sendReady" ELSE "list"
  BY DEF ReadVerdict
<1>3. s2c # <<>> /\ r.whole
  BY <1>2, ClientRecvType
<1>4. CASE server = "ready" /\ Told("found")
  <2>1. r.text = "found" /\ s2c' = <<>>
    BY <1>2, <1>3, <1>4, OneMessage DEF Told
  <2>2. client' = "sendReady" /\ c2s' = <<>>
    BY <1>1, <1>2, <1>4, <2>1 DEF Told
  <2> QED
    BY <1>1, <1>4, <2>1, <2>2 DEF Dialogue, Account, Quiet
<1>5. CASE server = "name" /\ c2s = <<>> /\ s2c = <<"notfound", "list">>
  <2>1. r.text = "notfound" /\ s2c' = <<"list">>
    BY <1>2, <1>3, <1>5, TwoMessages
  <2>2. client' = "list"
    BY <1>2, <2>1
  <2> QED
    BY <1>1, <1>5, <2>1, <2>2 DEF Dialogue, Account, Told
<1> QED
  BY <1>1, <1>3, <1>4, <1>5 DEF Dialogue, Asked

LEMMA ReadyStep ==
    ASSUME SessionInv, orderly, SendReady
    PROVE  Dialogue' /\ Account'
<1> USE DEF SessionInv
<1>1. /\ client = "sendReady" /\ client' = "size"
      /\ UNCHANGED <<server, s2c, opt, size, want, got>>
  BY DEF SendReady, copy
<1>2. server = "ready" /\ Quiet
  BY <1>1 DEF Dialogue
<1>3. c2s' = <<"ready">>
  BY <1>2, SentText DEF SendReady, Quiet
<1> QED
  BY <1>1, <1>2, <1>3 DEF Dialogue, Account, Quiet, Asked

LEMMA SizeStep ==
    ASSUME SessionInv, orderly, ReadSize, orderly'
    PROVE  Dialogue' /\ Account'
<1> USE DEF SessionInv
<1>1. /\ client = "size" /\ s2c # <<>> /\ s2c' = Tail(s2c) /\ want' = size /\ got' = 0
      /\ client' = "copy" /\ UNCHANGED <<server, c2s, opt, size>>
  BY DEF ReadSize
<1>2. /\ server = "option" /\ c2s = <<>>
      /\ \E n \in 0..Blocks : s2c = <<"size">> \o [i \in 1..n |-> "block"] /\ size = n
  BY <1>1 DEF Dialogue, Asked
<1>3. s2c' \in Seq({"block"}) /\ Len(s2c') = size
  <2>1. PICK n \in 0..Blocks : s2c = <<"size">> \o [i \in 1..n |-> "block"] /\ size = n
    BY <1>2
  <2>2. n \in Nat
    OBVIOUS
  <2>3. Tail(s2c) \in Seq({"block"}) /\ Len(Tail(s2c)) = n
    BY <2>1, <2>2, PictureBehindSize
  <2> QED
    BY <1>1, <2>1, <2>3
<1>4. Account'
  BY <1>1, <1>3 DEF Account, TypeOK
<1> QED
  BY <1>1, <1>2, <1>3, <1>4 DEF Dialogue

LEMMA BlocksStep ==
    ASSUME SessionInv, orderly, ReadBlocks
    PROVE  Dialogue' /\ Account'
<1> USE DEF SessionInv
<1>1. /\ client = "copy" /\ client' = IF got' >= want THEN "menu" ELSE "copy"
      /\ UNCHANGED <<server, c2s, opt, size, want>>
  BY DEF ReadBlocks
<1>2. /\ server = "option" /\ c2s = <<>> /\ s2c \in Seq({"block"})
      /\ want = size /\ got + Len(s2c) = size
      /\ got \in Nat /\ size \in 0..Blocks /\ Len(s2c) \in Nat
  BY <1>1, LenProperties DEF Dialogue, Account, TypeOK
<1>3. /\ s2c' \in Seq({"block"}) /\ Len(s2c') \in Nat
      /\ got' + Len(s2c') = size /\ got' \in Nat
  <2>1. CASE want = 0 /\ UNCHANGED <<s2c, got>>
    BY <1>2, <2>1
  <2>2. ASSUME NEW n \in 1..Len(s2c), s2c' = SubSeq(s2c, n + 1, Len(s2c)), got' = got + n
        PROVE  /\ s2c' \in Seq({"block"}) /\ Len(s2c') \in Nat
               /\ got' + Len(s2c') = size /\ got' \in Nat
    <3>1. s2c' \in Seq({"block"}) /\ Len(s2c') = Len(s2c) - n
      BY <1>2, <2>2, Left
    <3>2. got' = got + n
      BY <2>2
    <3> QED
      BY <1>2, <3>1, <3>2
  <2> QED
    BY <2>1, <2>2 DEF ReadBlocks, ReadsSome
<1>4. CASE client' = "copy"
  BY <1>1, <1>2, <1>3, <1>4 DEF Dialogue, Account
<1>5. CASE client' = "menu"
  <2>1. got' = size /\ Len(s2c') = 0
    BY <1>1, <1>2, <1>3, <1>5
  <2>2. s2c' = <<>>
    BY <1>3, <2>1, EmptySeq
  <2> QED
    BY <1>1, <1>2, <1>5, <2>1, <2>2 DEF Dialogue, Account, Quiet
<1> QED
  BY <1>1, <1>4, <1>5

(* The handler *)

\* A handler that receives a whole message receives all there is, and nothing is on its
\* way to the client.
LEMMA HandlerReceives ==
    ASSUME SessionInv, orderly, server \in ServerRecvs, NEW r \in Recv(c2s), r.whole
    PROVE  s2c = <<>> /\ c2s = <<r.text>> /\ r.left = <<>>
<1>1. c2s # <<>>
  BY HandlerRecvType DEF SessionInv
<1>2. PICK t : s2c = <<>> /\ c2s = <<t>>
  BY <1>1 DEF SessionInv, TypeOK, Dialogue, Asked, Told, Quiet, ClientRecvs, UserTurns
<1> QED
  BY <1>2, OneMessage

\* What such a step does besides its answer.
LEMMA HandlerGoesOn ==
    ASSUME SessionInv, orderly, server \in ServerRecvs, NEW r \in Recv(c2s),
           HandlerRecv(r), r.whole
    PROVE  /\ s2c = <<>> /\ c2s = <<r.text>> /\ c2s' = <<>>
           /\ UNCHANGED <<client, want, got>>
BY HandlerReceives DEF HandlerRecv, copy

\* Each answer of the handler is what its client waits for.
LEMMA AnswerIs ==
    ASSUME s2c = <<>>, NEW loc, NEW replies, Answer(replies, loc),
           replies \in {<<>>, <<"prompt">>, <<"list">>, <<"welldone">>, <<"nogood">>,
                        <<"found">>, <<"notfound", "list">>}
    PROVE  s2c' = replies /\ server' = loc
<1>1. /\ <<>> \in Seq(Replies) /\ <<"prompt">> \in Seq(Replies)
      /\ <<"list">> \in Seq(Replies) /\ <<"welldone">> \in Seq(Replies)
      /\ <<"nogood">> \in Seq(Replies) /\ <<"found">> \in Seq(Replies)
      /\ <<"notfound", "list">> \in Seq(Replies)
  BY DEF Replies
<1>2. replies \in Seq(Replies)
  BY <1>1
<1> QED
  BY <1>2, AnswerQuiet

LEMMA OptionStep ==
    ASSUME SessionInv, orderly, OnOption, orderly'
    PROVE  Dialogue' /\ Account'
<1> USE DEF SessionInv
<1>1. server = "option" /\ UNCHANGED size
  BY DEF OnOption
<1>2. PICK r \in Recv(c2s) :
        /\ HandlerRecv(r)
        /\ orderly' = (orderly /\ r.whole)
        /\ CASE r.text = "setangle"    -> Answer(<<"prompt">>, "angle")
             [] r.text = "searchphoto" -> Answer(<<"list">>, "name")
             [] r.text = "settings"    -> Answer(<<"list">>, "settingsOption")
             [] r.text = "quit"        -> Answer(<<>>, "closed")
             [] OTHER                  -> Answer(<<>>, "option")
  BY DEF OnOption
<1>3. r.whole
  BY <1>2, HandlerRecvType
<1>4. s2c = <<>> /\ c2s = <<r.text>> /\ c2s' = <<>> /\ UNCHANGED <<client, want, got>>
  BY <1>1, <1>2, <1>3, HandlerGoesOn DEF ServerRecvs
<1>5. \/ client = "list" /\ r.text = "searchphoto"
      \/ client = "settingsList" /\ r.text = "settings"
      \/ client = "anglePrompt" /\ r.text = "setangle"
      \/ client = "closed" /\ r.text = "quit"
  <2>1. \/ client = "list" /\ c2s = <<"searchphoto">>
        \/ client = "settingsList" /\ c2s = <<"settings">>
        \/ client = "anglePrompt" /\ c2s = <<"setangle">>
        \/ client = "closed" /\ c2s = <<"quit">>
    BY <1>1, <1>4 DEF TypeOK, Dialogue, Asked, Told, Quiet, ClientRecvs, UserTurns
  <2>2. ASSUME NEW t, c2s = <<t>> PROVE r.text = t
    BY <1>4, <2>2
  <2> QED
    BY <2>1, <2>2
<1>6. \/ client = "list" /\ s2c' = <<"list">> /\ server' = "name"
      \/ client = "settingsList" /\ s2c' = <<"list">> /\ server' = "settingsOption"
      \/ client = "anglePrompt" /\ s2c' = <<"prompt">> /\ server' = "angle"
      \/ client = "closed" /\ s2c' = <<>> /\ server' = "closed"
  <2>1. \/ client = "list" /\ Answer(<<"list">>, "name")
        \/ client = "settingsList" /\ Answer(<<"list">>, "settingsOption")
        \/ client = "anglePrompt" /\ Answer(<<"prompt">>, "angle")
        \/ client = "closed" /\ Answer(<<>>, "closed")
    BY <1>2, <1>5
  <2> QED
    BY <1>4, <2>1, AnswerIs
<1> QED
  BY <1>1, <1>4, <1>6 DEF Dialogue, Account, Told, Quiet

LEMMA AngleStep ==
    ASSUME SessionInv, orderly, OnAngle, orderly'
    PROVE  Dialogue' /\ Account'
<1> USE DEF SessionInv
<1>1. server = "angle" /\ UNCHANGED size
  BY DEF OnAngle
<1>2. PICK r \in Recv(c2s) :
        /\ HandlerRecv(r)
        /\ orderly' = (orderly /\ r.whole)
        /\ Answer(<<"welldone">>, "option") \/ Answer(<<"nogood">>, "option")
  BY DEF OnAngle
<1>3. r.whole
  BY <1>2, HandlerRecvType
<1>4. s2c = <<>> /\ c2s = <<r.text>> /\ c2s' = <<>> /\ UNCHANGED <<client, want, got>>
  BY <1>1, <1>2, <1>3, HandlerGoesOn DEF ServerRecvs
<1>5. client = "reply"
  BY <1>1, <1>4 DEF TypeOK, Dialogue, Told, Quiet, ClientRecvs, UserTurns
<1>6. s2c' \in {<<"welldone">>, <<"nogood">>} /\ server' = "option"
  BY <1>2, <1>4, AnswerIs
<1> QED
  BY <1>1, <1>4, <1>5, <1>6 DEF Dialogue, Account, Told

LEMMA NameStep ==
    ASSUME SessionInv, orderly, OnName, orderly'
    PROVE  Dialogue' /\ Account'
<1> USE DEF SessionInv
<1>1. server = "name" /\ UNCHANGED size
  BY DEF OnName
<1>2. PICK r \in Recv(c2s) :
        /\ HandlerRecv(r)
        /\ orderly' = (orderly /\ r.whole)
        /\ Answer(<<"found">>, "ready") \/ Answer(<<"notfound", "list">>, "name")
  BY DEF OnName
<1>3. r.whole
  BY <1>2, HandlerRecvType
<1>4. s2c = <<>> /\ c2s = <<r.text>> /\ c2s' = <<>> /\ UNCHANGED <<client, want, got>>
  BY <1>1, <1>2, <1>3, HandlerGoesOn DEF ServerRecvs
<1>5. client = "verdict"
  BY <1>1, <1>4 DEF TypeOK, Dialogue, Asked, Told, Quiet, ClientRecvs, UserTurns
<1>6. \/ s2c' = <<"found">> /\ server' = "ready"
      \/ s2c' = <<"notfound", "list">> /\ server' = "name"
  BY <1>2, <1>4, AnswerIs
<1> QED
  BY <1>1, <1>4, <1>5, <1>6 DEF Dialogue, Account, Told

LEMMA OnReadyStep ==
    ASSUME SessionInv, orderly, OnReady, orderly'
    PROVE  Dialogue' /\ Account'
<1> USE DEF SessionInv
<1>1. server = "ready"
  BY DEF OnReady
<1>2. PICK r \in Recv(c2s), n \in 0..Blocks :
        /\ HandlerRecv(r)
        /\ orderly' = (orderly /\ r.whole)
        /\ size' = n
        /\ Answer(<<"size">> \o [i \in 1..n |-> "block"], "option")
  BY DEF OnReady
<1>3. r.whole
  BY <1>2, HandlerRecvType
<1>4. s2c = <<>> /\ c2s = <<r.text>> /\ c2s' = <<>> /\ UNCHANGED <<client, want, got>>
  BY <1>1, <1>2, <1>3, HandlerGoesOn DEF ServerRecvs
<1>5. client = "size"
  BY <1>1, <1>4 DEF TypeOK, Dialogue, Told, Quiet, ClientRecvs, UserTurns
<1>6. s2c' = <<"size">> \o [i \in 1..n |-> "block"] /\ server' = "option"
  <2> DEFINE q == <<"size">> \o [i \in 1..n |-> "block"]
  <2>1. q \in Seq({"size", "block"})
    BY <1>2, PictureBehindSize
  <2> QED
    BY <1>2, <1>4, <2>1, AnswerQuiet
<1>7. Dialogue'
  BY <1>2, <1>4, <1>5, <1>6 DEF Dialogue
<1> QED
  BY <1>4, <1>5, <1>7 DEF Account

LEMMA SettingsOptionStep ==
    ASSUME SessionInv, orderly, OnSettingsOption, orderly'
    PROVE  Dialogue' /\ Account'
<1> USE DEF SessionInv
<1>1. server = "settingsOption" /\ UNCHANGED size
  BY DEF OnSettingsOption
<1>2. PICK r \in Recv(c2s) :
        /\ HandlerRecv(r)
        /\ orderly' = (orderly /\ r.whole /\ r.text \in Settings)
        /\ r.text \in Settings => Answer(<<"prompt">>, "value")
  BY DEF OnSettingsOption
<1>3. r.whole /\ r.text \in Settings
  BY <1>2, HandlerRecvType
<1>4. s2c = <<>> /\ c2s = <<r.text>> /\ c2s' = <<>> /\ UNCHANGED <<client, want, got>>
  BY <1>1, <1>2, <1>3, HandlerGoesOn DEF ServerRecvs
<1>5. client = "valuePrompt"
  BY <1>1, <1>4 DEF TypeOK, Dialogue, Asked, Told, Quiet, ClientRecvs, UserTurns
<1>6. s2c' = <<"prompt">> /\ server' = "value"
  BY <1>2, <1>3, <1>4, AnswerIs
<1> QED
  BY <1>1, <1>4, <1>5, <1>6 DEF Dialogue, Account, Told

LEMMA ValueStep ==
    ASSUME SessionInv, orderly, OnValue, orderly'
    PROVE  Dialogue' /\ Account'
<1> USE DEF SessionInv
<1>1. server = "value" /\ UNCHANGED size
  BY DEF OnValue
<1>2. PICK r \in Recv(c2s) :
        /\ HandlerRecv(r)
        /\ orderly' = (orderly /\ r.whole)
        /\ Answer(<<"welldone">>, "option") \/ Answer(<<"nogood">>, "option")
  BY DEF OnValue
<1>3. r.whole
  BY <1>2, HandlerRecvType
<1>4. s2c = <<>> /\ c2s = <<r.text>> /\ c2s' = <<>> /\ UNCHANGED <<client, want, got>>
  BY <1>1, <1>2, <1>3, HandlerGoesOn DEF ServerRecvs
<1>5. client = "reply"
  BY <1>1, <1>4 DEF TypeOK, Dialogue, Asked, Told, Quiet, ClientRecvs, UserTurns
<1>6. s2c' \in {<<"welldone">>, <<"nogood">>} /\ server' = "option"
  BY <1>2, <1>4, AnswerIs
<1> QED
  BY <1>1, <1>4, <1>5, <1>6 DEF Dialogue, Account, Told

LEMMA DialogueStep ==
    ASSUME SessionInv, orderly, [Next]_vars, orderly'
    PROVE  Dialogue' /\ Account'
<1>1. CASE User
  BY <1>1, UserStep
<1>2. CASE ClientReceives
  BY <1>2, PrintStep DEF ClientReceives
<1>3. CASE ReadVerdict \/ SendReady \/ ReadSize \/ ReadBlocks
  BY <1>3, VerdictStep, ReadyStep, SizeStep, BlocksStep
<1>4. CASE Server
  BY <1>4, OptionStep, AngleStep, NameStep, OnReadyStep, SettingsOptionStep, ValueStep
     DEF Server
<1>5. CASE UNCHANGED vars \/ SemaphoreNeverComes
  <2>1. UNCHANGED <<client, server, c2s, s2c, opt, size, want, got>>
    BY <1>5 DEF vars, SemaphoreNeverComes, copy
  <2>2. Dialogue'
    BY <2>1 DEF SessionInv, Dialogue, Quiet, Asked, Told
  <2>3. Account'
    BY <2>1 DEF SessionInv, Account
  <2> QED
    BY <2>2, <2>3
<1> QED
  BY <1>1, <1>2, <1>3, <1>4, <1>5 DEF Next, Client

LEMMA SessionInvariant == Spec => []SessionInv
<1>1. SessionInv /\ [Next]_vars => SessionInv'
  <2> SUFFICES ASSUME SessionInv, [Next]_vars PROVE SessionInv'
    OBVIOUS
  <2>1. TypeOK' /\ Reading'
    BY TypeStep DEF SessionInv
  <2>2. ASSUME orderly' PROVE Dialogue' /\ Account'
    BY <2>2, WasOrderly, DialogueStep DEF SessionInv
  <2> QED
    BY <2>1, <2>2 DEF SessionInv
<1> QED
  BY InitSession, <1>1, PTL DEF Spec

-----------------------------------------------------------------------------
(* What the client takes from its stream *)

\* One message was taken, and it was meant for this recv.
LEMMA OneUnderstood ==
    ASSUME s2c \in Seq(Replies), s2c # <<>>, s2c' = Tail(s2c), s2c[1] \in MeantFor[client]
    PROVE  Understood
<1>1. Len(s2c) \in Nat \ {0} /\ Len(s2c') = Len(s2c) - 1
  BY EmptySeq, HeadTailProperties
<1>2. \A i \in 1 .. Len(s2c) - Len(s2c') : i = 1
  BY <1>1
<1> QED
  BY <1>1, <1>2 DEF Understood

\* What comes to an empty stream takes nothing from it.
LEMMA NothingTaken ==
    ASSUME TypeOK', s2c = <<>> \/ s2c' = s2c
    PROVE  Understood
<1>1. Len(s2c') \in Nat
  BY LenProperties DEF TypeOK
<1> QED
  BY <1>1, EmptySeq DEF Understood

LEMMA UnderstoodStep ==
    ASSUME SessionInv, SessionInv', Next, orderly'
    PROVE  Understood
<1> USE DEF SessionInv
<1>0. orderly
  BY WasOrderly
<1>1. s2c \in Seq(Replies)
  BY DEF TypeOK
<1>2. CASE User \/ SendReady \/ SemaphoreNeverComes
  BY <1>2, NothingTaken DEF User, ChooseOption, ChooseName, ChooseSetting, ChooseValue,
                            ChooseAngle, UserSends, SendReady, SemaphoreNeverComes
<1>3. CASE Server
  <2>1. server \in ServerRecvs
    BY <1>3 DEF Server, OnOption, OnAngle, OnName, OnReady, OnSettingsOption, OnValue,
                ServerRecvs
  <2>2. PICK r \in Recv(c2s) : orderly' => r.whole
    <3>1. ASSUME NEW r \in Recv(c2s), NEW b, orderly' = (orderly /\ r.whole /\ b)
          PROVE  orderly' => r.whole
      BY <3>1
    <3>2. ASSUME NEW r \in Recv(c2s), orderly' = (orderly /\ r.whole)
          PROVE  orderly' => r.whole
      BY <3>2
    <3> QED
      BY <1>3, <3>1, <3>2 DEF Server, OnOption, OnAngle, OnName, OnReady,
                              OnSettingsOption, OnValue
  <2>3. s2c = <<>>
    BY <1>0, <2>1, <2>2, HandlerReceives
  <2> QED
    BY <2>3, NothingTaken
<1>4. ASSUME NEW from \in {"welcome", "list", "settingsList", "valuePrompt", "anglePrompt",
                          "reply"}, NEW to, ClientPrints(from, to)
      PROVE  Understood
  <2>1. PICK r \in Recv(s2c) : s2c' = r.left /\ orderly' = (orderly /\ r.whole)
    BY <1>4 DEF ClientPrints
  <2>2. client = from /\ s2c # <<>> /\ s2c' = Tail(s2c)
    BY <1>4, <2>1, ClientRecvType DEF ClientPrints
  <2>3. \E t \in MeantFor[client] : s2c = <<t>>
    BY <1>0, <2>2 DEF Dialogue, Asked, Told, MeantFor
  <2> QED
    BY <1>1, <2>2, <2>3, OneUnderstood
<1>5. CASE ReadVerdict
  <2>1. PICK r \in Recv(s2c) : s2c' = r.left /\ orderly' = (orderly /\ r.whole)
    BY <1>5 DEF ReadVerdict
  <2>2. client = "verdict" /\ s2c # <<>> /\ s2c' = Tail(s2c)
    BY <1>5, <2>1, ClientRecvType DEF ReadVerdict
  <2>3. s2c[1] \in MeantFor[client]
    BY <1>0, <2>2 DEF Dialogue, Asked, Told, MeantFor
  <2> QED
    BY <1>1, <2>2, <2>3, OneUnderstood
<1>6. CASE ReadSize
  <2>1. client = "size" /\ s2c # <<>> /\ s2c' = Tail(s2c)
    BY <1>6 DEF ReadSize
  <2>2. PICK n \in 0..Blocks : s2c = <<"size">> \o [i \in 1..n |-> "block"]
    BY <1>0, <2>1 DEF Dialogue, Asked
  <2>3. s2c[1] = "size"
    BY <2>2, SizeFirst
  <2> QED
    BY <1>1, <2>1, <2>3, OneUnderstood DEF MeantFor
<1>7. CASE ReadBlocks
  <2>1. client = "copy" /\ s2c \in Seq({"block"}) /\ Len(s2c) \in Nat /\ Len(s2c') \in Nat
    BY <1>0, <1>7, LenProperties DEF ReadBlocks, Dialogue, TypeOK
  <2>2. \A i \in 1 .. Len(s2c) - Len(s2c') : s2c[i] \in {"block"}
    BY <2>1, ElementOfSeq
  <2> QED
    BY <2>1, <2>2 DEF Understood, MeantFor
<1> QED
  BY <1>2, <1>3, <1>4, <1>5, <1>6, <1>7 DEF Next, Client, ClientReceives

-----------------------------------------------------------------------------
\* However the streams are cut and whatever is typed, every variable keeps its type: no
\* message but those of the two programs is ever on its way, and no more is read than
\* twice what was asked for, or once in an orderly session (client.c:204-209).
THEOREM TypeCorrect == Spec => []TypeOK
<1>1. SessionInv => TypeOK
  BY DEF SessionInv
<1> QED
  BY SessionInvariant, <1>1, PTL

\* As long as a session is orderly, what the user is asked for is what the handler waits
\* for, after any number of requests (client.c:88-358, server.c:127-756).
THEOREM ProgramsAgree == Spec => []InStep
<1>1. SessionInv => InStep
  BY DEF SessionInv, Dialogue, InStep, Expects, Quiet
<1> QED
  BY SessionInvariant, <1>1, PTL

\* As long as a session is orderly, a picture that the client writes is the one announced,
\* complete, whatever its length and however its blocks are cut (client.c:198-214,
\* server.c:369-404).
THEOREM PicturesAreWhole == Spec => []PictureIsWhole
<1>1. SessionInv => PictureIsWhole
  BY DEF SessionInv, Account, PictureIsWhole
<1> QED
  BY SessionInvariant, <1>1, PTL

\* Until a recv returns anything but one message, or an odd text is typed, every message
\* is taken by the recv it was sent for, although none carries its kind
\* (client.c:78-358).
THEOREM RecvsUnderstand == Spec => MessagesAreUnderstood
<1>1. SessionInv /\ SessionInv' /\ [Next]_vars => [orderly' => Understood]_vars
  BY UnderstoodStep
<1> QED
  BY SessionInvariant, <1>1, PTL DEF Spec, MessagesAreUnderstood
=============================================================================
