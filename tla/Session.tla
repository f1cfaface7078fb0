------------------------------- MODULE Session -------------------------------
(***************************************************************************)
(* One client program (cVersion/client/client.c), its user, and the        *)
(* handler that serves it (connection_handler of server.c), joined by the  *)
(* two byte streams of a TCP connection.                                   *)
(*                                                                         *)
(* The programs frame their messages by send and recv alone.  A recv       *)
(* returns any nonempty part of what has arrived: one message, several     *)
(* that were sent in a row, or a piece of one, as it must of a list longer *)
(* than the 1024 bytes of the buffer.  A message of no bytes is never sent *)
(* at all.  A stream is a sequence of messages, "rest" being what a recv   *)
(* has left of one.                                                        *)
(*                                                                         *)
(* The handler's semaphore and devices are in Server: to the client they   *)
(* are a handler that takes its time, or that waits for ever.  The loss of *)
(* the connection is in Server as well.                                    *)
(***************************************************************************)
EXTENDS Naturals, Sequences

CONSTANTS
    Coalesce,       \* messages sent in a row may be received as one
    Split,          \* a recv may return a piece of a message
    NameTexts,      \* what the user may type: a picture's name ("photo"), ...
    SettingTexts,   \* ... a setting, as the client lets it pass
    ValueTexts,     \* ... the value of a setting
    AngleTexts,     \* ... an angle
    Blocks,         \* BOUND: reads that bring the longest picture
    MaxUnread       \* BOUND: messages on their way when the user types the next line

Settings == {"resolution", "brightness", "exposure", "contrast"}

ASSUME StreamAssumption == Coalesce \in BOOLEAN /\ Split \in BOOLEAN
ASSUME BoundAssumption  == Blocks \in Nat /\ MaxUnread \in Nat

VARIABLES
    client,     \* location of the client program
    server,     \* location of the handler
    c2s,        \* sent by the client, not yet received
    s2c,        \* sent by the handler, not yet received
    opt,        \* the setting the handler is about to change
    size,       \* blocks of the picture being sent, the handler's size
    want,       \* blocks the client was told of, its own size
    got,        \* blocks the client has read, recv_bytes
    served,     \* the handler will still get the semaphore when it needs it
    orderly     \* history: every recv has returned one message, and no text typed was
                \* empty, an unknown setting or "contrast" as a value

copy == <<want, got>>
vars == <<client, server, c2s, s2c, opt, size, copy, served, orderly>>

ClientRecvs == {"welcome", "list", "verdict", "size", "settingsList",
                "valuePrompt", "anglePrompt", "reply"}
ServerRecvs == {"option", "angle", "name", "ready", "settingsOption", "value"}
UserTurns   == {"menu", "chooseName", "chooseSetting", "chooseValue", "chooseAngle"}

Init ==
    /\ client = "welcome"
    /\ server = "option"
    /\ c2s = <<>>
    /\ s2c = <<"welcome">>
    /\ opt = "none"
    /\ size = 0
    /\ want = 0
    /\ got = 0
    /\ served = TRUE
    /\ orderly = TRUE

-----------------------------------------------------------------------------
(* The streams *)

\* What a recv may return of the stream q: its first message, several, or pieces.  BOUND:
\* what is left of a message is not divided again.
Whole(q)  == {[text |-> q[1], left |-> Tail(q), whole |-> TRUE]}
Merged(q) == {[text |-> "jumble", left |-> SubSeq(q, n + 1, Len(q)), whole |-> FALSE] :
                n \in 2 .. Len(q)}
Pieces(q) == {[text |-> "jumble", left |-> <<"rest">> \o SubSeq(q, n + 1, Len(q)),
               whole |-> FALSE] : n \in 1 .. IF Coalesce THEN Len(q) ELSE 1}

Recv(q) ==
    IF q = <<>> THEN {}
    ELSE Whole(q) \cup (IF Coalesce THEN Merged(q) ELSE {})
                  \cup (IF Split /\ q[1] # "rest" THEN Pieces(q) ELSE {})

\* Whether a line passes the test of the handler: a piece of a number may be another
\* number, and a piece of a name another picture's.  No piece is one of the words that
\* the two programs compare with.
Passes(text, good) == IF text \in {"jumble", "rest"} THEN BOOLEAN ELSE {text = good}

\* A line without text has no bytes: send has nothing to send.
Sent(text) == IF text = "" THEN <<>> ELSE <<text>>

ClientSends(text) == c2s' = c2s \o Sent(text)

-----------------------------------------------------------------------------
(* The client *)

\* recv, then print what came, whatever it is.
ClientPrints(from, to) ==
    /\ client = from
    /\ \E r \in Recv(s2c) : s2c' = r.left /\ orderly' = (orderly /\ r.whole)
    /\ client' = to
    /\ UNCHANGED <<server, c2s, opt, size, copy, served>>

ClientReceives ==
    \/ ClientPrints("welcome", "menu")
    \/ ClientPrints("list", "chooseName")
    \/ ClientPrints("settingsList", "chooseSetting")
    \/ ClientPrints("valuePrompt", "chooseValue")
    \/ ClientPrints("anglePrompt", "chooseAngle")
    \/ ClientPrints("reply", "menu")

\* The user types when the program asks, whatever is on its way.
UserMay == Len(c2s) <= MaxUnread /\ Len(s2c) <= MaxUnread

\* The menu asks again until the option is one of the four.
ChooseOption ==
    /\ client = "menu"
    /\ UserMay
    /\ \E o \in {"searchphoto", "settings", "setangle", "quit"} :
         /\ ClientSends(o)
         /\ client' = CASE o = "searchphoto" -> "list"
                        [] o = "settings"    -> "settingsList"
                        [] o = "setangle"    -> "anglePrompt"
                        [] o = "quit"        -> "closed"
    /\ UNCHANGED <<server, s2c, opt, size, copy, served, orderly>>

\* A line typed by the user and sent as it is.
UserSends(from, texts, to) ==
    /\ client = from
    /\ UserMay
    /\ \E t \in texts : ClientSends(t) /\ orderly' = (orderly /\ t # "")
    /\ client' = to
    /\ UNCHANGED <<server, s2c, opt, size, copy, served>>

ChooseName    == UserSends("chooseName", NameTexts, "verdict")
ChooseSetting == UserSends("chooseSetting", SettingTexts, "valuePrompt")
ChooseValue   == UserSends("chooseValue", ValueTexts, "reply")
ChooseAngle   == UserSends("chooseAngle", AngleTexts, "reply")

\* Faulty: searches what came for "found" instead of comparing all of it.
BugReadVerdict ==
    /\ client = "verdict"
    /\ \E r \in Recv(s2c) :
         /\ s2c' = r.left
         /\ orderly' = (orderly /\ r.whole)
         /\ client' = IF r.text \in {"found", "notfound"} THEN "sendReady" ELSE "list"
    /\ UNCHANGED <<server, c2s, opt, size, copy, served>>

\* Only the five bytes "found" leave the loop; anything else, the rest of a list too,
\* means that what comes next is taken for the list.
ReadVerdict ==
    /\ client = "verdict"
    /\ \E r \in Recv(s2c) :
         /\ s2c' = r.left
         /\ orderly' = (orderly /\ r.whole)
         /\ client' = IF r.text = "found" THEN "sendReady" ELSE "list"
    /\ UNCHANGED <<server, c2s, opt, size, copy, served>>

SendReady ==
    /\ client = "sendReady"
    /\ ClientSends("ready")
    /\ client' = "size"
    /\ UNCHANGED <<server, s2c, opt, size, copy, served, orderly>>

\* read of the four bytes of an int, never more.  When they are not those of the size
\* the client expects any number of blocks.
ReadSize ==
    /\ client = "size"
    /\ s2c # <<>>
    /\ \/ /\ s2c[1] = "size"
          /\ s2c' = Tail(s2c)
          /\ want' = size
          /\ UNCHANGED orderly
       \/ /\ s2c[1] # "size" \/ Split
          /\ s2c' \in {Tail(s2c), <<"rest">> \o Tail(s2c)}
          /\ want' \in 0 .. Blocks
          /\ orderly' = FALSE
    /\ got' = 0
    /\ client' = "copy"
    /\ UNCHANGED <<server, c2s, opt, size, served>>

\* A read of the array, of at most size bytes, returns any part of what has arrived.  A
\* size of 0 asks for nothing.
ReadsSome ==
    \/ want = 0 /\ UNCHANGED <<s2c, got>>
    \/ \E n \in 1 .. Len(s2c) :
         /\ n <= want
         /\ s2c' = SubSeq(s2c, n + 1, Len(s2c))
         /\ got' = got + n

\* Faulty: one read, taken for the whole picture.
BugReadBlocks ==
    /\ client = "copy"
    /\ ReadsSome
    /\ client' = "menu"
    /\ UNCHANGED <<server, c2s, opt, size, want, served, orderly>>

\* The loop ends when size bytes have come, and the picture is written to a file.
ReadBlocks ==
    /\ client = "copy"
    /\ ReadsSome
    /\ client' = IF got' >= want THEN "menu" ELSE "copy"
    /\ UNCHANGED <<server, c2s, opt, size, want, served, orderly>>

-----------------------------------------------------------------------------
(* The handler: each action is one recv and what is sent before the next *)

HandlerRecv(r) ==
    /\ c2s' = r.left
    /\ UNCHANGED <<client, copy, served>>

\* What is sent, and where the handler receives next.
Answer(replies, loc) ==
    /\ s2c' = s2c \o replies
    /\ server' = loc

OnOption ==
    /\ server = "option"
    /\ \E r \in Recv(c2s) :
         /\ HandlerRecv(r)
         /\ orderly' = (orderly /\ r.whole)
         /\ CASE r.text = "setangle"    -> Answer(<<"prompt">>, "angle")
              [] r.text = "searchphoto" -> Answer(<<"list">>, "name")
              [] r.text = "settings"    -> Answer(<<"list">>, "settingsOption")
              [] r.text = "quit"        -> Answer(<<>>, "closed")
              [] OTHER                  -> Answer(<<>>, "option")
    /\ opt' = "none"
    /\ UNCHANGED size

OnAngle ==
    /\ server = "angle"
    /\ \E r \in Recv(c2s) : \E ok \in Passes(r.text, "valid") :
         /\ HandlerRecv(r)
         /\ orderly' = (orderly /\ r.whole)
         /\ Answer(IF ok THEN <<"welldone">> ELSE <<"nogood">>, "option")
    /\ UNCHANGED <<opt, size>>

\* Faulty: the list is sent before the verdict.
BugOnName ==
    /\ server = "name"
    /\ \E r \in Recv(c2s) : \E ok \in Passes(r.text, "photo") :
         /\ HandlerRecv(r)
         /\ orderly' = (orderly /\ r.whole)
         /\ IF ok THEN Answer(<<"found">>, "ready")
                  ELSE Answer(<<"list", "notfound">>, "name")
    /\ UNCHANGED <<opt, size>>

\* "notfound" and the new list are two sends in a row.
OnName ==
    /\ server = "name"
    /\ \E r \in Recv(c2s) : \E ok \in Passes(r.text, "photo") :
         /\ HandlerRecv(r)
         /\ orderly' = (orderly /\ r.whole)
         /\ IF ok THEN Answer(<<"found">>, "ready")
                  ELSE Answer(<<"notfound", "list">>, "name")
    /\ UNCHANGED <<opt, size>>

\* Faulty: the loop of writes goes round once too often.
BugOnReady ==
    /\ server = "ready"
    /\ \E r \in Recv(c2s), n \in 0 .. Blocks :
         /\ HandlerRecv(r)
         /\ orderly' = (orderly /\ r.whole)
         /\ size' = n
         /\ Answer(<<"size">> \o [i \in 1 .. n + 1 |-> "block"], "option")
    /\ UNCHANGED opt

\* Any message is "ready"; the size and the picture follow.  On a blocking socket a
\* write takes all it is given, and the loop goes round once.
OnReady ==
    /\ server = "ready"
    /\ \E r \in Recv(c2s), n \in 0 .. Blocks :
         /\ HandlerRecv(r)
         /\ orderly' = (orderly /\ r.whole)
         /\ size' = n
         /\ Answer(<<"size">> \o [i \in 1 .. n |-> "block"], "option")
    /\ UNCHANGED opt

\* An unknown setting is answered at once, and there is no value to receive.
OnSettingsOption ==
    /\ server = "settingsOption"
    /\ \E r \in Recv(c2s) :
         /\ HandlerRecv(r)
         /\ orderly' = (orderly /\ r.whole /\ r.text \in Settings)
         /\ IF r.text \in Settings
              THEN Answer(<<"prompt">>, "value") /\ opt' = r.text
              ELSE Answer(<<"welldone">>, "option") /\ opt' = "none"
    /\ UNCHANGED size

\* Faulty: nothing is said of a value that is refused.
BugOnValue ==
    /\ server = "value"
    /\ \E r \in Recv(c2s) : \E ok \in Passes(r.text, "valid") :
         /\ HandlerRecv(r)
         /\ orderly' = (orderly /\ r.whole)
         /\ Answer(IF ok THEN <<"welldone">> ELSE <<>>, "option")
    /\ UNCHANGED <<opt, size>>

\* The text "contrast", refused as a value of another setting, is then taken for
\* the option.
OnValue ==
    /\ server = "value"
    /\ \E r \in Recv(c2s) : \E ok \in Passes(r.text, "valid") :
         /\ HandlerRecv(r)
         /\ IF r.text = "contrast" /\ opt # "contrast"
              THEN /\ Answer(<<"prompt">>, "value")
                   /\ opt' = "contrast"
                   /\ orderly' = FALSE
              ELSE /\ Answer(IF ok THEN <<"welldone">> ELSE <<"nogood">>, "option")
                   /\ orderly' = (orderly /\ r.whole)
                   /\ UNCHANGED opt
    /\ UNCHANGED size

\* Another thread has the semaphore and keeps it for ever, as in ServerLeak: the handler
\* is stopped where it takes it, behind "found" or at a value that is good.
SemaphoreNeverComes ==
    /\ served
    /\ \/ server = "ready"
       \/ server \in {"angle", "value"} /\ \E r \in Recv(c2s) : TRUE \in Passes(r.text, "valid")
    /\ served' = FALSE
    /\ UNCHANGED <<client, server, c2s, s2c, opt, size, copy, orderly>>

-----------------------------------------------------------------------------
User   == ChooseOption \/ ChooseName \/ ChooseSetting \/ ChooseValue \/ ChooseAngle
Client == ClientReceives \/ ReadVerdict \/ SendReady \/ ReadSize \/ ReadBlocks
Server ==
    /\ served
    /\ OnOption \/ OnAngle \/ OnName \/ OnReady \/ OnSettingsOption \/ OnValue

Next == User \/ Client \/ Server \/ SemaphoreNeverComes

Spec == Init /\ [][Next]_vars

\* Both programs run when they can, the handler while it is served; the user need not
\* type anything.
FairSpec == Spec /\ WF_vars(Client) /\ WF_vars(Server)

-----------------------------------------------------------------------------
(* Properties *)

Texts == Settings \cup NameTexts \cup SettingTexts \cup ValueTexts \cup AngleTexts
           \cup {"searchphoto", "settings", "setangle", "quit", "ready", "rest"}

Replies == {"welcome", "prompt", "list", "found", "notfound", "size", "block", "welldone",
            "nogood", "rest"}

TypeOK ==
    /\ client \in ClientRecvs \cup UserTurns \cup {"sendReady", "copy", "closed"}
    /\ server \in ServerRecvs \cup {"closed"}
    /\ c2s \in Seq(Texts)
    /\ s2c \in Seq(Replies)
    /\ opt \in Settings \cup {"none"}
    /\ size \in 0 .. Blocks
    /\ want \in 0 .. Blocks
    /\ got \in 0 .. IF orderly THEN Blocks ELSE 2 * Blocks
    /\ served \in BOOLEAN
    /\ orderly \in BOOLEAN

Expects ==
    [menu |-> "option", chooseName |-> "name", chooseSetting |-> "settingsOption",
     chooseValue |-> "value", chooseAngle |-> "angle", sendReady |-> "ready"]

\* In an orderly session, what the user is asked for is what the handler is waiting
\* for, and nothing is left unread from before: the two programs agree although no
\* message carries its kind (client.c:88-358, server.c:127-756).
InStep ==
    orderly /\ client \in DOMAIN Expects =>
      server = Expects[client] /\ c2s = <<>> /\ s2c = <<>>

\* In an orderly session, a picture that the client writes to its file is the one
\* announced, complete, however the blocks are cut (client.c:198-214, server.c:369-404).
PictureIsWhole ==
    orderly =>
      /\ client = "copy" => got + Len(s2c) = size
      /\ client = "menu" => got \in {0, size}

\* Each message of the handler is for one recv of the client.
MeantFor ==
    [welcome |-> {"welcome"}, list |-> {"list"}, verdict |-> {"found", "notfound"},
     size |-> {"size"}, copy |-> {"block"}, settingsList |-> {"list"},
     valuePrompt |-> {"prompt"}, anglePrompt |-> {"prompt"},
     reply |-> {"welldone", "nogood"}]

\* What a step of the client takes from the stream is one message, or some blocks of
\* the picture, and what that recv was written for.
Understood ==
    Len(s2c') < Len(s2c) =>
      /\ client # "copy" => Len(s2c') = Len(s2c) - 1
      /\ \A i \in 1 .. Len(s2c) - Len(s2c') : s2c[i] \in MeantFor[client]

\* As long as every recv has returned one message, none is taken for another, although
\* no message carries its kind: no list for a verdict, no verdict for a size, no part of
\* a picture for a prompt (client.c:78-358).
MessagesAreUnderstood == [][orderly' => Understood]_vars

\* The client never waits for ever, unless the handler does: every recv of it is
\* answered (server.h:54 offers the list again after a name that is not found).
EveryRecvIsAnswered ==
    \A loc \in ClientRecvs : client = loc ~> (client # loc \/ ~served)

\* ... which the programs keep as long as the session is orderly (client.c:78-358,
\* server.c:127-756).
OrderlyRecvsAreAnswered ==
    \A loc \in ClientRecvs : client = loc ~> (client # loc \/ ~served \/ ~orderly)

=============================================================================
