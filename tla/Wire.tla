---------------------------------- MODULE Wire ---------------------------------
(***************************************************************************)
(* The line protocol of bin/server.rs and of IrcxAuthServer.cs: tokens are *)
(* escaped, put into AUTH lines, sent as one stream of bytes, read in       *)
(* pieces of any length, split into lines again, parsed and unescaped.      *)
(*                                                                         *)
(* A byte that the protocol treats in a way of its own has a name, "x" is   *)
(* any other; keywords, which hold none of the former, are one symbol, and  *)
(* "AUTH" stands for the word with the blank after it.                      *)
(* A peer escapes tokens as the servers do; it may also send a payload that *)
(* is escaped badly, and lines that are none of the protocol's.             *)
(***************************************************************************)
EXTENDS Integers, Sequences

CONSTANTS
    Bytes,       \* what the stream consists of: bytes and keywords
    Tokens,      \* tokens, as sequences of bytes
    Payloads,    \* what else may stand in the place of an escaped token
    Noise,       \* lines that ask for nothing
    None,        \* no message
    MaxLines     \* bound of the model: lines on the stream

ASSUME LinesAssumption == MaxLines \in Nat

VARIABLES
    said,      \* history: the messages on the stream
    sent,      \* the number of lines on the stream, noise included
    stream,    \* bytes under way
    buffer,    \* LineBuffer.buffer
    lines      \* what on_line was called with, in order

vars == <<said, sent, stream, buffer, lines>>

-------------------------------------------------------------------------------
(* Tokens. *)

\* What follows the backslash.
Code == [CR |-> "r", LF |-> "n", NUL |-> "0", COMMA |-> "c", TAB |-> "t",
         SPACE |-> "b", BSLASH |-> "BSLASH"]

ASSUME BytesAssumption ==
    /\ DOMAIN Code \subseteq Bytes
    /\ {Code[b] : b \in DOMAIN Code} \subseteq Bytes
    /\ {":", "I", "S", "AUTH", "GateKeeper", "NTLM"} \subseteq Bytes

ASSUME TokenAssumption == \A token \in Tokens : token \in Seq(Bytes)

\* Mutant: a backslash is sent as it is.
EscapeByteUndoubled(b) ==
    IF b \in DOMAIN Code \ {"BSLASH"} THEN <<"BSLASH", Code[b]>> ELSE <<b>>

EscapeByte(b) == IF b \in DOMAIN Code THEN <<"BSLASH", Code[b]>> ELSE <<b>>

\* The loop of escape: what the first n bytes become.
Escape(token) ==
    LET escaped[n \in 0 .. Len(token)] ==
          IF n = 0 THEN << >> ELSE escaped[n - 1] \o EscapeByte(token[n])
    IN  escaped[Len(token)]

\* A code follows the backslash at i.
IsEscape(s, i) ==
    i < Len(s) /\ s[i] = "BSLASH" /\ \E b \in DOMAIN Code : Code[b] = s[i + 1]

Decode(code) == CHOOSE b \in DOMAIN Code : Code[b] = code

\* The loop of unescape: what stands at i and after it.  A backslash that
\* nothing, or nothing known, follows stands for itself.
Unescape(s) ==
    LET from[i \in 1 .. Len(s) + 1] ==
          IF i > Len(s) THEN << >>
          ELSE IF IsEscape(s, i) THEN <<Decode(s[i + 1])>> \o from[i + 2]
                                 ELSE <<s[i]>> \o from[i + 1]
    IN  from[1]

-------------------------------------------------------------------------------
(* Lines. *)

LineEnds == {"CR", "LF"}

\* The peer sends one line at a time, and stages of one letter.
ASSUME PayloadAssumption ==
    \A payload \in Payloads :
        /\ payload \in Seq(Bytes \ LineEnds)
        /\ payload # << >> => payload[1] = "SPACE"

WithoutColon(s) == IF s # << >> /\ Head(s) = ":" THEN Tail(s) ELSE s

\* The least of some positions.
First(positions) == CHOOSE i \in positions : \A j \in positions : i <= j

\* The first position of a byte, or 0.
Position(s, b) ==
    IF \E i \in DOMAIN s : s[i] = b THEN First({i \in DOMAIN s : s[i] = b}) ELSE 0

Before(s, i) == SubSeq(s, 1, i - 1)
After(s, i) == SubSeq(s, i + 1, Len(s))

\* parse_auth_line and the unescape in process_auth.
ParseAuthLine(line) ==
    LET rest    == After(line, 1)
        space1  == Position(rest, "SPACE")
        package == Before(rest, space1)
        tail    == After(rest, space1)
        space2  == Position(tail, "SPACE")
        stage   == IF space2 = 0 THEN tail ELSE Before(tail, space2)
        payload == IF space2 = 0 THEN << >> ELSE After(tail, space2)
    IN  IF /\ line # << >> /\ Head(line) = "AUTH"
           /\ space1 # 0
           /\ package \in {<<"GateKeeper">>, <<"NTLM">>}
           /\ stage # << >> /\ Head(stage) \in {"I", "S"}
        THEN [package |-> package[1], stage |-> Head(stage),
              token |-> Unescape(WithoutColon(payload))]
        ELSE None

\* Mutant: TrimStart(':') for the colon.
TryParseTrimming(line) ==
    LET rest    == After(line, 1)
        space1  == Position(rest, "SPACE")
        tail    == After(rest, space1)
        payload == IF Len(tail) > 1 /\ tail[2] = "SPACE" THEN After(tail, 2)
                                                         ELSE After(tail, 1)
        kept    == {i \in DOMAIN payload : payload[i] # ":"}
    IN  IF /\ line # << >> /\ Head(line) = "AUTH"
           /\ space1 > 1
           /\ tail # << >> /\ Head(tail) \in {"I", "S"}
           /\ Before(rest, space1) = <<"GateKeeper">>
        THEN [package |-> "GateKeeper", stage |-> Head(tail),
              token |-> IF kept = {} THEN << >>
                        ELSE Unescape(After(payload, First(kept) - 1))]
        ELSE None

\* TryParseAuthLine of the C# server, and what ProcessAuth does first with its
\* results: it serves one package only, and unescapes the payload.
TryParseAuthLine(line) ==
    LET rest    == After(line, 1)
        space1  == Position(rest, "SPACE")
        tail    == After(rest, space1)
        payload == IF Len(tail) > 1 /\ tail[2] = "SPACE" THEN After(tail, 2)
                                                         ELSE After(tail, 1)
    IN  IF /\ line # << >> /\ Head(line) = "AUTH"
           /\ space1 > 1
           /\ tail # << >> /\ Head(tail) \in {"I", "S"}
           /\ Before(rest, space1) = <<"GateKeeper">>
        THEN [package |-> "GateKeeper", stage |-> Head(tail),
              token |-> Unescape(WithoutColon(payload))]
        ELSE None

Message == [package: {"GateKeeper", "NTLM"}, stage: {"I", "S"}, token: Seq(Bytes)]

\* A message is a record.
ASSUME NoneAssumption == None \notin Message

\* Noise asks for nothing, whatever else it is.
ASSUME NoiseAssumption ==
    \A line \in Noise : line \in Seq(Bytes \ LineEnds) /\ ParseAuthLine(line) = None

\* Lines of blanks are dropped by the Rust server; the C# ProcessLines drops the
\* empty ones, and makes nothing of the others.
Blank(line) == \A i \in DOMAIN line : line[i] \in {"SPACE", "TAB"}

\* Mutant: the line end stays in the buffer.
FedKeepingEnd(fed, b) ==
    IF b \notin LineEnds THEN [lines |-> fed.lines, buffer |-> Append(fed.buffer, b)]
    ELSE [lines  |-> IF Blank(fed.buffer) THEN fed.lines
                     ELSE Append(fed.lines, fed.buffer),
          buffer |-> <<b>>]

\* The loop body of LineBuffer.feed: the lines found so far, and the bytes since
\* the last line end.
Fed(fed, b) ==
    IF b \notin LineEnds THEN [lines |-> fed.lines, buffer |-> Append(fed.buffer, b)]
    ELSE [lines  |-> IF Blank(fed.buffer) THEN fed.lines
                     ELSE Append(fed.lines, fed.buffer),
          buffer |-> << >>]

\* LineBuffer.feed, s being the buffer with the new bytes.
Feed(s) ==
    LET fed[n \in 0 .. Len(s)] ==
          IF n = 0 THEN [lines |-> << >>, buffer |-> << >>]
                   ELSE Fed(fed[n - 1], s[n])
    IN  fed[Len(s)]

\* What the server makes of lines: those that are no AUTH lines are passed over.
Messages(s) ==
    LET heard[n \in 0 .. Len(s)] ==
          IF n = 0 THEN << >>
          ELSE IF ParseAuthLine(s[n]) = None THEN heard[n - 1]
                                             ELSE Append(heard[n - 1], ParseAuthLine(s[n]))
    IN  heard[Len(s)]

-------------------------------------------------------------------------------

Init ==
    /\ said = << >>
    /\ sent = 0
    /\ stream = << >>
    /\ buffer = << >>
    /\ lines = << >>

Put(line) ==
    /\ sent < MaxLines
    /\ sent' = sent + 1
    /\ \E end \in {<<"CR", "LF">>, <<"LF">>} : stream' = stream \o line \o end
    /\ UNCHANGED <<buffer, lines>>

\* A line as handle_client writes it.
Say(package, stage, token) ==
    /\ Put(<<"AUTH", package, "SPACE", stage, "SPACE", ":">> \o Escape(token))
    /\ said' = Append(said, [package |-> package, stage |-> stage, token |-> token])

\* An AUTH line with something else for a payload, or for the colon.
SayBadly(stage, payload) ==
    /\ Put(<<"AUTH", "GateKeeper", "SPACE", stage>> \o payload)
    /\ said' = Append(said, None)

SayNothing(line) ==
    /\ Put(line)
    /\ UNCHANGED said

\* stream.read returns some of what is under way.
Read(n) ==
    /\ LET fed == Feed(buffer \o SubSeq(stream, 1, n))
       IN  /\ buffer' = fed.buffer
           /\ lines' = lines \o fed.lines
    /\ stream' = After(stream, n)
    /\ UNCHANGED <<said, sent>>

Next ==
    \/ \E package \in {"GateKeeper", "NTLM"}, stage \in {"I", "S"}, token \in Tokens :
          Say(package, stage, token)
    \/ \E stage \in {"I", "S"}, payload \in Payloads : SayBadly(stage, payload)
    \/ \E line \in Noise : SayNothing(line)
    \/ \E n \in 1..Len(stream) : Read(n)

Spec == Init /\ [][Next]_vars

-------------------------------------------------------------------------------
(* Properties. *)

\* What the server has acted on.
Heard == Messages(lines)

\* Type invariant; a line end is never left in the buffer nor inside a line.
TypeOK ==
    /\ sent \in 0 .. MaxLines
    /\ said \in Seq(Message \cup {None})
    /\ stream \in Seq(Bytes)
    /\ buffer \in Seq(Bytes \ LineEnds)
    /\ lines \in Seq(Seq(Bytes \ LineEnds) \ {<< >>})

\* However the stream is cut, and whatever bytes a token holds, the server hears
\* the messages of its peer, each once, in order, with the very tokens, and all
\* of them as soon as it has read their line ends.  A payload that is escaped
\* badly is some message, and swallows nothing of the next line.
HeardAsSaid ==
    /\ Len(Heard) <= Len(said)
    /\ \A k \in DOMAIN Heard : said[k] # None => Heard[k] = said[k]
    /\ (\A i \in DOMAIN stream : stream[i] \notin LineEnds) => Len(Heard) = Len(said)

\* The two servers, written in two languages, understand every line of their
\* common package alike whose stage is one letter, even one that is escaped badly,
\* lacks the colon or lacks the payload.
ReadersAgree ==
    \A k \in DOMAIN lines :
       LET message == ParseAuthLine(lines[k])
       IN  TryParseAuthLine(lines[k]) =
              IF message # None /\ message.package = "GateKeeper" THEN message ELSE None
===============================================================================
