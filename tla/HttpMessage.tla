----------------------------- MODULE HttpMessage -----------------------------
(***************************************************************************)
(* The parser the auditing modules use, utils/http.cpp: one request or     *)
(* reply, as the TLS hooks have buffered it, becomes the parameters of an  *)
(* Event.  The parser runs over a string by position; a message here is a  *)
(* sequence of tokens, in which the text of a line is one token and a byte *)
(* of a body, CR, LF and a digit of a chunk's size are one token each.     *)
(***************************************************************************)
EXTENDS Integers, Sequences
S == INSTANCE SequencesExt

CONSTANTS
    Starts,         \* what first lines are: "request" is one of the methods
                    \* the parser knows, "response" a status line
    Base,           \* 16, the base of chunk sizes
    Names,          \* headers that do not matter for the body; "no colon" is
                    \* a line without a colon
    Extras,         \* sequences of such headers
    Bytes,          \* tokens a body is made of
    MaxBody,        \* bound: the length of a body
    MaxDigits,      \* bound: the digits of a chunk's size
    MaxLeading,     \* bound: empty lines in front of a message
    Cuts            \* messages may break off anywhere

Token(is, val) == [is |-> is, val |-> val]
CR == Token("cr", 0)
LF == Token("lf", 0)
NUL == Token("nul", 0)
CRLF == <<CR, LF>>
Hex(n) == Token("hex", n)
Garbage == Token("garbage", 0)      \* what memory behind a string holds

Kinds == Starts \cup Names \cup
             {"cr", "lf", "nul", "hex", "garbage", "chunked", "length"}

Tokens == [is : Kinds, val : Nat]

(* What frames a message is not among the other headers, and none of them  *)
(* is called like the parameter that holds the payload.  A size fits the 8 *)
(* characters of strChunkSize, and the length of a body an int (TLC has no *)
(* number beyond 2^31 - 1, either).                                        *)
ASSUME HttpAssumption ==
    /\ Base \in Nat \ {0, 1}
    /\ {MaxBody, MaxLeading} \subseteq Nat
    /\ MaxDigits \in 1..8 /\ MaxBody =< 2^30 + (2^30 - 1)
    /\ Cuts \in BOOLEAN
    /\ Bytes \subseteq Tokens \ {Garbage}
    /\ Starts \cap {"payload", "cr", "lf"} = {}
    /\ Names \cap {"payload", "cr", "lf", "chunked", "length"} = {}
    /\ Extras \subseteq Seq([is : Names, val : Nat])

VARIABLES
    message,        \* history: what was sent
    input,          \* what has arrived of it
    phase,          \* where readHttpMessage is
    pos, headerCount, contentLength, isChunked,     \* its variables
    payload,
    params          \* the parameters of the Event

string == <<message, input>>
result == <<payload, params>>
scan == <<pos, headerCount, contentLength, isChunked>>
vars == <<string, phase, scan, result>>

-----------------------------------------------------------------------------
(* MESSAGES                                                                *)

(* Chunks are records of the bytes and the size that is written in front.  *)
BytesOf(cs) == S!FlattenSeq([j \in DOMAIN cs |-> cs[j].bytes])

Body(m) == BytesOf(m.chunks)

Headers(m) ==
    m.before \o <<IF m.chunked THEN Token("chunked", 0)
                  ELSE Token("length", Len(Body(m)))>> \o m.after

(* The ways to write n: the first i digits stand for left[i], which is what*)
(* is left when the others are taken off at the end.  Zeros may lead.      *)
Numerals(n) ==
    UNION {{[i \in 1..L |-> Hex(left[i] % Base)] :
               left \in {f \in [0..L -> 0..n] :
                            /\ f[0] = 0 /\ f[L] = n
                            /\ \A i \in 1..L : f[i - 1] = f[i] \div Base}} :
           L \in 1..MaxDigits}

Chunk(c) == c.size \o CRLF \o c.bytes \o CRLF

Lines(m) == <<Token(m.first, 0)>> \o Headers(m)

(* Every line has a line end.                                              *)
Ended(lines) ==
    [i \in 1..3 * Len(lines) |->
        LET k == (i + 2) \div 3
        IN  IF i = 3 * k - 2 THEN lines[k] ELSE CRLF[i - 3 * k + 2]]

Framed(m) ==
    IF m.chunked
    THEN S!FlattenSeq([j \in DOMAIN m.chunks |-> Chunk(m.chunks[j])])
            \o <<Hex(0)>> \o CRLF \o CRLF
    ELSE Body(m)

(* A message as a client or server sends it.                               *)
Serialize(m) ==
    [i \in 1..2 * m.leading |-> IF i % 2 = 1 THEN CR ELSE LF]
        \o Ended(Lines(m)) \o CRLF \o Framed(m)

(* A body in chunks, none of them empty: an empty one would be the last.   *)
(* A body that is not chunked is one without a size.                       *)
Splits(chunked) ==
    LET Chunks == UNION {[size : IF chunked THEN Numerals(n) ELSE {<<>>},
                          bytes : [1..n -> Bytes]] : n \in 1..MaxBody}
    IN  {cs \in UNION {[1..k -> Chunks] :
                           k \in 0..(IF chunked THEN MaxBody ELSE 1)} :
            Len(BytesOf(cs)) =< MaxBody}

Messages ==
    UNION {[first : Starts, before : Extras, after : Extras,
            chunked : {chunked}, chunks : Splits(chunked),
            leading : 0..MaxLeading] :
               chunked \in BOOLEAN}

Init ==
    /\ message \in Messages
    /\ LET text == Serialize(message)
       IN  \E n \in 1..Len(text) :
              (Cuts \/ n = Len(text)) /\ input = SubSeq(text, 1, n)
    /\ phase = "headers"
    /\ pos = 0 /\ headerCount = 0 /\ contentLength = -1 /\ isChunked = FALSE
    /\ payload = <<>>
    /\ params = <<>>

-----------------------------------------------------------------------------
(* readHttpMessage, the loop over lines                                    *)

(* input.substr(pos, input.find('\n', pos) - pos) *)
Line ==
    LET rest == SubSeq(input, pos + 1, Len(input))
        ends == {i \in DOMAIN rest : rest[i] = LF}
    IN  IF ends = {} THEN rest
        ELSE SubSeq(rest, 1, (CHOOSE i \in ends : \A j \in ends : i =< j) - 1)

HasText == Line # <<>> /\ Line[1] # CR

(* Event::add: a parameter replaces one of the same name.                  *)
Add(name, value) ==
    params' = [n \in DOMAIN params \cup {name} |->
                  IF n = name THEN value ELSE params[n]]

InLoop == phase = "headers" /\ pos =< Len(input)

(* std::string::substr and at throw beyond the end of the string: nobody   *)
(* catches, and the process ends.                                          *)
Throw(where) ==
    /\ where > Len(input)
    /\ phase' = "thrown"
    /\ UNCHANGED <<string, scan, result>>

LineBeyondEnd == phase = "headers" /\ Throw(pos)

EmptyLineContinues == InLoop /\ ~HasText /\ UNCHANGED vars      \* mutant

(* An empty line ends the headers, unless there was none: then the loop is *)
(* continued at the same position.                                         *)
EmptyLine ==
    /\ InLoop
    /\ ~HasText
    /\ phase' = IF Line # <<>> /\ headerCount = 0 THEN phase ELSE "payload"
    /\ UNCHANGED <<string, scan, result>>

(* The first line; what is neither request nor response exits the process. *)
FirstLine ==
    /\ InLoop
    /\ HasText
    /\ headerCount = 0
    /\ IF Line[1].is \in {"request", "response"}
       THEN Add(Line[1].is, 0) /\ UNCHANGED phase
       ELSE phase' = "exited" /\ UNCHANGED params
    /\ headerCount' = 1
    /\ pos' = pos + Len(Line) + 1
    /\ UNCHANGED <<string, contentLength, isChunked, payload>>

Header ==
    /\ InLoop
    /\ HasText
    /\ headerCount > 0
    /\ contentLength' = IF Line[1].is = "length" THEN Line[1].val
                        ELSE contentLength
    /\ isChunked' = (isChunked \/ Line[1].is = "chunked")
    /\ IF Line[1].is = "no colon"
       THEN UNCHANGED <<headerCount, params>>
       ELSE Add(Line[1].is, Line[1].val) /\ headerCount' = headerCount + 1
    /\ pos' = pos + Len(Line) + 1
    /\ UNCHANGED <<string, phase, payload>>

-----------------------------------------------------------------------------
(* readHttpMessage, the payload                                            *)

(* What memcpy finds from a position on, beyond the end of the string, too.*)
Copy(from, length) ==
    [i \in 1..length |-> IF from + i =< Len(input) THEN input[from + i]
                         ELSE Garbage]

StartChunks ==
    /\ phase = "payload" /\ isChunked
    /\ pos' = pos + 2
    /\ contentLength' = 0
    /\ phase' = "chunks"
    /\ UNCHANGED <<string, headerCount, isChunked, result>>

BodyBeyondEnd == phase = "payload" /\ contentLength > 0 /\ ~isChunked
                    /\ Throw(pos + 2)

BodyStep(gap) ==
    /\ phase = "payload" /\ ~isChunked /\ contentLength > 0
    /\ pos + gap =< Len(input)
    /\ pos' = pos + gap
    /\ payload' = [Copy(pos + gap, contentLength) EXCEPT ![contentLength] = NUL]
    /\ phase' = "finish"
    /\ UNCHANGED <<string, headerCount, contentLength, isChunked, params>>

ReadBodySkipsMore == BodyStep(4)        \* mutant: two line ends are skipped

(* contentLength bytes are copied, and the last one is made a NUL.         *)
ReadBody == BodyStep(2)

NoBody ==
    /\ phase = "payload" /\ ~isChunked /\ contentLength =< 0
    /\ phase' = "finish"
    /\ UNCHANGED <<string, scan, result>>

(* mutant: the first digit counts least *)
HexToIntReversed(digits) ==
    LET value[n \in 0..Len(digits)] ==
            IF n = 0 THEN 0
            ELSE value[n - 1] * Base + digits[Len(digits) + 1 - n].val
    IN  value[Len(digits)]

(* hexToInt, for sizes that fit 32 bits.                                   *)
HexToInt(digits) ==
    LET value[n \in 0..Len(digits)] ==
            IF n = 0 THEN 0 ELSE value[n - 1] * Base + digits[n].val
    IN  value[Len(digits)]

(* The position of the first byte from pos on that is no digit.            *)
EndOfDigits ==
    CHOOSE n \in pos..Len(input) :
        /\ n = Len(input) \/ input[n + 1].is # "hex"
        /\ \A i \in pos..(n - 1) : input[i + 1].is = "hex"

SizeBeyondEnd ==
    /\ phase = "chunks"
    /\ Throw(IF pos >= Len(input) \/ EndOfDigits = Len(input)
             THEN Len(input) + 1 ELSE pos)

(* One round of readHttpChunkedMessage: a size, and the chunk.             *)
ChunkStep(kept, gap) ==
    /\ phase = "chunks"
    /\ pos < Len(input) /\ EndOfDigits < Len(input)
    /\ LET size == HexToInt(SubSeq(input, pos + 1, EndOfDigits))
           next == EndOfDigits + 2 + size + gap
       IN  IF size = 0
           THEN /\ pos' = EndOfDigits
                /\ phase' = "finish"
                /\ UNCHANGED <<payload, contentLength>>
           ELSE /\ payload' = kept \o Copy(EndOfDigits + 2, size)
                /\ contentLength' = contentLength + size
                /\ pos' = next
                /\ phase' = IF next >= Len(input) THEN "finish" ELSE phase
    /\ UNCHANGED <<string, headerCount, isChunked, params>>

ReadChunkNoSkip == ChunkStep(payload, 0)    \* mutant: CRLF is not skipped

ReadChunk == ChunkStep(payload, 2)

Finish ==
    /\ phase = "finish"
    /\ IF contentLength > 0
       THEN params' = [n \in DOMAIN params \cup {"length", "payload"} |->
                          IF n \in {"length", "payload"} THEN contentLength
                          ELSE params[n]]
       ELSE UNCHANGED params
    /\ phase' = "done"
    /\ UNCHANGED <<string, scan, payload>>

-----------------------------------------------------------------------------
Next ==
    \/ LineBeyondEnd \/ EmptyLine \/ FirstLine \/ Header
    \/ StartChunks \/ SizeBeyondEnd \/ ReadChunk
    \/ BodyBeyondEnd \/ ReadBody \/ NoBody \/ Finish

Spec == Init /\ [][Next]_vars /\ WF_vars(Next)

-----------------------------------------------------------------------------
(* PROPERTIES                                                              *)

(* The parser's variables keep their types, and the length that goes with  *)
(* the payload into the Event is that of the payload.                      *)
TypeOK ==
    /\ phase \in {"headers", "payload", "chunks", "finish", "done", "thrown",
                  "exited"}
    /\ pos \in Nat /\ headerCount \in Nat
    /\ contentLength \in -1..Len(input) + MaxBody
    /\ isChunked \in BOOLEAN
    /\ phase = "finish" /\ contentLength > 0 => Len(payload) = contentLength

Whole == input = Serialize(message)

(* utils/http.cpp, positions: a message that has arrived as a whole is read*)
(* within its bounds.  Nothing is thrown, no byte behind its end is taken, *)
(* and the process does not exit.                                          *)
WholeIsReadInside ==
    Whole => /\ phase \notin {"thrown", "exited"}
             /\ pos =< Len(input)
             /\ \A i \in DOMAIN payload : payload[i] # Garbage

(* What the auditing modules get of such a message is what was sent: the   *)
(* whole body, however it was split into chunks and whatever its bytes are *)
(* (line ends or digits, too), the last value of every header, and in      *)
(* place of the last byte a NUL unless the body was chunked.               *)
MessageIsRecovered ==
    phase = "done" /\ Whole =>
        LET body == Body(message)
        IN  /\ IF message.chunked \/ body = <<>> THEN payload = body
               ELSE payload = [body EXCEPT ![Len(body)] = NUL]
            /\ "payload" \in DOMAIN params <=> body # <<>>
            /\ message.first \in DOMAIN params
            /\ \A i \in DOMAIN Headers(message) :
                  LET h == Headers(message)[i]
                  IN  h.is # "no colon" =>
                        /\ h.is \in DOMAIN params
                        /\ (\A j \in DOMAIN Headers(message) :
                               Headers(message)[j].is = h.is => j =< i)
                            => params[h.is] = h.val

(* A chunked message that breaks off is not mistaken for another one: if   *)
(* the parser accepts it, the bytes it has are the first of the body.      *)
CutBodyIsPrefix ==
    phase = "done" /\ message.chunked =>
        \A i \in DOMAIN payload :
            payload[i] = Garbage \/
                (i =< Len(Body(message)) /\ payload[i] = Body(message)[i])

(* Whatever arrives, reading comes to an end.                              *)
ParseEnds == <>(phase \in {"done", "thrown", "exited"})

(* utils/http.cpp:97 and :85, substr and exit: neither a message that      *)
(* breaks off nor another method ends the process.                         *)
NothingEndsTheProcess == phase \notin {"thrown", "exited"}

=============================================================================
