----------------------------- MODULE TextStream -----------------------------
(***************************************************************************)
(* DetokenizeManager: the tokens of each request arrive one by one and     *)
(* leave as increments of text, although a character may be spread over    *)
(* two tokens and the tokenizer strips the space of the first word it      *)
(* decodes.  The scheduler sends the tokens of a tick in one message, and  *)
(* the worker takes local_bs of them at a time.  A token is the pieces it  *)
(* decodes to; the halves h1, h2 of a character are bytes that only        *)
(* decode together.                                                        *)
(***************************************************************************)
EXTENDS Integers, Sequences, FiniteSets, SequencesExt, FiniteSetsExt

CONSTANTS
  StreamUids,
  Kinds,         \* bound: tokens in use
  MaxStreamed    \* bound: tokens sent, of all requests

VARIABLES
  queue,     \* messages of the scheduler not taken yet
  streamed,  \* how many tokens it has sent
  history,   \* the tokens of each request, as the scheduler has sent them
  closed,    \* requests whose last token was sent
  decodeMap, \* decode_map
  text       \* the increments each client got, joined

textVars == <<queue, streamed, history, closed, decodeMap, text>>

Pieces(token) ==
  CASE token = "word" -> <<" ", "w">>
    [] token = "torn" -> <<" ", "w", "h1">>
    [] token = "cut"  -> <<"H", "h1">>
    [] token = "rest" -> <<"h2">>
    [] token = "eos"  -> <<"</s>">>

\* decode: halves that meet are one character, others are replaced.
DecodeIds(ids) ==
  LET raw    == FlattenSeq([i \in DOMAIN ids |-> Pieces(ids[i])])
      at(i)  == IF i \in DOMAIN raw THEN raw[i] ELSE ""
      char(i) == CASE raw[i] = "h1" -> IF at(i + 1) = "h2" THEN <<"E">> ELSE <<"?">>
                   [] raw[i] = "h2" -> IF at(i - 1) = "h1" THEN <<>> ELSE <<"?">>
                   [] OTHER -> <<raw[i]>>
      chars  == FlattenSeq([i \in DOMAIN raw |-> char(i)])
  IN  IF chars /= <<>> /\ chars[1] = " " THEN Tail(chars) ELSE chars

EndsWith(chars, c) == chars /= <<>> /\ Last(chars) = c
IsChinese(c) == c = "H"

\* find_printable_text
Printable(chars) ==
  LET n == Len(chars)
      spaces == {i \in 1 .. n : chars[i] = " "}
  IN  IF n > 0 /\ (chars[n] = "\n" \/ IsChinese(chars[n])) THEN chars
      ELSE IF n > 1 /\ IsChinese(chars[n - 1]) THEN Front(chars)
      ELSE IF spaces = {} THEN <<>> ELSE SubSeq(chars, 1, Max(spaces))

NoStatus == [u \in {} |-> <<>>]
NewStatus == [ids |-> <<>>, str |-> <<>>, read |-> 0, surr |-> 0, sent |-> 0]

\* The EOS that finishes a request is not text.
Shown(msg) == ~(msg.finished /\ msg.token = "eos")

From(seq, n) == SubSeq(seq, n + 1, Len(seq))

FaultyAdvanced(s, added) ==
  [s EXCEPT !.str = @ \o added, !.surr = Len(s.ids), !.read = Len(s.ids)]

\* Text that ends in whole characters: the ids read so far become the context.
Advanced(s, added) ==
  [s EXCEPT !.str = @ \o added, !.surr = s.read, !.read = Len(s.ids)]

\* The second loop of detokenize, for a message whose ids were decoded
Emitted(s, readText, surrText) ==
  LET added == From(readText, Len(surrText))
      whole == Len(added) > 0 /\ ~EndsWith(added, "?")
      next  == IF whole THEN Advanced(s, added) ELSE s
      out   == IF whole THEN next.str ELSE s.str \o Printable(added)
  IN  [status |-> [next EXCEPT !.sent = Len(out)], text |-> From(out, s.sent)]

\* The first loop: append each token, and take both texts at that moment.
Collect(msgs) ==
  FoldLeft(LAMBDA acc, msg :
    LET old == IF msg.uid \in DOMAIN acc.map THEN acc.map[msg.uid] ELSE NewStatus
        s   == IF Shown(msg) THEN [old EXCEPT !.ids = Append(@, msg.token)] ELSE old
    IN  [map   |-> [u \in DOMAIN acc.map \union {msg.uid} |-> IF u = msg.uid THEN s ELSE acc.map[u]],
         texts |-> Append(acc.texts, [read |-> DecodeIds(From(s.ids, s.surr)),
                                      surr |-> DecodeIds(SubSeq(s.ids, s.surr + 1, s.read))])],
    [map |-> decodeMap, texts |-> <<>>], msgs)

\* detokenize
Detokenize(msgs) ==
  LET first == Collect(msgs)
      done  == FoldLeft(LAMBDA acc, i :
                 LET u == msgs[i].uid
                     e == Emitted(acc.map[u], first.texts[i].read, first.texts[i].surr)
                 IN  [map  |-> [v \in DOMAIN acc.map \ (IF msgs[i].finished THEN {u} ELSE {}) |->
                                 IF v = u THEN e.status ELSE acc.map[v]],
                      text |-> [acc.text EXCEPT ![u] = @ \o e.text]],
                 [map |-> first.map, text |-> text], [i \in DOMAIN msgs |-> i])
  IN  decodeMap' = done.map /\ text' = done.text

TextInit ==
  /\ queue = <<>> /\ streamed = 0 /\ closed = {}
  /\ history = [u \in StreamUids |-> <<>>] /\ text = [u \in StreamUids |-> <<>>]
  /\ decodeMap = NoStatus

\* A tick of the scheduler: one token of each request of a batch.  An EOS
\* finishes a request or is ignored; any token may be the last.
SendTokens ==
  /\ \E batch \in SUBSET (StreamUids \ closed) \ {{}} :
       /\ streamed + Cardinality(batch) <= MaxStreamed
       /\ streamed' = streamed + Cardinality(batch)
       /\ \E token \in [batch -> Kinds], last \in SUBSET batch :
            LET msg(u) == [uid |-> u, token |-> token[u], finished |-> u \in last]
            IN  /\ queue' = Append(queue, [i \in 1 .. Cardinality(batch) |-> msg(SetToSeq(batch)[i])])
                /\ history' = [u \in StreamUids |-> IF u \in batch /\ Shown(msg(u))
                                                    THEN Append(history[u], token[u]) ELSE history[u]]
                /\ closed' = closed \union last
  /\ UNCHANGED <<decodeMap, text>>

\* The launcher passes local_bs = 1, and a message of the scheduler is not empty.
Taken == 1

TakeTokens ==
  /\ queue /= <<>>
  /\ Detokenize(FlattenSeq(SubSeq(queue, 1, Taken)))
  /\ queue' = From(queue, Taken)
  /\ UNCHANGED <<streamed, history, closed>>

TextNext == SendTokens \/ TakeTokens

-----------------------------------------------------------------------------
(* The text of the tokens, without what follows the last whole character *)
Whole(ids) ==
  LET good == {i \in 0 .. Len(ids) : ~EndsWith(DecodeIds(SubSeq(ids, 1, i)), "?")}
  IN  DecodeIds(SubSeq(ids, 1, Max(good)))

(* The increments a client gets are never withdrawn or repeated: joined, they
   begin the text of all tokens, and once the tokens are in they lack at most
   the end that does not decode to whole characters. *)
TextFaithful ==
  queue = <<>> =>
    \A u \in StreamUids :
      /\ IsPrefix(text[u], DecodeIds(history[u]))
      /\ IsPrefix(Whole(history[u]), text[u])
=============================================================================
