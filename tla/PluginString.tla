----------------------------- MODULE PluginString -----------------------------
(***************************************************************************)
(* plugin_string.rs: how the host reads a C string of a plugin.            *)
(*                                                                         *)
(* A C string is Null or the bytes before its terminator.  Of a byte only  *)
(* its part in UTF-8 matters: a character of its own (ascii, with the dots  *)
(* and upper-case letters an extension is normalized of), the lead of a    *)
(* character of two or three, a continuation, or never valid.  Text is     *)
(* bytes too; "fffd" stands for the three of the replacement character.    *)
(***************************************************************************)
EXTENDS Integers, Sequences, SequencesExt

Null == <<"null">>
Ascii == {"ascii", "dot", "upper"}
Bytes == Ascii \cup {"lead2", "lead3", "cont", "bad"}

(* Bytes of the character a byte leads; 0 when it leads none. *)
CharLen(b) ==
  CASE b \in Ascii -> 1 [] b = "lead2" -> 2 [] b = "lead3" -> 3 [] OTHER -> 0

(* Continuations the character at i has, as far as it needs them. *)
Following(s, i) ==
  LET n == CharLen(s[i]) - 1
      Continued(k) == \A j \in 1..k : i + j \in DOMAIN s /\ s[i + j] = "cont"
  IN  CHOOSE k \in 0..n : Continued(k) /\ (k < n => ~Continued(k + 1))

WholeAt(s, i) == CharLen(s[i]) > 0 /\ Following(s, i) = CharLen(s[i]) - 1

(* The first n bytes are whole characters: every lead has what it needs, and
   every other byte is needed. *)
Whole(s, n) ==
  \A i \in 1..n :
    IF CharLen(s[i]) > 0
    THEN i + CharLen(s[i]) - 1 <= n /\ \A j \in 1..(CharLen(s[i]) - 1) : s[i + j] = "cont"
    ELSE \E j \in 1..(i - 1) : i < j + CharLen(s[j])

IsUtf8(s) == Whole(s, Len(s))

(* Utf8Error::valid_up_to: the bytes before the first character not whole. *)
ValidUpTo(s) == Max({n \in 0..Len(s) : Whole(s, n)})

(* Bytes of the character that is not whole, up to the first that cannot be
   part of it. *)
BrokenLen(s) ==
  LET i == ValidUpTo(s) + 1
  IN  IF CharLen(s[i]) = 0 THEN 1 ELSE 1 + Following(s, i)

(* Utf8Error::error_len is None: the bytes end in the middle of a character. *)
EndsInside(s) ==
  LET i == ValidUpTo(s) + 1
  IN  CharLen(s[i]) > 0 /\ i + Following(s, i) = Len(s)

(* bounded_bytes, once its scan is over. *)
bounded_bytes(value, limit) ==
  IF value = Null THEN [kind |-> "Null", bytes |-> <<>>]
  ELSE IF Len(value) <= limit THEN [kind |-> "Bytes", bytes |-> value]
  ELSE [kind |-> "LimitExceeded", bytes |-> SubSeq(value, 1, limit)]

-----------------------------------------------------------------------------
(* lossy_with_limit, as a loop on the text so far and the bytes to go. *)

Replacement == "fffd"
Count(S, n) == Cardinality(S \cap 1..n)
TextLen(text) == Len(text) + 2 * Count({i \in DOMAIN text : text[i] = Replacement}, Len(text))

(* push_valid: as many whole characters of valid text as there is room for. *)
push_valid(valid, room) ==
  SubSeq(valid, 1, Max({n \in 0..Len(valid) : n <= room /\ Whole(valid, n)}))

More(st, limit) == st.rest # <<>> /\ TextLen(st.text) < limit

(* Of the bytes to go n are valid and `pushed` found room; a replacement stands
   for the `broken` behind them.  `break` leaves no bytes to go. *)
LossyRound(st, limit, n, pushed, broken) ==
  LET text == st.text \o pushed
  IN  IF n = Len(st.rest) \/ Len(pushed) < n \/ TextLen(text) + 3 > limit
      THEN [text |-> text, rest |-> <<>>]
      ELSE [text |-> Append(text, Replacement),
            rest |-> SubSeq(st.rest, n + broken + 1, Len(st.rest))]

Pushed(st, limit) ==
  push_valid(SubSeq(st.rest, 1, ValidUpTo(st.rest)), limit - TextLen(st.text))

(* Fault: the bytes the replacement stands for are not skipped as one. *)
SkipOne(st, limit) ==
  LossyRound(st, limit, ValidUpTo(st.rest), Pushed(st, limit), 1)

(* One round: the valid bytes up front, and a replacement for what follows. *)
LossyStep(st, limit) ==
  LossyRound(st, limit, ValidUpTo(st.rest), Pushed(st, limit), BrokenLen(st.rest))

(* A round uses up at least one byte. *)
lossy_with_limit(bytes, limit) ==
  LET After[n \in 0..Len(bytes)] ==
        IF n = 0 THEN [text |-> <<>>, rest |-> bytes]
        ELSE LET st == After[n - 1]
             IN  IF More(st, limit) THEN LossyStep(st, limit) ELSE st
  IN  IF IsUtf8(bytes) THEN bytes ELSE After[Len(bytes)].text

(* plugin_str: text, nothing, or a refusal. *)
Refused == <<"over the limit">>

plugin_str(value, limit) ==
  LET read == bounded_bytes(value, limit)
  IN  CASE read.kind = "Null" -> Null
        [] read.kind = "Bytes" -> lossy_with_limit(read.bytes, limit)
        [] OTHER -> Refused

(* service/metadata.rs reads its strings in its own way: too long a one is cut
   and kept. *)

(* Fault: the part of a character the cut left behind is decoded too. *)
KeepPartial(bytes) == bytes

(* decode, before it looks for errors: a cut inside a character drops it. *)
TrimPartial(bytes) ==
  IF ~IsUtf8(bytes) /\ EndsInside(bytes) THEN SubSeq(bytes, 1, ValidUpTo(bytes)) ELSE bytes

(* decode: MetadataText, and what it has to report. *)
DecodedBytes(bytes, limit, truncated) ==
  [text |-> lossy_with_limit(bytes, limit),
   raw |-> IF IsUtf8(bytes) THEN Null ELSE bytes,
   truncated |-> truncated,
   invalid |-> ~IsUtf8(bytes)]

decode(value, limit) ==
  LET read == bounded_bytes(value, limit)
      truncated == read.kind = "LimitExceeded"
  IN  DecodedBytes(IF truncated THEN TrimPartial(read.bytes) ELSE read.bytes,
                   limit, truncated)
=============================================================================
