--------------------------- MODULE PluginStringRead ---------------------------
(***************************************************************************)
(* One read of a plugin's string, byte by byte and round by round, as      *)
(* plugin_str does it or as decode of service/metadata.rs does.            *)
(***************************************************************************)
EXTENDS PluginString

CONSTANTS
  MaxLen,  \* bound: bytes of the string before its terminator
  Limits   \* limits it is read with; every one has room for a replacement

ASSUME PluginStringAssumption ==
  /\ MaxLen \in Nat
  /\ Limits \subseteq Nat \ {0, 1, 2}

VARIABLES
  value,    \* the plugin's string
  limit,
  reader,   \* "plugin_str" or "decode"
  pc,       \* "scan", "read", "lossy" or "done"
  scanned,  \* bytes of its memory read so far
  st,       \* the text so far and the bytes to go
  result    \* text, Null, Refused; the raw bytes and flags of a decode

vars == <<value, limit, reader, pc, scanned, st, result>>
input == <<value, limit, reader>>

(* Its memory: the bytes, and a terminator behind them. *)
Terminator(i) == i = Len(value) + 1

Nothing == [text |-> Null, raw |-> Null, truncated |-> FALSE, invalid |-> FALSE]

Init ==
  /\ value \in {Null} \cup BoundedSeq(Bytes \ {"dot", "upper"}, MaxLen)
  /\ limit \in Limits
  /\ reader \in {"plugin_str", "decode"}
  /\ pc = IF value = Null THEN "read" ELSE "scan"
  /\ scanned = 0
  /\ st = [text |-> <<>>, rest |-> <<>>]
  /\ result = Nothing

(* Fault: the scan goes on while the limit allows, terminator or not. *)
ScanAll == scanned = limit + 1

(* bounded_bytes leaves its loop: at the terminator, or behind the byte that
   admits a string of exactly `limit` bytes. *)
ScanOver == Terminator(scanned) \/ scanned = limit + 1

ScanByte ==
  /\ pc = "scan"
  /\ ~ScanOver
  /\ scanned' = scanned + 1
  /\ UNCHANGED <<input, pc, st, result>>

(* What bounded_bytes returned is valid as it is, refused, or goes into the
   loop.  Only decode keeps what a limit cut. *)
Read ==
  /\ \/ pc = "read"
     \/ pc = "scan" /\ ScanOver
  /\ LET read == bounded_bytes(value, limit)
         cut == read.kind = "LimitExceeded"
         bytes == IF cut THEN TrimPartial(read.bytes) ELSE read.bytes
         Returns(text) ==
           /\ pc' = "done"
           /\ result' = [Nothing EXCEPT !.text = text, !.truncated = cut]
           /\ UNCHANGED st
     IN  IF reader = "plugin_str" /\ read.kind # "Bytes"
         THEN Returns(IF read.kind = "Null" THEN Null ELSE Refused)
         ELSE IF IsUtf8(bytes) THEN Returns(bytes)
         ELSE /\ pc' = "lossy"
              /\ st' = [text |-> <<>>, rest |-> bytes]
              /\ result' = [Nothing EXCEPT !.truncated = cut, !.invalid = TRUE,
                                           !.raw = bytes]
  /\ UNCHANGED <<input, scanned>>

Round ==
  /\ pc = "lossy"
  /\ More(st, limit)
  /\ st' = LossyStep(st, limit)
  /\ UNCHANGED <<input, pc, scanned, result>>

Finish ==
  /\ pc = "lossy"
  /\ ~More(st, limit)
  /\ pc' = "done"
  /\ result' = [result EXCEPT !.text = st.text]
  /\ UNCHANGED <<input, scanned, st>>

Next == ScanByte \/ Read \/ Round \/ Finish

Spec == Init /\ [][Next]_vars

-----------------------------------------------------------------------------
(* The reference: every byte belongs to the character some lead before it
   started, or starts a character or a broken one itself. *)
Starts(s) ==
  {i \in DOMAIN s : \A j \in 1..(i - 1) : CharLen(s[j]) = 0 \/ j + Following(s, j) < i}

(* Those no whole character starts at: each becomes a replacement. *)
Broken(s) == {i \in Starts(s) : ~WholeAt(s, i)}

(* Bytes there is text for: whole characters, and the first of a broken one. *)
Kept(s) ==
  Starts(s) \cup {i \in DOMAIN s : \E j \in 1..i : WholeAt(s, j) /\ i <= j + Following(s, j)}

(* The text of the first n bytes, and how long it is. *)
Place(s, i) == Count(Kept(s), i)
IsText(text, s, n) ==
  /\ Len(text) = Place(s, n)
  /\ \A i \in Kept(s) \cap 1..n :
       text[Place(s, i)] = IF i \in Broken(s) THEN Replacement ELSE s[i]
SizeOf(s, n) == Place(s, n) + 2 * Count(Broken(s), n)

(* Where a piece ends and the next one starts. *)
Ends(s) == {n \in 0..Len(s) : n = Len(s) \/ n + 1 \in Starts(s)}

(* The longest text of whole pieces that fits. *)
IsLongestText(text, s, room) ==
  IsText(text, s, Max({n \in Ends(s) : SizeOf(s, n) <= room}))

(* The scan reads no byte of the plugin's memory behind the terminator, and
   none behind the one byte past the limit (bounded_bytes). *)
ReadsOnlyItsString ==
  value # Null => scanned <= Len(value) + 1 /\ scanned <= limit + 1

(* A string within the limit becomes the longest text of whole characters and
   replacements that fits, one replacement for each maximal broken piece, and
   one over the limit is refused or kept up to the cut: whatever bytes are in
   it and wherever the replacements push the end (lossy_with_limit, push_valid). *)
TextIsLongest ==
  pc = "done" /\ value # Null =>
    IF Len(value) <= limit THEN IsLongestText(result.text, value, limit)
    ELSE IF reader = "plugin_str" THEN result.text = Refused
    ELSE \E n \in (limit - 2)..limit : IsLongestText(result.text, SubSeq(value, 1, n), limit)

(* The cap of a cut never makes a string invalid: of good UTF-8 decode keeps the
   whole characters before it, without raw bytes beside them, and what it says
   it cut is what was over the limit. *)
CutIsNotInvalid ==
  pc = "done" /\ reader = "decode" /\ value # Null =>
    /\ result.truncated <=> Len(value) > limit
    /\ IsUtf8(value) => /\ ~result.invalid /\ result.raw = Null
                        /\ IsLongestText(result.text, value, limit)
=============================================================================
