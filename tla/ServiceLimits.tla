---------------------------- MODULE ServiceLimits ----------------------------
(***************************************************************************)
(* The limits the services put on what a plugin sends, by the names of the *)
(* constants of service/*.rs and of log_shim.c.                            *)
(***************************************************************************)
EXTENDS PluginString

CONSTANTS
  Limit,   \* each limit
  Strings, \* what a plugin may send as a string: Null or bytes
  Read,    \* what plugin_str makes of a string under a limit
  Decoded  \* what the decode of the metadata service makes of it

StringLimits ==
  {"url", "tag_key", "tag_value", "name",                      \* metadata.rs
   "reg_id", "setting_id", "label", "description", "setting_value",
   "extension",                                                \* settings.rs
   "io_url",                                                   \* io.rs
   "log_file", "log_message"}                                  \* log.rs

CountLimits ==
  {"tags", "subsongs", "names", "settings", "choices",
   "io_data",                     \* bytes of a file
   "log_format"}                  \* bytes of a format, log_shim.c

ASSUME LimitAssumption ==
  /\ Limit \in [StringLimits \cup CountLimits -> Nat]
  /\ \A l \in StringLimits : Limit[l] >= 3
  /\ \A l \in CountLimits : Limit[l] >= 1

ASSUME ReadAssumption ==
  /\ Strings \subseteq {Null} \cup Seq(Bytes)
  /\ \A s \in Strings, l \in StringLimits :
       Read[s, l] = plugin_str(s, Limit[l]) /\ Decoded[s, l] = decode(s, Limit[l])

(* What a loop that passes some entries over keeps: the elements of s at the
   places in S, in order.  (SelectSeq, without its recursion.) *)
At(S, k) == CHOOSE i \in S : Count(S, i) = k
Selected(s, S) == [k \in 1..Cardinality(S) |-> s[At(S, k)]]
Filtered(s, Keeps(_)) == Selected(s, {i \in DOMAIN s : Keeps(s[i])})
=============================================================================
