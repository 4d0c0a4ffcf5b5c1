--------------------------- MODULE MCOutputRecovery ---------------------------
(* Instances of OutputRecovery for TLC: texts with each character that could  *)
(* mislead a scanner of JSON, comments that share a key, and one the schema   *)
(* refuses.                                                                   *)
EXTENDS OutputRecovery

Members(message) == << "{" >> \o Key("message") \o Str(message) \o << "," >>
Evidence == Key("evidence") \o << "[" >> \o Str(<< "]" >>) \o << "]", "}" >>

Finding(key, valid, message) == [key |-> key, valid |-> valid, text |-> Members(message) \o Evidence]

MCFindings ==
  { Finding(1, TRUE, << "x" >>), Finding(1, TRUE, << "}", "quote" >>),
    Finding(2, TRUE, << "fence", "x", "fence" >>), Finding(3, FALSE, << "esc" >>) }

MCSummaries ==
  { << >>, << "esc" >>, << "{", "quote", "reviews", "quote", ":", "[" >>,
    << "fence", "quote", "summary", "quote" >> }

\* A member whose value has a comment of its own.
MCExtras ==
  { << >>,
    Key("other") \o << "{" >> \o Key("reviews") \o << "[" >> \o Finding(1, TRUE, << "x" >>).text
      \o << "]", "}", "," >> }
=============================================================================
