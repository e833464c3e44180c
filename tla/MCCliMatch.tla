------------------------------ MODULE MCCliMatch ------------------------------
(***************************************************************************)
(* CliMatch on the characters at which numbers meet their limits.           *)
(***************************************************************************)
EXTENDS CliMatch, TLC

Values == "0" :> 0 @@ "1" :> 1 @@ "2" :> 2 @@ "3" :> 3 @@ "5" :> 5 @@ "6" :> 6

MCValue(c) == IF c \in DOMAIN Values THEN Values[c] ELSE 16
MCHex(c)   == c \in DOMAIN Values \cup {"a", "f"}

MCKinds == {"Range", "IPv4Address", "IPv4Prefix", "IPv6Address", "IPv6Prefix", "Community"}

\* Octets around 255 and lengths around 32; groups of IPv6 addresses; numbers.
MCChars ==
  "IPv4Address" :> {"2", "3", "5", "6", "."} @@ "IPv4Prefix" :> {"2", "3", "5", "6", ".", "/"} @@
  "IPv6Address" :> {"1", "a", ":", "/"} @@ "IPv6Prefix" :> {"1", "a", ":", "/"} @@
  "Community" :> {"1", "5", "6", ":"} @@ "Range" :> {"1", "5", "6", "-"}

MCMaxWord ==
  [k \in MCKinds |-> CASE k \in {"IPv4Address", "IPv4Prefix"} -> 10
                      [] k \in {"IPv6Address", "IPv6Prefix"} -> 11
                      [] OTHER -> 7]
===============================================================================
