---------------------------- MODULE CandidateSet ----------------------------
(***************************************************************************)
(* What a series of scans promises its caller: a set of addresses, each    *)
(* with the value it had at the last scan, that every further scan only    *)
(* narrows, and only to addresses whose new value answers the query.       *)
(***************************************************************************)
EXTENDS Criteria

CONSTANTS
  Addresses,  (* Addresses of the target.                                  *)
  Values,     (* What an element can hold.                                 *)
  Queries     (* [type, elem, raw1, raw2]                                  *)

VARIABLES
  found,    (* The candidates: a function from addresses to values.        *)
  blind,    (* Were they taken without a look at their values?             *)
  started,  (* Was there a first scan?                                     *)
  query     (* << >>, or the query that is being answered.                 *)

Nothing == << >>

Init == found = Nothing /\ blind = FALSE /\ started = FALSE /\ query = << >>

Ask ==
  /\ query = << >>
  /\ query' \in {<<q>> : q \in Queries}
  /\ UNCHANGED <<found, blind, started>>

(* A scan that fails leaves no trace.                                      *)
Abandon ==
  /\ query' = << >>
  /\ UNCHANGED <<found, blind, started>>

First ==
  /\ ~ started
  /\ query # << >>
  /\ started' = TRUE
  /\ DOMAIN found' \subseteq Addresses
  /\ found' \in [DOMAIN found' -> Values]
  /\ blind' = (query[1].type = "unknown_value" /\ found' # Nothing)
  /\ ~ blind' => \A a \in DOMAIN found' : Meets(query[1], found'[a], query[1].raw1)
  /\ query' = << >>

(* What the new value of address a is compared with.                       *)
Reference(a) ==
  IF blind \/ query[1].type \in Relative THEN found[a] ELSE query[1].raw1

Narrow ==
  /\ started
  /\ query # << >>
  /\ DOMAIN found' \subseteq DOMAIN found
  /\ \A a \in DOMAIN found' : Meets(query[1], found'[a], Reference(a))
  /\ blind' = FALSE
  /\ query' = << >>
  /\ UNCHANGED started

Next == Ask \/ Abandon \/ First \/ Narrow

Spec == Init /\ [][Next]_<<found, blind, started, query>>

=============================================================================
