----------------------------- MODULE Lz4Emit -----------------------------
(***************************************************************************)
(* What LZ4_compress_generic_validated promises its caller, whatever the   *)
(* matches it finds: the sequences it emits tile the source within the     *)
(* parsing restrictions, and no byte is written outside the destination.   *)
(* The search is abstracted to a choice of the next literals and of the    *)
(* next match length; Lz4Fast implements this module.                      *)
(***************************************************************************)
EXTENDS Lz4Format

CONSTANTS
    Sizes,          \* the input sizes a call may have
    Capacities,     \* the output capacities
    Lengths         \* the literal lengths and match codes the search may find

ASSUME SizesAssumption ==
    Sizes \subseteq Nat /\ Capacities \subseteq Nat /\ Lengths \subseteq Nat

VARIABLES
    n,              \* inputSize
    olimit,         \* room of the destination
    directive,      \* outputDirective
    anchor,         \* source position not yet encoded
    ip,             \* source position of the pending match, or 0
    token,          \* output position of the current token
    op,             \* output position
    top,            \* first output position never written so far
    at,             \* "seq", "match", "last", or "done"
    result          \* bytes of the block; 0 is failure

vars == <<n, olimit, directive, anchor, ip, token, op, top, at, result>>

Directives == {"notLimited", "limitedOutput", "fillOutput"}

\* A call without limit is made only with room for the worst case, a filling
\* one only with less.
Fits(size, room, dir) ==
    CASE dir = "notLimited"    -> room >= LZ4_compressBound(size)
      [] dir = "limitedOutput" -> TRUE
      [] dir = "fillOutput"    -> room >= 1

TypeOK ==
    /\ n \in Nat /\ olimit \in Nat /\ directive \in Directives
    /\ anchor \in Nat /\ ip \in Nat /\ token \in Nat /\ op \in Nat /\ top \in Nat
    /\ at \in {"seq", "match", "last", "done"}
    /\ result \in Nat

\* No call was made yet.
Init ==
    /\ n = 0 /\ olimit = 0 /\ directive = "limitedOutput"
    /\ anchor = 0 /\ ip = 0 /\ token = 0 /\ op = 0 /\ top = 0
    /\ at = "done" /\ result = 0

\* A call with a source that is not empty.
Call(size, room, dir) ==
    /\ at = "done"
    /\ size > 0 /\ Fits(size, room, dir)
    /\ n' = size /\ olimit' = room /\ directive' = dir
    /\ anchor' = 0 /\ ip' = 0 /\ token' = 0 /\ op' = 0 /\ top' = 0
    /\ at' = "seq" /\ result' = 0

\* The literals before a match are encoded and copied.
EncodeLiterals(lit) ==
    /\ at = "seq"
    /\ anchor + lit + MFLIMIT <= n
    /\ token' = op
    /\ \/ /\ directive = "fillOutput" /\ LiteralsFill(op, lit, olimit)
          /\ ip' = 0 /\ at' = "last"
          /\ UNCHANGED <<op, top>>
       \/ /\ directive = "limitedOutput" => ~LiteralsOverflow(op, lit, olimit)
          /\ directive = "fillOutput" => ~LiteralsFill(op, lit, olimit)
          /\ op' = AfterLiterals(op, lit)
          /\ top' = Higher(top, TopOfLiterals(op, lit))
          /\ ip' = anchor + lit /\ at' = "match"
    /\ UNCHANGED <<n, olimit, directive, anchor, result>>

\* A match that follows another one has a token and no literals.
NextMatch ==
    /\ at = "seq" /\ anchor > 0
    /\ anchor + MFLIMIT <= n
    /\ ip' = anchor /\ token' = op /\ op' = op + 1 /\ top' = Higher(top, op + 1)
    /\ at' = "match"
    /\ UNCHANGED <<n, olimit, directive, anchor, result>>

\* The offset, then the match length, shortened when the output is full.
EncodeMatch(matchCode) ==
    /\ at = "match"
    /\ ip + MINMATCH + matchCode + LASTLITERALS <= n
    /\ IF directive = "fillOutput" /\ OffsetFills(op, olimit)
       THEN /\ op' = token /\ at' = "last"
            /\ UNCHANGED <<anchor, top>>
       ELSE LET oo   == op + 2
                full == directive # "notLimited" /\ MatchOverflow(oo, matchCode, olimit)
                code == IF full THEN ReducedMatchCode(oo, olimit) ELSE matchCode
            IN  /\ full => directive = "fillOutput"
                /\ op' = AfterMatch(oo, code)
                /\ top' = Higher(top, Higher(op', TopOfMatch(oo, code)))
                /\ anchor' = ip + MINMATCH + code
                /\ at' = "seq"
    /\ ip' = 0
    /\ UNCHANGED <<n, olimit, directive, token, result>>

\* No more matches: the rest of the source, or what fits, as literals.
LastLiterals ==
    /\ at \in {"seq", "last"}
    /\ LET rest == n - anchor
           full == directive # "notLimited" /\ LastOverflow(op, rest, olimit)
           lastRun == IF full THEN FilledLastRun(op, olimit) ELSE rest
       IN  /\ full => directive = "fillOutput"
           /\ op' = AfterLast(op, lastRun)
           /\ anchor' = anchor + lastRun
    /\ top' = Higher(top, op')
    /\ result' = op'
    /\ at' = "done"
    /\ UNCHANGED <<n, olimit, directive, ip, token>>

\* A limited call may give up before any sequence.
Fail ==
    /\ at # "done" /\ directive = "limitedOutput"
    /\ at' = "done" /\ result' = 0 /\ ip' = 0
    /\ UNCHANGED <<n, olimit, directive, anchor, token, op, top>>

Next ==
    \/ \E size \in Sizes, room \in Capacities, dir \in Directives : Call(size, room, dir)
    \/ \E lit \in Lengths : EncodeLiterals(lit)
    \/ NextMatch
    \/ \E matchCode \in Lengths : EncodeMatch(matchCode)
    \/ LastLiterals
    \/ Fail

Spec == Init /\ [][Next]_vars

-----------------------------------------------------------------------------

(* No byte is written behind the destination: not by the copy that runs in *)
(* steps of eight, not by the length bytes that are written four at a time,*)
(* and not in an unchecked call whose room is LZ4_compressBound.           *)
WritesInBounds == top <= olimit

(* A finished block covers the source exactly, or exactly the consumed part*)
(* that fits when the caller asked to fill the output.                     *)
SourceCovered ==
    at = "done" /\ result > 0 =>
        /\ anchor <= n
        /\ directive # "fillOutput" => anchor = n
        /\ result <= olimit
=============================================================================
