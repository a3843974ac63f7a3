-------------------------------- MODULE Resp --------------------------------
(***************************************************************************)
(* Commands on the wire and in the AOF (core/resp.go): an array of bulk    *)
(* strings.  The bytes are grouped into symbols, so that a cut anywhere    *)
(* inside a symbol has the effect of one before or behind it:              *)
(*   <<"*", n>>    an asterisk and the digits of n                         *)
(*   <<"$", n>>    a dollar sign and the digits of the length, which is    *)
(*                 told apart only as 0 or more                            *)
(*   <<"s", t>>    the bytes of the string t                               *)
(*   CRLF                                                                  *)
(***************************************************************************)
EXTENDS Integers, SequencesExt

CONSTANT EmptyString

CRLF == <<"crlf", 0>>

(* Encode, of a []string.                                                  *)
Encode(tokens) ==
    << <<"*", Len(tokens)>>, CRLF >> \o
    FlattenSeq([i \in DOMAIN tokens |->
        << <<"$", IF tokens[i] = EmptyString THEN 0 ELSE 1>>, CRLF, <<"s", tokens[i]>>, CRLF >>])

EncodeAll(cmds) == FlattenSeq([i \in DOMAIN cmds |-> Encode(cmds[i])])

Outcome(kind, cmds) == [kind |-> kind, cmds |-> cmds]

(* The string that should be at p: its length has been read, and so have   *)
(* its bytes, if it has any.                                               *)
Readable(f, p) == Len(f) >= p \/ (Len(f) = p - 1 /\ f[p - 2] = <<"$", 0>>)
StringAt(f, p) == IF p <= Len(f) THEN f[p][2] ELSE EmptyString

(* Fault: a command is taken for whole when its last string has begun.     *)
WholeShort(f, i) == \A j \in 1..(f[i][2] - 1) : Readable(f, i + 4 * j)

(* The command that begins at i: whether all of it is there, what it says, *)
(* and where the next one begins.                                          *)
WholeAt(f, i) == \A j \in 1..f[i][2] : Readable(f, i + 4 * j)
CommandAt(f, i) == [j \in 1..f[i][2] |-> StringAt(f, i + 4 * j)]
NextAt(f, i) == Min({i + 2 + 4 * f[i][2], Len(f) + 1})

(* DecodeCommands, of bytes with nothing behind them: where a command      *)
(* begins there must be an asterisk; a string that is not there to its end *)
(* is an index out of range; the CRLF at the very end is skipped unseen.   *)
Decode(f) ==
    LET at[i \in 1..(Len(f) + 1)] ==
            IF i = Len(f) + 1 THEN Outcome("ok", <<>>)
            ELSE IF f[i][1] # "*" THEN Outcome("error", <<>>)
            ELSE IF ~WholeAt(f, i) THEN Outcome("panic", <<>>)
            ELSE LET rest == at[NextAt(f, i)] IN
                 Outcome(rest.kind, <<CommandAt(f, i)>> \o rest.cmds) IN
    at[1]
=============================================================================
