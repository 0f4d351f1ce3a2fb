--------------------------- MODULE StreamProtocol ---------------------------
(***************************************************************************)
(* What the walsender sends of transactions that are too large to be kept  *)
(* until they commit: blocks of changes between STREAM START and STREAM    *)
(* STOP, one transaction at a time, and between the blocks the aborts of   *)
(* subtransactions and the ends of the transactions (reorderbuffer.c,      *)
(* decode.c, pgoutput.c).  A transaction that is not streamed is a single  *)
(* message here; ApplyWorker has its handlers.                             *)
(*                                                                         *)
(* Decoding is sequential, so the next message is chosen once the previous *)
(* ones have been handled; nothing the subscriber does depends on when the *)
(* publisher sent them.                                                    *)
(***************************************************************************)
EXTENDS Integers, Sequences

CONSTANTS Xid,      \* top-level transactions
          Shapes    \* bound: what the transactions may come to, one of these

ASSUME StreamAssumption == Shapes \subseteq [Xid -> [changes : Nat, subs : Nat, blocks : Nat]]

VARIABLES phase,    \* phase[x]: "new", "open", or how it ended
          nest,     \* nest[x]: the top level (0) and the subtransactions in progress,
                    \* each followed by the ones released into it
          subs,     \* subs[x]: how many subtransactions x has had
          dead,     \* dead[x]: the subtransactions rolled back
          log,      \* log[x]: the subtransaction of each change streamed so far
          blocks,   \* blocks[x]: how many blocks x has had
          block,    \* the transaction a block is open for
          outbox    \* messages the subscriber has not handled

publisherVars == <<phase, nest, subs, dead, log, blocks, block>>
streamVars == <<publisherVars, outbox>>

Kind == {"first", "start", "change", "stop", "abortSub", "abort", "commit", "prepare", "plain"}

(* sub is 0 for the top level; n numbers the changes of a transaction.     *)
Msg(k, x, s, n) == [kind |-> k, xid |-> x, sub |-> s, n |-> n]

StreamInit ==
    /\ phase = [x \in Xid |-> "new"]
    /\ nest = [x \in Xid |-> <<<<0>>>>]
    /\ subs = [x \in Xid |-> 0]
    /\ dead = [x \in Xid |-> {}]
    /\ log = [x \in Xid |-> <<>>]
    /\ blocks = [x \in Xid |-> 0]
    /\ block = {}
    /\ outbox = <<>>

Sends(msgs) == outbox = <<>> /\ outbox' = msgs

InShape ==
    \E s \in Shapes : \A x \in Xid :
        Len(log'[x]) <= s[x].changes /\ subs'[x] <= s[x].subs /\ blocks'[x] <= s[x].blocks

-----------------------------------------------------------------------------

(* ReorderBufferStreamTXN() opens a block.                                 *)
StreamStart(x) ==
    /\ block = {}
    /\ phase[x] \in {"new", "open"}
    /\ Sends(<<Msg(IF phase[x] = "new" THEN "first" ELSE "start", x, 0, 0)>>)
    /\ phase' = [phase EXCEPT ![x] = "open"]
    /\ blocks' = [blocks EXCEPT ![x] = @ + 1]
    /\ block' = {x}
    /\ UNCHANGED <<nest, subs, dead, log>>
    /\ InShape

(* The subtransaction x is in, with the ones released into it.             *)
Innermost(x) == nest[x][Len(nest[x])]

Current(x) == Head(Innermost(x))

StreamChange(x) ==
    /\ x \in block
    /\ Sends(<<Msg("change", x, Current(x), Len(log[x]) + 1)>>)
    /\ log' = [log EXCEPT ![x] = Append(@, Current(x))]
    /\ UNCHANGED <<phase, nest, subs, dead, blocks, block>>
    /\ InShape

StreamStop(x) ==
    /\ x \in block
    /\ Sends(<<Msg("stop", x, 0, 0)>>)
    /\ block' = {}
    /\ UNCHANGED <<phase, nest, subs, dead, log, blocks>>

Savepoint(x) ==
    /\ phase[x] = "open" /\ outbox = <<>>
    /\ nest' = [nest EXCEPT ![x] = Append(@, <<subs[x] + 1>>)]
    /\ subs' = [subs EXCEPT ![x] = @ + 1]
    /\ UNCHANGED <<phase, dead, log, blocks, block, outbox>>
    /\ InShape

(* RELEASE: the subtransaction's fate is its parent's from now on.         *)
Release(x) ==
    /\ phase[x] = "open" /\ outbox = <<>>
    /\ Len(nest[x]) > 1
    /\ nest' = [nest EXCEPT ![x] = Append(SubSeq(@, 1, Len(@) - 2), @[Len(@) - 1] \o @[Len(@)])]
    /\ UNCHANGED <<phase, subs, dead, log, blocks, block, outbox>>

(* DecodeAbort() tells the subscriber of the released subtransactions      *)
(* first, and of the one that aborts last.                                 *)
AbortMsgs(x, last) ==
    LET gone == Innermost(x)
    IN  Append([i \in 1..Len(gone) - 1 |-> Msg("abortSub", x, gone[i + 1], 0)], last)

Rollback(x) ==
    /\ phase[x] = "open" /\ block = {}
    /\ Len(nest[x]) > 1
    /\ Sends(AbortMsgs(x, Msg("abortSub", x, Current(x), 0)))
    /\ dead' = [dead EXCEPT ![x] = @ \cup {Innermost(x)[i] : i \in 1..Len(Innermost(x))}]
    /\ nest' = [nest EXCEPT ![x] = SubSeq(@, 1, Len(@) - 1)]
    /\ UNCHANGED <<phase, subs, log, blocks, block>>

(* The transaction commits, prepares, or aborts, its savepoints done.      *)
StreamEnd(x, how) ==
    /\ phase[x] = "open" /\ block = {}
    /\ Len(nest[x]) = 1
    /\ Sends(IF how = "abort" THEN AbortMsgs(x, Msg("abort", x, 0, 0))
                              ELSE <<Msg(how, x, 0, 0)>>)
    /\ phase' = [phase EXCEPT ![x] = how]
    /\ UNCHANGED <<nest, subs, dead, log, blocks, block>>

(* BEGIN, a change and COMMIT of a transaction that fitted in memory.      *)
Plain(x) ==
    /\ phase[x] = "new" /\ block = {}
    /\ Sends(<<Msg("plain", x, 0, 1)>>)
    /\ phase' = [phase EXCEPT ![x] = "commit"]
    /\ log' = [log EXCEPT ![x] = <<0>>]
    /\ UNCHANGED <<nest, subs, dead, blocks, block>>

StreamNext ==
    \E x \in Xid :
        \/ StreamStart(x) \/ StreamChange(x) \/ StreamStop(x)
        \/ Savepoint(x) \/ Release(x) \/ Rollback(x) \/ Plain(x)
        \/ \E how \in {"commit", "prepare", "abort"} : StreamEnd(x, how)

-----------------------------------------------------------------------------

(* The changes of x streamed so far that have not been rolled back.        *)
Alive(x) == {Msg("change", x, log[x][n], n) :
                n \in {k \in 1..Len(log[x]) : log[x][k] \notin dead[x]}}
=============================================================================
