------------------------- MODULE HttpRequest_proofs -------------------------
(***************************************************************************)
(* That the replay controller bounds what an item sends, whatever limit,    *)
(* server, file system and host.  The count travels by value from command   *)
(* to command, so the bound is about the command at the top of the stack:   *)
(* what has been sent is no more than its count says, one more once it has  *)
(* sent its own request, and one less while it is the request that the auth *)
(* handler of the command below wants first, which that command has counted *)
(* for itself already.                                                      *)
(*                                                                          *)
(* From the same invariant: once the host was told of the start of a        *)
(* response nothing more is sent, since what is left on the stack waits     *)
(* only for replays that are over.                                          *)
(*                                                                          *)
(* The second half is about what is sent: a stack of commands, each with a  *)
(* request whose files are opened once and again for a replay, and with an  *)
(* auth in which the parameters that the user wrote stay as they are.       *)
(*                                                                          *)
(* The last part is about credentials: what the handlers of all types add   *)
(* to a request and, for those that replay, what pre and post do to the     *)
(* auth of the item.  The actions are first sorted by what they mean for    *)
(* credentials (Loads to Returns); of an item whose handler replays all     *)
(* that matters is then the command at the top (Advances).                  *)
(***************************************************************************)
EXTENDS HttpRequest, TLAPS

Fields == { "stage", "at", "count", "originalItem", "home", "type", "auth", "request",
            "replay", "aborted", "failed" }

(* The item is not one whose auth handler authorizes what it sends first:   *)
(* the requests of such an item are a tree, and TLC checks their number.    *)
IsChain == template.type # "custom" \/ ~template.inherits

(* One command of the stack; only a command with a handler has others run.  *)
IsCommand(c) ==
    /\ DOMAIN c = Fields
    /\ c.count \in 0 .. MaxReplay
    /\ c.type \in {template.type, "none"}
    /\ c.type = "none" => c.stage \notin {"intermediate", "replaying"}
    /\ c.stage = "intermediate" => c.type = "custom"
    /\ c.replay => c.type # "none"

(* The stack: all commands but the last wait for the one above them, and    *)
(* what a handler sends first has no handler.                               *)
IsStack(s) ==
    /\ \E S : s \in Seq(S)
    /\ \A k \in 1 .. Len(s) : IsCommand(s[k])
    /\ \A k \in 1 .. Len(s) - 1 : s[k].stage \in {"intermediate", "replaying"}
    /\ \A k \in 1 .. Len(s) - 1 : s[k].stage = "intermediate" =>
            s[k + 1].type = "none" /\ s[k + 1].count = s[k].count

LastOf(s) == s[Len(s)]
First(s) == Len(s) > 1 /\ s[Len(s) - 1].stage = "intermediate"

HasSent == {"sent", "started", "done"}

Limit(s) ==
    IF s = << >> \/ (LastOf(s).stage = "done" /\ ~First(s)) THEN MaxReplay + 1
    ELSE LastOf(s).count + (IF LastOf(s).stage \in HasSent THEN 1 ELSE 0)
                         - (IF First(s) THEN 1 ELSE 0)

ChainInv ==
    /\ IsChain
    /\ IsStack(stack)
    /\ sent \in Nat
    /\ sent <= Limit(stack)

(***************************************************************************)
(* The three ways in which a step changes the stack                         *)
(***************************************************************************)
(* What replacing the last element of a sequence does to it.                *)
LEMMA LastSet ==
    ASSUME NEW S, NEW s \in Seq(S), s # << >>, NEW c
    PROVE  LET t == [s EXCEPT ![Len(s)] = c]
           IN  /\ t \in Seq(S \cup {c}) /\ Len(t) = Len(s) /\ t[Len(s)] = c
               /\ Len(s) \in Nat /\ Len(s) > 0
               /\ \A k \in 1 .. Len(s) - 1 : t[k] = s[k]
<1> DEFINE t == [s EXCEPT ![Len(s)] = c]
<1>1. Len(s) \in Nat /\ Len(s) > 0 /\ DOMAIN s = 1 .. Len(s)
    OBVIOUS
<1>2. s \in Seq(S \cup {c})
    OBVIOUS
<1>3. t \in Seq(S \cup {c})
    BY <1>2, <1>1
<1>4. Len(t) = Len(s)
    BY <1>2, <1>1
<1>5. t[Len(s)] = c
    BY <1>1
<1>6. ASSUME NEW k \in 1 .. Len(s) - 1 PROVE t[k] = s[k]
    <2>1. k \in Int /\ 1 <= k /\ k <= Len(s) - 1
        OBVIOUS
    <2>2. ASSUME NEW n \in Nat, k <= n - 1 PROVE k \in 1 .. n /\ k # n
        BY <2>1, <2>2
    <2>3. k \in 1 .. Len(s) /\ k # Len(s)
        BY <2>1, <2>2, <1>1
    <2> QED
        BY <2>3, <1>1
<1> QED
    BY <1>1, <1>3, <1>4, <1>5, <1>6

(* What appending to a sequence does to it.                                 *)
LEMMA Appended ==
    ASSUME NEW S, NEW s \in Seq(S), NEW c
    PROVE  LET t == Append(s, c)
           IN  /\ t \in Seq(S \cup {c}) /\ Len(t) = Len(s) + 1 /\ t[Len(s) + 1] = c
               /\ \A k \in 1 .. Len(s) : t[k] = s[k]
OBVIOUS

(* A command takes the place of the last, with its type and count.          *)
LEMMA Replaced ==
    ASSUME NEW s, IsStack(s), s # << >>, NEW c, IsCommand(c),
           c.stage \notin {"intermediate"},
           c.count = LastOf(s).count, c.type = LastOf(s).type
    PROVE  LET t == [s EXCEPT ![Len(s)] = c]
           IN  /\ IsStack(t) /\ t # << >> /\ LastOf(t) = c
               /\ Len(t) = Len(s)
               /\ First(t) <=> First(s)
<1> DEFINE t == [s EXCEPT ![Len(s)] = c]
<1>1. PICK S : s \in Seq(S)
    BY DEF IsStack
<1>2. Len(s) \in Nat /\ Len(s) > 0 /\ DOMAIN s = 1 .. Len(s)
    BY <1>1
<1>3. /\ t \in Seq(S \cup {c}) /\ Len(t) = Len(s) /\ t[Len(s)] = c
      /\ \A k \in 1 .. Len(s) - 1 : t[k] = s[k]
    BY <1>1, LastSet
<1> HIDE DEF t
<1>4. \A k \in 1 .. Len(t) : IsCommand(t[k])
    BY <1>2, <1>3 DEF IsStack
<1>5. \A k \in 1 .. Len(t) - 1 : t[k].stage \in {"intermediate", "replaying"}
    BY <1>2, <1>3 DEF IsStack
<1>6. \A k \in 1 .. Len(t) - 1 : t[k].stage = "intermediate" =>
            t[k + 1].type = "none" /\ t[k + 1].count = t[k].count
    <2> SUFFICES ASSUME NEW k \in 1 .. Len(t) - 1, t[k].stage = "intermediate"
                 PROVE  t[k + 1].type = "none" /\ t[k + 1].count = t[k].count
        OBVIOUS
    <2>1. s[k + 1].type = "none" /\ s[k + 1].count = s[k].count /\ t[k] = s[k]
        BY <1>2, <1>3 DEF IsStack
    <2>2. CASE k + 1 = Len(s)
        BY <2>1, <2>2, <1>3 DEF LastOf
    <2>3. CASE k + 1 # Len(s)
        <3>1. k + 1 \in 1 .. Len(s) - 1
            <4>1. Len(t) = Len(s) /\ Len(s) \in Nat
                BY <1>2, <1>3
            <4> QED
                BY <4>1, <2>3
        <3>2. t[k + 1] = s[k + 1]
            BY <3>1, <1>3
        <3> QED
            BY <2>1, <3>2
    <2> QED
        BY <2>2, <2>3
<1>7. IsStack(t)
    BY <1>3, <1>4, <1>5, <1>6 DEF IsStack
<1>8. First(t) <=> First(s)
    BY <1>2, <1>3 DEF First
<1>9. t # << >> /\ LastOf(t) = c
    BY <1>2, <1>3 DEF LastOf
<1> QED
    BY <1>3, <1>7, <1>8, <1>9 DEF t

(* The last command has another one run, and waits.                         *)
LEMMA Pushed ==
    ASSUME NEW s, IsStack(s), s # << >>, NEW b, IsCommand(b), NEW c, IsCommand(c),
           b.stage \in {"intermediate", "replaying"}, b.type = LastOf(s).type,
           b.stage = "intermediate" => c.type = "none" /\ c.count = b.count
    PROVE  LET t == Append([s EXCEPT ![Len(s)] = b], c)
           IN  /\ IsStack(t) /\ t # << >> /\ LastOf(t) = c
               /\ First(t) <=> b.stage = "intermediate"
<1> DEFINE r == [s EXCEPT ![Len(s)] = b]
           t == Append(r, c)
<1>1. PICK S : s \in Seq(S)
    BY DEF IsStack
<1>2. Len(s) \in Nat /\ Len(s) > 0 /\ DOMAIN s = 1 .. Len(s)
    BY <1>1
<1>3. /\ r \in Seq(S \cup {b}) /\ Len(r) = Len(s) /\ r[Len(s)] = b
      /\ \A k \in 1 .. Len(s) - 1 : r[k] = s[k]
    BY <1>1, LastSet
<1>4. s[Len(s)].type # "none"
    BY DEF IsCommand, LastOf
<1> HIDE DEF r
<1>5. /\ t \in Seq(S \cup {b} \cup {c}) /\ Len(t) = Len(s) + 1
      /\ t[Len(s) + 1] = c /\ t[Len(s)] = b
      /\ \A k \in 1 .. Len(s) - 1 : t[k] = s[k]
    <2>1. /\ t \in Seq(S \cup {b} \cup {c}) /\ Len(t) = Len(r) + 1 /\ t[Len(r) + 1] = c
          /\ \A k \in 1 .. Len(r) : t[k] = r[k]
        BY <1>3, Appended
    <2>2. t[Len(s)] = b
        <3>1. Len(s) \in 1 .. Len(r)
            BY <1>2, <1>3
        <3> QED
            BY <3>1, <2>1, <1>3
    <2>3. ASSUME NEW k \in 1 .. Len(s) - 1 PROVE t[k] = s[k]
        <3>1. k \in 1 .. Len(r)
            BY <1>2, <1>3
        <3> QED
            BY <3>1, <2>1, <1>3
    <2> QED
        BY <2>1, <2>2, <2>3, <1>3
<1> HIDE DEF t
<1>6. \A k \in 1 .. Len(t) : IsCommand(t[k])
    BY <1>2, <1>5 DEF IsStack
<1>7. \A k \in 1 .. Len(t) - 1 : t[k].stage \in {"intermediate", "replaying"}
    BY <1>2, <1>5 DEF IsStack
<1>8. ASSUME NEW k \in 1 .. Len(t) - 1, t[k].stage = "intermediate"
      PROVE  t[k + 1].type = "none" /\ t[k + 1].count = t[k].count
    <2>0. k \in 1 .. Len(s) /\ Len(s) \in Nat
        BY <1>2, <1>5
    <2>1. CASE k = Len(s)
        BY <2>1, <1>5, <1>8
    <2>2. CASE k \in 1 .. Len(s) - 1
        <3>1. t[k] = s[k]
            BY <2>2, <1>5
        <3>2. s[k + 1].type = "none" /\ s[k + 1].count = s[k].count
            BY <2>2, <3>1, <1>8 DEF IsStack
        <3>3. k + 1 # Len(s)
            BY <3>2, <1>4
        <3>4. k + 1 \in 1 .. Len(s) - 1
            BY <2>0, <2>2, <3>3
        <3> QED
            BY <3>1, <3>2, <3>4, <1>5
    <2> QED
        BY <2>0, <2>1, <2>2
<1>9. IsStack(t)
    BY <1>5, <1>6, <1>7, <1>8 DEF IsStack
<1>10. First(t) <=> b.stage = "intermediate"
    BY <1>2, <1>5 DEF First
<1>11. t # << >> /\ LastOf(t) = c
    BY <1>2, <1>5 DEF LastOf
<1> QED
    BY <1>9, <1>10, <1>11 DEF t, r

(* The last command is done, and the one that waited for it goes on.  It is *)
(* not a request that a handler wanted first: that one lets nothing else    *)
(* run.                                                                     *)
LEMMA Popped ==
    ASSUME NEW s, IsStack(s), Len(s) > 1, NEW b, IsCommand(b),
           b.stage # "intermediate",
           b.count = s[Len(s) - 1].count, b.type = s[Len(s) - 1].type
    PROVE  LET t == [SubSeq(s, 1, Len(s) - 1) EXCEPT ![Len(s) - 1] = b]
           IN  /\ IsStack(t) /\ t # << >> /\ LastOf(t) = b
               /\ ~First(t)
<1> DEFINE r == SubSeq(s, 1, Len(s) - 1)
<1>1. PICK S : s \in Seq(S)
    BY DEF IsStack
<1>2. Len(s) \in Nat /\ Len(s) > 1
    BY <1>1
<1>3. /\ r \in Seq(S) /\ Len(r) = Len(s) - 1
      /\ \A k \in 1 .. Len(s) - 1 : r[k] = s[k]
    BY <1>1, <1>2
<1> HIDE DEF r
<1>4. IsStack(r)
    <2>1. \A k \in 1 .. Len(r) : IsCommand(r[k])
        BY <1>2, <1>3 DEF IsStack
    <2>2. \A k \in 1 .. Len(r) - 1 : r[k].stage \in {"intermediate", "replaying"}
        BY <1>2, <1>3 DEF IsStack
    <2>3. ASSUME NEW k \in 1 .. Len(r) - 1, r[k].stage = "intermediate"
          PROVE  r[k + 1].type = "none" /\ r[k + 1].count = r[k].count
        <3>1. /\ k \in 1 .. Len(s) - 1 /\ k + 1 \in 1 .. Len(s) - 1
            BY <1>2, <1>3
        <3> QED
            BY <3>1, <1>3, <2>3 DEF IsStack
    <2> QED
        BY <1>3, <2>1, <2>2, <2>3 DEF IsStack
<1>5. r # << >> /\ LastOf(r) = s[Len(s) - 1]
    BY <1>2, <1>3 DEF LastOf
<1>6. ~First(r)
    <2> SUFFICES ASSUME First(r) PROVE FALSE
        OBVIOUS
    <2>1. s[Len(s) - 1].stage \in {"intermediate", "replaying"} /\ IsCommand(s[Len(s) - 1])
        BY <1>2 DEF IsStack
    <2>2. r[Len(r) - 1].stage = "intermediate" /\ Len(r) - 1 \in 1 .. Len(r) - 1
        BY <1>2, <1>3 DEF First
    <2>3. r[Len(r) - 1 + 1].type = "none"
        BY <1>4, <2>2 DEF IsStack
    <2>4. Len(r) - 1 + 1 = Len(r)
        BY <1>2, <1>3
    <2>5. s[Len(s) - 1].type = "none"
        BY <2>3, <2>4, <1>5 DEF LastOf
    <2> QED
        BY <2>1, <2>5 DEF IsCommand
<1>7. LET t == [r EXCEPT ![Len(r)] = b]
      IN  IsStack(t) /\ t # << >> /\ LastOf(t) = b /\ (First(t) <=> First(r))
    BY <1>4, <1>5, Replaced
<1> QED
    BY <1>3, <1>6, <1>7 DEF r

(***************************************************************************)
(* What they do to the bound                                                *)
(***************************************************************************)
LEMMA TopIsLast ==
    ASSUME IsStack(stack), stack # << >>
    PROVE  Top = LastOf(stack) /\ IsCommand(Top) /\ Len(stack) \in Nat /\ Len(stack) > 0
<1>1. PICK S : stack \in Seq(S)
    BY DEF IsStack
<1>2. Len(stack) \in Nat /\ Len(stack) > 0
    BY <1>1
<1>3. Top = stack[Len(stack)]
    BY DEF Top
<1>4. IsCommand(stack[Len(stack)])
    BY <1>2 DEF IsStack
<1> QED
    BY <1>2, <1>3, <1>4 DEF LastOf

(* The command at the top goes on to another stage, and perhaps sends.      *)
MovesTo(c) ==
    /\ stack' = WithTop(c)
    /\ DOMAIN c = Fields /\ c.count = Top.count /\ c.type = Top.type
    /\ c.stage \notin {"intermediate", "replaying"}
    /\ c.replay => c.type # "none"
    /\ Top.stage # "done"
    /\ Top.stage \in HasSent => c.stage \in HasSent
    /\ \/ sent' = sent
       \/ sent' = sent + 1 /\ Top.stage \notin HasSent /\ c.stage \in HasSent

LEMMA Moves ==
    ASSUME ChainInv, stack # << >>, template' = template,
           NEW c, MovesTo(c)
    PROVE  ChainInv'
<1>1. IsStack(stack) /\ sent \in Nat /\ sent <= Limit(stack) /\ IsChain
    BY DEF ChainInv
<1>2. Top = LastOf(stack) /\ IsCommand(Top)
    BY <1>1, TopIsLast
<1>3. IsCommand(c)
    BY <1>2 DEF IsCommand, MovesTo
<1>4. stack' = [stack EXCEPT ![Len(stack)] = c]
    BY DEF WithTop, MovesTo
<1>5. /\ IsStack(stack') /\ stack' # << >> /\ LastOf(stack') = c
      /\ First(stack') <=> First(stack)
    <2>1. c.stage \notin {"intermediate"} /\ c.count = LastOf(stack).count /\ c.type = LastOf(stack).type
        BY <1>2 DEF MovesTo
    <2>2. LET t == [stack EXCEPT ![Len(stack)] = c]
          IN  /\ IsStack(t) /\ t # << >> /\ LastOf(t) = c
              /\ Len(t) = Len(stack)
              /\ First(t) <=> First(stack)
        BY <1>1, <1>3, <2>1, Replaced
    <2> QED
        BY <2>2, <1>4
<1>6. IsStack(stack)' /\ IsChain'
    BY <1>1, <1>5 DEF IsStack, IsCommand, IsChain
<1>7. sent' \in Nat
    BY <1>1 DEF MovesTo
<1>8. sent' <= Limit(stack')
    <2> DEFINE first == IF First(stack) THEN 1 ELSE 0
    <2>1. Top.count \in Nat /\ MaxReplay \in Nat /\ Top.count <= MaxReplay
        BY <1>2, BoundsAssumption DEF IsCommand
    <2>2. Limit(stack) = Top.count + (IF Top.stage \in HasSent THEN 1 ELSE 0) - first
        BY <1>2 DEF Limit, MovesTo
    <2>3. Limit(stack') = IF c.stage = "done" /\ ~First(stack) THEN MaxReplay + 1
                          ELSE Top.count + (IF c.stage \in HasSent THEN 1 ELSE 0) - first
        BY <1>5 DEF Limit, MovesTo
    <2>4. first \in {0, 1}
        OBVIOUS
    <2> HIDE DEF first
    <2>5. sent' <= Top.count + (IF c.stage \in HasSent THEN 1 ELSE 0) - first
        BY <1>1, <2>1, <2>2, <2>4 DEF MovesTo
    <2> QED
        BY <1>7, <2>1, <2>3, <2>4, <2>5
<1>9. Limit(stack)' = Limit(stack')
    BY DEF Limit, First, LastOf
<1> QED
    BY <1>6, <1>7, <1>8, <1>9 DEF ChainInv

(* It has another command run: a request that its handler wants first, or   *)
(* its own again.                                                           *)
LEMMA Pushes ==
    ASSUME ChainInv, stack # << >>, template' = template, sent' = sent,
           NEW stage \in {"intermediate", "replaying"}, NEW originalItem, NEW request,
           Top.count < MaxReplay, Top.type # "none",
           stage = "intermediate" => /\ Top.type = "custom" /\ Top.stage = "auth"
                                     /\ originalItem # 0,
           stage = "replaying" => Top.stage = "started",
           stack' = Append(WithTop([Top EXCEPT !.stage = stage, !.count = @ + 1,
                                               !.originalItem = originalItem]),
                           Command(request, Top.count + 1, originalItem))
    PROVE  ChainInv'
<1> DEFINE b == [Top EXCEPT !.stage = stage, !.count = @ + 1, !.originalItem = originalItem]
           c == Command(request, Top.count + 1, originalItem)
<1>1. IsStack(stack) /\ sent \in Nat /\ sent <= Limit(stack) /\ IsChain
    BY DEF ChainInv
<1>2. Top = LastOf(stack) /\ IsCommand(Top)
    BY <1>1, TopIsLast
<1>3. Top.count \in Nat /\ MaxReplay \in Nat /\ Top.count + 1 \in 0 .. MaxReplay
    BY <1>2, BoundsAssumption DEF IsCommand
<1>4. /\ DOMAIN b = Fields /\ b.stage = stage /\ b.count = Top.count + 1
      /\ b.type = Top.type /\ b.replay = Top.replay
    BY <1>2 DEF IsCommand, Fields
<1>5. IsCommand(b)
    BY <1>2, <1>3, <1>4 DEF IsCommand
<1>6. /\ DOMAIN c = Fields /\ c.stage = "files" /\ c.count = Top.count + 1 /\ c.replay = FALSE
      /\ c.type = IF originalItem = 0 \/ template.inherits THEN template.type ELSE "none"
    BY DEF Command, Fields
<1>7. IsCommand(c)
    BY <1>3, <1>6 DEF IsCommand
<1>8. stage = "intermediate" => c.type = "none"
    BY <1>1, <1>2, <1>6 DEF IsChain, IsCommand
<1>9. stack' = Append([stack EXCEPT ![Len(stack)] = b], c)
    BY DEF WithTop
<1> HIDE DEF b, c
<1>10. /\ IsStack(stack') /\ stack' # << >> /\ LastOf(stack') = c
       /\ First(stack') <=> stage = "intermediate"
    <2>1. /\ b.stage \in {"intermediate", "replaying"} /\ b.type = LastOf(stack).type
          /\ b.stage = "intermediate" => c.type = "none" /\ c.count = b.count
        BY <1>2, <1>4, <1>6, <1>8
    <2>2. LET t == Append([stack EXCEPT ![Len(stack)] = b], c)
          IN  /\ IsStack(t) /\ t # << >> /\ LastOf(t) = c
              /\ First(t) <=> b.stage = "intermediate"
        BY <1>1, <1>5, <1>7, <2>1, Pushed
    <2> QED
        BY <2>2, <1>4, <1>9
<1>11. IsStack(stack)' /\ IsChain'
    BY <1>1, <1>10 DEF IsStack, IsCommand, IsChain
<1>12. sent <= Limit(stack')
    <2>1. Limit(stack') = Top.count + 1 - (IF stage = "intermediate" THEN 1 ELSE 0)
        BY SMTT(30), <1>3, <1>6, <1>10 DEF Limit, HasSent
    <2>2. Limit(stack) <= Top.count + (IF stage = "intermediate" THEN 0 ELSE 1)
        BY <1>2, <1>3 DEF Limit, HasSent
    <2>3. Limit(stack) \in Int
        BY <1>2, <1>3 DEF Limit
    <2> QED
        BY <1>1, <1>3, <2>1, <2>2, <2>3
<1>13. Limit(stack)' = Limit(stack')
    BY DEF Limit, First, LastOf
<1> QED
    BY <1>1, <1>11, <1>12, <1>13 DEF ChainInv

(* The command at the top is done; the one below goes on.                   *)
LEMMA Pops ==
    ASSUME ChainInv, Len(stack) > 1, stack # << >>, Top.stage = "done",
           template' = template, sent' = sent,
           NEW c, DOMAIN c = Fields,
           c.count = stack[Len(stack) - 1].count, c.type = stack[Len(stack) - 1].type,
           c.replay => c.type # "none",
           \/ stack[Len(stack) - 1].stage = "intermediate" /\ c.stage \in {"auth", "send"}
           \/ stack[Len(stack) - 1].stage = "replaying" /\ c.stage = "done",
           stack' = [Below EXCEPT ![Len(stack) - 1] = c]
    PROVE  ChainInv'
<1> DEFINE b == stack[Len(stack) - 1]
<1>1. IsStack(stack) /\ sent \in Nat /\ sent <= Limit(stack) /\ IsChain
    BY DEF ChainInv
<1>2. Top = LastOf(stack) /\ IsCommand(Top) /\ Len(stack) \in Nat
    BY <1>1, TopIsLast
<1>3. Len(stack) - 1 \in 1 .. Len(stack) - 1 /\ Len(stack) - 1 \in 1 .. Len(stack)
    BY <1>2
<1>4. IsCommand(b)
    BY <1>1, <1>3 DEF IsStack
<1>5. IsCommand(c)
    BY <1>4 DEF IsCommand
<1>6. IsStack(stack') /\ stack' # << >> /\ LastOf(stack') = c /\ ~First(stack')
    <2>1. stack' = [SubSeq(stack, 1, Len(stack) - 1) EXCEPT ![Len(stack) - 1] = c]
        BY DEF Below
    <2>2. c.stage # "intermediate"
        OBVIOUS
    <2>3. LET t == [SubSeq(stack, 1, Len(stack) - 1) EXCEPT ![Len(stack) - 1] = c]
          IN  IsStack(t) /\ t # << >> /\ LastOf(t) = c /\ ~First(t)
        BY <1>1, <1>5, <2>2, Popped
    <2> QED
        BY <2>1, <2>3
<1>7. IsStack(stack)' /\ IsChain'
    BY <1>1, <1>6 DEF IsStack, IsCommand, IsChain
<1>8. sent <= Limit(stack')
    <2>1. MaxReplay \in Nat /\ Top.count \in 0 .. MaxReplay /\ b.count \in 0 .. MaxReplay
        BY <1>2, <1>4, BoundsAssumption DEF IsCommand
    <2>2. CASE b.stage = "intermediate"
        <3>1. Top.count = b.count
            <4>1. stack[Len(stack) - 1 + 1].count = b.count
                BY <1>1, <1>3, <2>2 DEF IsStack
            <4> QED
                BY <4>1, <1>2 DEF LastOf
        <3>2. First(stack)
            BY <2>2 DEF First
        <3>3. Limit(stack) = Top.count
            BY <1>2, <2>1, <3>2 DEF Limit, HasSent
        <3>4. Limit(stack') = b.count
            BY <1>6, <2>1, <2>2 DEF Limit, HasSent
        <3> QED
            BY <1>1, <3>1, <3>3, <3>4
    <2>3. CASE b.stage = "replaying"
        <3>1. Limit(stack) = MaxReplay + 1
            BY <1>2, <2>3 DEF Limit, First
        <3>2. Limit(stack') = MaxReplay + 1
            BY <1>6, <2>3 DEF Limit
        <3> QED
            BY <1>1, <3>1, <3>2
    <2> QED
        BY <2>2, <2>3
<1>9. Limit(stack)' = Limit(stack')
    BY DEF Limit, First, LastOf
<1> QED
    BY <1>1, <1>7, <1>8, <1>9 DEF ChainInv

(***************************************************************************)
(* Every step keeps the bound                                               *)
(***************************************************************************)
LEMMA GoResults ==
    ASSUME NEW auth, NEW success \in BOOLEAN, NEW outcome \in Go(auth, success)
    PROVE  outcome.result \in {"go", "no go"}
<1> DEFINE result == IF success THEN "go" ELSE "no go"
<1>1. result \in {"go", "no go"}
    OBVIOUS
<1>2. outcome = [result |-> result, auth |-> auth]
    BY DEF Go, Outcome
<1> HIDE DEF result
<1> QED
    BY <1>1, <1>2

(* Only the handlers of the host want another request first.                *)
LEMMA IntermediateIsCustom ==
    ASSUME NEW type, NEW auth, type # "custom", NEW outcome \in Pre(type, auth)
    PROVE  outcome.result # "intermediate"
<1>1. ASSUME NEW a, NEW b \in BOOLEAN, NEW o \in Go(a, b)
      PROVE  o.result \in {"go", "no go"}
    BY GoResults
<1>2. CASE type = "oauth2"
    <2>1. outcome \in OAuth2Pre(auth)
        BY <1>2 DEF Pre
    <2>2. \/ outcome \in Go(auth, Get(auth, "accessToken") # 0)
          \/ outcome \in Go(SetSystem(auth, "accessToken", 2), TRUE)
          \/ outcome = Outcome("throws", auth)
        BY <2>1 DEF OAuth2Pre
    <2>3. Outcome("throws", auth).result = "throws"
        BY DEF Outcome
    <2> QED
        BY <1>1, <2>2, <2>3
<1>3. CASE type # "oauth2"
    BY <1>1, <1>3 DEF Pre, BearerPre, ApiKeyPre, HawkPre, EdgegridPre, DigestPre, NtlmPre,
                      EdgegridComplete
<1> QED
    BY <1>2, <1>3

(* The results of a pre hook.                                               *)
LEMMA OutcomeResults ==
    ASSUME NEW type, NEW auth, NEW outcome \in Pre(type, auth)
    PROVE  outcome.result \in {"go", "no go", "intermediate", "error", "throws"}
<1>1. ASSUME NEW a, NEW b \in BOOLEAN, NEW o \in Go(a, b)
      PROVE  o.result \in {"go", "no go"}
    BY GoResults
<1>2. CASE type = "oauth2"
    <2>1. outcome \in OAuth2Pre(auth)
        BY <1>2 DEF Pre
    <2>2. \/ outcome \in Go(auth, Get(auth, "accessToken") # 0)
          \/ outcome \in Go(SetSystem(auth, "accessToken", 2), TRUE)
          \/ outcome = Outcome("throws", auth)
        BY <2>1 DEF OAuth2Pre
    <2>3. Outcome("throws", auth).result = "throws"
        BY DEF Outcome
    <2> QED
        BY <1>1, <2>2, <2>3
<1>3. CASE type = "custom"
    <2>1. outcome \in CustomPre(auth)
        BY <1>3 DEF Pre
    <2>2. PICK result \in {"error", "go", "no go", "intermediate"} :
            outcome = Outcome(result, auth)
        BY <2>1 DEF CustomPre
    <2> QED
        BY <2>2 DEF Outcome
<1>4. CASE type \notin {"oauth2", "custom"}
    BY <1>1, <1>4 DEF Pre, BearerPre, ApiKeyPre, HawkPre, EdgegridPre, DigestPre, NtlmPre,
                      EdgegridComplete
<1> QED
    BY <1>2, <1>3, <1>4

LEMMA InitChain == Init /\ IsChain => ChainInv
<1> SUFFICES ASSUME Init, IsChain PROVE ChainInv
    OBVIOUS
<1>1. stack = << >> /\ sent = 0
    BY DEF Init
<1>2. IsStack(stack)
    BY <1>1 DEF IsStack
<1>3. Limit(stack) = MaxReplay + 1 /\ MaxReplay \in Nat
    BY <1>1, BoundsAssumption DEF Limit
<1> QED
    BY <1>1, <1>2, <1>3 DEF ChainInv

LEMMA TemplateKept == [Next]_vars => template' = template
BY DEF Next, Proceed, vars, Begin, LoadFile, LoadFiles, FilesLoaded, NoRequest, NoAuth, AuthPre,
       AuthInit, AuthSign, Send, AbortInTrigger, Abort, NetworkError, AbortError, Failure,
       ResponseStart, ResponseEnd, EndBeforePost, ReplayDone, End

(* The new round has sent nothing.                                          *)
LEMMA BeginChain == ChainInv /\ Begin => ChainInv'
<1> SUFFICES ASSUME ChainInv, Begin PROVE ChainInv'
    OBVIOUS
<1> DEFINE c == Command(template.request, 0, 0)
<1>1. stack' = <<c>> /\ sent' = 0 /\ template' = template /\ IsChain
    BY DEF Begin, ChainInv
<1>2. /\ DOMAIN c = Fields /\ c.stage = "files" /\ c.count = 0 /\ c.replay = FALSE
      /\ c.type = template.type
    BY DEF Command, Fields
<1>3. IsCommand(c)
    BY <1>2, BoundsAssumption DEF IsCommand
<1> HIDE DEF c
<1>4. IsStack(stack')
    <2>1. <<c>> \in Seq({c}) /\ Len(<<c>>) = 1 /\ <<c>>[1] = c
        OBVIOUS
    <2>2. \E S : <<c>> \in Seq(S)
        BY <2>1
    <2>3. \A k \in 1 .. Len(<<c>>) : IsCommand(<<c>>[k])
        BY <1>3, <2>1
    <2>4. ~\E k \in 1 .. Len(<<c>>) - 1 : TRUE
        BY <2>1
    <2> QED
        BY <1>1, <2>2, <2>3, <2>4 DEF IsStack
<1>5. Limit(stack') = 0
    <2>1. ~First(stack') /\ LastOf(stack') = c /\ stack' # << >>
        BY <1>1 DEF First, LastOf
    <2> QED
        BY <1>2, <2>1 DEF Limit, HasSent
<1>6. IsStack(stack)' /\ IsChain'
    BY <1>1, <1>4 DEF IsStack, IsCommand, IsChain
<1>7. Limit(stack)' = Limit(stack')
    BY DEF Limit, First, LastOf
<1> QED
    BY <1>1, <1>5, <1>6, <1>7 DEF ChainInv

(* Every step that lets the command at the top go on.                       *)
LEMMA TopMoves ==
    ASSUME ChainInv,
           \/ LoadFile \/ LoadFiles \/ FilesLoaded \/ NoRequest \/ NoAuth \/ AuthSign
           \/ Send \/ AbortInTrigger \/ Abort \/ NetworkError \/ AbortError \/ ResponseStart
           \/ EndBeforePost
    PROVE  ChainInv'
<1>1. stack # << >> /\ template' = template
    BY DEF LoadFile, LoadFiles, FilesLoaded, NoRequest, NoAuth, AuthSign, Send, AbortInTrigger,
           Abort, NetworkError, AbortError, ResponseStart, EndBeforePost, Failure, InStage
<1>2. IsCommand(Top) /\ sent \in Nat
    BY <1>1, TopIsLast DEF ChainInv
<1>3. DOMAIN Top = Fields /\ (Top.replay => Top.type # "none")
    BY <1>2 DEF IsCommand
<1>4. SUFFICES \E c : MovesTo(c)
    BY <1>1, Moves
<1>5. CASE LoadFile
    <2>1. PICK file : stack' = WithTop([Top EXCEPT !.request.files[Top.at] = file, !.at = @ + 1])
        BY <1>5 DEF LoadFile
    <2>2. Top.stage = "files" /\ sent' = sent
        BY <1>5 DEF LoadFile, InStage
    <2> DEFINE c == [Top EXCEPT !.request.files[Top.at] = file, !.at = @ + 1]
    <2>3. /\ DOMAIN c = Fields /\ c.count = Top.count /\ c.type = Top.type
          /\ c.stage = Top.stage /\ c.replay = Top.replay
        BY <1>3 DEF Fields
    <2> HIDE DEF c
    <2>4. stack' = WithTop(c)
        BY <2>1 DEF c
    <2>5. MovesTo(c)
        BY <1>3, <2>2, <2>3, <2>4 DEF HasSent, MovesTo
    <2> QED
        BY <2>5
<1>6. CASE FilesLoaded \/ NoAuth \/ Send
    <2>1. PICK stage : /\ stack' = WithTop([Top EXCEPT !.stage = stage])
                       /\ stage \in {"auth", "send", "sent"}
                       /\ Top.stage \in {"files", "auth", "send"}
                       /\ \/ sent' = sent
                          \/ sent' = sent + 1 /\ stage = "sent"
        BY <1>6 DEF FilesLoaded, NoAuth, Send, GoTo, InStage
    <2> DEFINE c == [Top EXCEPT !.stage = stage]
    <2>2. /\ DOMAIN c = Fields /\ c.count = Top.count /\ c.type = Top.type
          /\ c.stage = stage /\ c.replay = Top.replay
        BY <1>3 DEF Fields
    <2> HIDE DEF c
    <2>3. stack' = WithTop(c)
        BY <2>1 DEF c
    <2>4. MovesTo(c)
        BY <1>3, <2>1, <2>2, <2>3 DEF HasSent, MovesTo
    <2> QED
        BY <2>4
<1>7. CASE NoRequest \/ AbortInTrigger \/ NetworkError \/ AbortError \/ EndBeforePost
    <2>1. PICK failed : /\ stack' = WithTop([Top EXCEPT !.stage = "done", !.failed = failed])
                        /\ Top.stage \in {"files", "send", "sent", "started"} /\ sent' = sent
        BY <1>7 DEF NoRequest, AbortInTrigger, NetworkError, AbortError, EndBeforePost, Failure,
                    Finish, InStage
    <2> DEFINE c == [Top EXCEPT !.stage = "done", !.failed = failed]
    <2>2. /\ DOMAIN c = Fields /\ c.count = Top.count /\ c.type = Top.type
          /\ c.stage = "done" /\ c.replay = Top.replay
        BY <1>3 DEF Fields
    <2> HIDE DEF c
    <2>3. stack' = WithTop(c)
        BY <2>1 DEF c
    <2>4. MovesTo(c)
        BY <1>3, <2>1, <2>2, <2>3 DEF HasSent, MovesTo
    <2> QED
        BY <2>4
<1>9. CASE Abort
    <2>1. /\ stack' = WithTop([Top EXCEPT !.aborted = TRUE])
          /\ Top.stage \in {"sent", "started"} /\ sent' = sent
        BY <1>9 DEF Abort, InStage
    <2> DEFINE c == [Top EXCEPT !.aborted = TRUE]
    <2>2. /\ DOMAIN c = Fields /\ c.count = Top.count /\ c.type = Top.type
          /\ c.stage = Top.stage /\ c.replay = Top.replay
        BY <1>3 DEF Fields
    <2> HIDE DEF c
    <2>3. stack' = WithTop(c)
        BY <2>1 DEF c
    <2>4. MovesTo(c)
        BY <1>3, <2>1, <2>2, <2>3 DEF HasSent, MovesTo
    <2> QED
        BY <2>4
<1>11. CASE LoadFiles
    <2>1. Top.stage = "files" /\ sent' = sent
        BY <1>11 DEF LoadFiles, InStage
    <2>2. CASE stack' = WithTop([Top EXCEPT !.at = @ + 1])
        <3> DEFINE c == [Top EXCEPT !.at = @ + 1]
        <3>1. /\ DOMAIN c = Fields /\ c.count = Top.count /\ c.type = Top.type
              /\ c.stage = Top.stage /\ c.replay = Top.replay
            BY <1>3 DEF Fields
        <3> HIDE DEF c
        <3>2. stack' = WithTop(c)
            BY <2>2 DEF c
        <3>3. MovesTo(c)
            BY <1>3, <2>1, <3>1, <3>2 DEF HasSent, MovesTo
        <3> QED
            BY <3>3
    <2>3. CASE stack' # WithTop([Top EXCEPT !.at = @ + 1])
        <3>1. PICK files :
                stack' = WithTop([Top EXCEPT !.stage = "auth", !.request.files = files])
            BY <1>11, <2>3 DEF LoadFiles
        <3> DEFINE c == [Top EXCEPT !.stage = "auth", !.request.files = files]
        <3>2. /\ DOMAIN c = Fields /\ c.count = Top.count /\ c.type = Top.type
              /\ c.stage = "auth" /\ c.replay = Top.replay
            BY <1>3 DEF Fields
        <3> HIDE DEF c
        <3>3. stack' = WithTop(c)
            BY <3>1 DEF c
        <3>4. MovesTo(c)
            BY <1>3, <2>1, <3>2, <3>3 DEF HasSent, MovesTo
        <3> QED
            BY <3>4
    <2> QED
        BY <2>2, <2>3
<1>12. CASE AuthSign
    <2>1. PICK request : stack' = WithTop([Top EXCEPT !.stage = "send", !.request = request])
        BY <1>12 DEF AuthSign
    <2>2. Top.stage = "sign" /\ sent' = sent
        BY <1>12 DEF AuthSign, InStage
    <2> DEFINE c == [Top EXCEPT !.stage = "send", !.request = request]
    <2>3. /\ DOMAIN c = Fields /\ c.count = Top.count /\ c.type = Top.type
          /\ c.stage = "send" /\ c.replay = Top.replay
        BY <1>3 DEF Fields
    <2> HIDE DEF c
    <2>4. stack' = WithTop(c)
        BY <2>1 DEF c
    <2>5. MovesTo(c)
        BY <1>3, <2>2, <2>3, <2>4 DEF HasSent, MovesTo
    <2> QED
        BY <2>5
<1>13. CASE ResponseStart
    <2>1. PICK outcome :
            /\ stack' = WithTop([Top EXCEPT !.stage = "started", !.auth = outcome.auth,
                                            !.replay = outcome.result = "replay"])
            /\ HasHandler(Top) \/ outcome = Outcome("success", Top.auth)
        BY <1>13 DEF ResponseStart
    <2>2. Top.stage = "sent" /\ sent' = sent
        BY <1>13 DEF ResponseStart, InStage
    <2>3. outcome.result = "replay" => Top.type # "none"
        BY <2>1 DEF HasHandler, Types, Outcome
    <2> DEFINE c == [Top EXCEPT !.stage = "started", !.auth = outcome.auth,
                                !.replay = outcome.result = "replay"]
    <2>4. /\ DOMAIN c = Fields /\ c.count = Top.count /\ c.type = Top.type
          /\ c.stage = "started" /\ c.replay = (outcome.result = "replay")
        BY <1>3 DEF Fields
    <2> HIDE DEF c
    <2>5. stack' = WithTop(c)
        BY <2>1 DEF c
    <2>6. MovesTo(c)
        BY <1>3, <2>2, <2>3, <2>4, <2>5 DEF HasSent, MovesTo
    <2> QED
        BY <2>6
<1> QED
    BY <1>5, <1>6, <1>7, <1>9, <1>11, <1>12, <1>13

(* Asking for another request: past the limit the command moves on.         *)
LEMMA AskedFor ==
    ASSUME ChainInv, stack # << >>, template' = template, sent' = sent,
           NEW stage \in {"intermediate", "replaying"}, NEW originalItem, NEW request,
           NEW ACTION Refused, RequestReplay(stage, originalItem, request, Refused),
           Top.type # "none",
           stage = "intermediate" => /\ Top.type = "custom" /\ Top.stage = "auth"
                                     /\ originalItem # 0,
           stage = "replaying" => Top.stage = "started",
           Refused => \E c : MovesTo(c)
    PROVE  ChainInv'
<1>1. Top.count \in Nat /\ MaxReplay \in Nat
    BY TopIsLast, BoundsAssumption DEF ChainInv, IsCommand
<1>2. CASE Top.count >= MaxReplay
    <2>1. \E c : MovesTo(c)
        BY <1>2 DEF RequestReplay
    <2> QED
        BY <2>1, Moves
<1>3. CASE ~(Top.count >= MaxReplay)
    <2>1. Top.count < MaxReplay
        BY <1>1, <1>3
    <2>2. stack' = Append(WithTop([Top EXCEPT !.stage = stage, !.count = @ + 1,
                                              !.originalItem = originalItem]),
                          Command(request, Top.count + 1, originalItem))
        BY <1>3 DEF RequestReplay
    <2> QED
        BY <2>1, <2>2, Pushes
<1> QED
    BY <1>2, <1>3

LEMMA FinishMoves ==
    ASSUME ChainInv, stack # << >>, sent' = sent, NEW failed, Finish(failed),
           Top.stage # "done"
    PROVE  \E c : MovesTo(c)
<1>1. DOMAIN Top = Fields /\ (Top.replay => Top.type # "none")
    BY TopIsLast DEF ChainInv, IsCommand
<1> DEFINE c == [Top EXCEPT !.stage = "done", !.failed = failed]
<1>2. /\ DOMAIN c = Fields /\ c.count = Top.count /\ c.type = Top.type
      /\ c.stage = "done" /\ c.replay = Top.replay
    BY <1>1 DEF Fields
<1>3. stack' = WithTop(c)
    BY DEF Finish
<1> HIDE DEF c
<1>4. MovesTo(c)
    BY <1>1, <1>2, <1>3 DEF HasSent, MovesTo
<1> QED
    BY <1>4

LEMMA AuthPreChain == ChainInv /\ AuthPre => ChainInv'
<1> SUFFICES ASSUME ChainInv, AuthPre PROVE ChainInv'
    OBVIOUS
<1>1. /\ stack # << >> /\ template' = template /\ sent' = sent
      /\ Top.stage = "auth" /\ HasHandler(Top)
    BY DEF AuthPre, InStage
<1>2. /\ DOMAIN Top = Fields /\ (Top.replay => Top.type # "none")
      /\ Len(stack) \in Nat /\ Len(stack) > 0
    BY <1>1, TopIsLast DEF ChainInv, IsCommand
<1>3. Top.type # "none"
    BY <1>1 DEF HasHandler, Types
<1>4. ASSUME NEW stage \in {"sign", "send", "lost"}, GoTo(stage) PROVE \E c : MovesTo(c)
    <2> DEFINE c == [Top EXCEPT !.stage = stage]
    <2>1. /\ DOMAIN c = Fields /\ c.count = Top.count /\ c.type = Top.type
          /\ c.stage = stage /\ c.replay = Top.replay
        BY <1>2 DEF Fields
    <2>2. stack' = WithTop(c)
        BY <1>4 DEF GoTo
    <2> HIDE DEF c
    <2>3. MovesTo(c)
        BY <1>1, <1>2, <2>1, <2>2 DEF HasSent, MovesTo
    <2> QED
        BY <2>3
<1>5. ASSUME NEW stage \in {"sign", "send"}, NEW auth,
             stack' = WithTop([Top EXCEPT !.stage = stage, !.auth = auth])
      PROVE  \E c : MovesTo(c)
    <2> DEFINE c == [Top EXCEPT !.stage = stage, !.auth = auth]
    <2>1. /\ DOMAIN c = Fields /\ c.count = Top.count /\ c.type = Top.type
          /\ c.stage = stage /\ c.replay = Top.replay
        BY <1>2 DEF Fields
    <2>2. stack' = WithTop(c)
        BY <1>5
    <2> HIDE DEF c
    <2>3. MovesTo(c)
        BY <1>1, <1>2, <2>1, <2>2 DEF HasSent, MovesTo
    <2> QED
        BY <2>3
<1>6. PICK outcome \in Pre(Top.type, Top.auth) :
        /\ outcome.result = "go" =>
                stack' = WithTop([Top EXCEPT !.stage = "sign", !.auth = outcome.auth])
        /\ outcome.result = "no go" =>
                stack' = WithTop([Top EXCEPT !.stage = "send", !.auth = outcome.auth])
        /\ outcome.result = "intermediate" =>
                RequestReplay("intermediate", Len(stack), BlankRequest, GoTo("send"))
        /\ outcome.result = "error" => GoTo("send")
        /\ outcome.result = "throws" => GoTo("lost") \/ Finish(TRUE)
    BY DEF AuthPre
<1>7. outcome.result \in {"go", "no go", "intermediate", "error", "throws"}
    BY OutcomeResults
<1>8. CASE outcome.result = "intermediate"
    <2>1. Top.type = "custom"
        BY <1>8, IntermediateIsCustom
    <2>2. RequestReplay("intermediate", Len(stack), BlankRequest, GoTo("send"))
        BY <1>6, <1>8
    <2>3. GoTo("send") => \E c : MovesTo(c)
        BY <1>4
    <2>4. Len(stack) # 0
        BY <1>2
    <2> QED
        BY <1>1, <1>3, <2>1, <2>2, <2>3, <2>4, AskedFor
<1>9. CASE outcome.result # "intermediate"
    <2>0. Finish(TRUE) => \E c : MovesTo(c)
        BY <1>1, FinishMoves
    <2>1. \E c : MovesTo(c)
        BY <1>4, <1>5, <1>6, <1>7, <1>9, <2>0
    <2> QED
        BY <1>1, <2>1, Moves
<1> QED
    BY <1>8, <1>9

LEMMA ResponseEndChain == ChainInv /\ ResponseEnd => ChainInv'
<1> SUFFICES ASSUME ChainInv, ResponseEnd PROVE ChainInv'
    OBVIOUS
<1>1. stack # << >> /\ template' = template /\ sent' = sent /\ Top.stage = "started"
    BY DEF ResponseEnd, InStage
<1>2. Top.replay => Top.type # "none"
    BY <1>1, TopIsLast DEF ChainInv, IsCommand
<1>3. Finish(FALSE) => \E c : MovesTo(c)
    BY <1>1, FinishMoves
<1>4. CASE Top.replay
    <2>1. RequestReplay("replaying", Top.originalItem, Clone(Top.request), Finish(FALSE))
        BY <1>4 DEF ResponseEnd
    <2> QED
        BY <1>1, <1>2, <1>3, <1>4, <2>1, AskedFor
<1>5. CASE ~Top.replay
    <2>1. Finish(FALSE)
        BY <1>5 DEF ResponseEnd
    <2> QED
        BY <1>1, <1>3, <2>1, Moves
<1> QED
    BY <1>4, <1>5

LEMMA ReturnChain == ChainInv /\ (AuthInit \/ ReplayDone) => ChainInv'
<1> SUFFICES ASSUME ChainInv, AuthInit \/ ReplayDone PROVE ChainInv'
    OBVIOUS
<1> DEFINE b == stack[Len(stack) - 1]
<1>1. /\ stack # << >> /\ Len(stack) > 1 /\ Top.stage = "done"
      /\ template' = template /\ sent' = sent
    BY DEF AuthInit, ReplayDone, InStage
<1>2. Len(stack) \in Nat /\ Len(stack) - 1 \in 1 .. Len(stack)
    BY <1>1, TopIsLast DEF ChainInv
<1>3. IsCommand(b)
    BY <1>2 DEF ChainInv, IsStack
<1>4. DOMAIN b = Fields /\ (b.replay => b.type # "none")
    BY <1>3 DEF IsCommand
<1>5. \E S : Below \in Seq(S) /\ Len(Below) = Len(stack) - 1
             /\ Below[Len(stack) - 1] = b /\ DOMAIN Below = 1 .. Len(stack) - 1
    <2>1. PICK S : stack \in Seq(S)
        BY DEF ChainInv, IsStack
    <2>2. /\ Below \in Seq(S) /\ Len(Below) = Len(stack) - 1
          /\ Below[Len(stack) - 1] = b
        BY <2>1, <1>1, <1>2 DEF Below
    <2> QED
        BY <2>2
<1>6. CASE AuthInit
    <2>1. PICK stage \in {"auth", "send"} :
            stack' = [Below EXCEPT ![Len(stack) - 1] =
                        [b EXCEPT !.stage = stage, !.originalItem = b.home]]
        BY <1>6 DEF AuthInit
    <2> DEFINE c == [b EXCEPT !.stage = stage, !.originalItem = b.home]
    <2>2. /\ DOMAIN c = Fields /\ c.count = b.count /\ c.type = b.type
          /\ c.stage = stage /\ c.replay = b.replay
        BY <1>4 DEF Fields
    <2>3. b.stage = "intermediate"
        BY <1>6 DEF AuthInit
    <2>4. stack' = [Below EXCEPT ![Len(stack) - 1] = c]
        BY <2>1
    <2> HIDE DEF c
    <2> QED
        BY <1>1, <1>4, <2>2, <2>3, <2>4, Pops
<1>7. CASE ReplayDone
    <2> DEFINE c == [b EXCEPT !.stage = "done", !.failed = Top.failed]
    <2>1. /\ DOMAIN c = Fields /\ c.count = b.count /\ c.type = b.type
          /\ c.stage = "done" /\ c.replay = b.replay
        BY <1>4 DEF Fields
    <2>2. b.stage = "replaying"
        BY <1>7 DEF ReplayDone
    <2>3. stack' = [Below EXCEPT ![Len(stack) - 1] = c]
        BY <1>7, <1>5 DEF ReplayDone
    <2> HIDE DEF c
    <2> QED
        BY <1>1, <1>4, <2>1, <2>2, <2>3, Pops
<1> QED
    BY <1>6, <1>7

(* Within an item the number only grows up to the limit; between items it   *)
(* does not change.                                                         *)
LEMMA EndChain == ChainInv /\ End => ChainInv'
<1> SUFFICES ASSUME ChainInv, End PROVE ChainInv'
    OBVIOUS
<1>1. /\ stack # << >> /\ Len(stack) = 1 /\ Top.stage = "done" /\ stack' = << >>
      /\ template' = template /\ sent' = sent /\ sent <= Limit(stack) /\ sent \in Nat /\ IsChain
    BY DEF End, InStage, ChainInv
<1>2. Limit(stack) = MaxReplay + 1
    <2>1. Top = LastOf(stack)
        BY <1>1, TopIsLast DEF ChainInv
    <2> QED
        BY <1>1, <2>1 DEF Limit, First
<1>3. Limit(stack') = MaxReplay + 1 /\ Limit(stack)' = Limit(stack')
    BY <1>1 DEF Limit, First, LastOf
<1>4. IsStack(stack)' /\ IsChain'
    BY <1>1 DEF IsStack, IsChain
<1> QED
    BY <1>1, <1>2, <1>3, <1>4 DEF ChainInv

LEMMA NextChain == ChainInv /\ [Next]_vars => ChainInv'
<1> SUFFICES ASSUME ChainInv, [Next]_vars PROVE ChainInv'
    OBVIOUS
<1>1. CASE UNCHANGED vars
    BY <1>1 DEF vars, ChainInv, IsChain, IsStack, IsCommand, Limit, First, LastOf
<1>2. CASE Begin
    BY <1>2, BeginChain
<1>3. CASE \/ LoadFile \/ LoadFiles \/ FilesLoaded \/ NoRequest \/ NoAuth \/ AuthSign
           \/ Send \/ AbortInTrigger \/ Abort \/ NetworkError \/ AbortError \/ ResponseStart
           \/ EndBeforePost
    BY <1>3, TopMoves
<1>4. CASE AuthPre
    BY <1>4, AuthPreChain
<1>5. CASE ResponseEnd
    BY <1>5, ResponseEndChain
<1>6. CASE AuthInit \/ ReplayDone
    BY <1>6, ReturnChain
<1>7. CASE End
    BY <1>7, EndChain
<1> QED
    BY <1>1, <1>2, <1>3, <1>4, <1>5, <1>6, <1>7 DEF Next, Proceed

(* An item whose requests form a chain sends at most MaxReplay + 1 of them, *)
(* in every round: the last command counts those before it.                 *)
LEMMA ChainIsBounded == ChainInv => BoundedRequests
<1> SUFFICES ASSUME ChainInv PROVE sent <= MaxReplay + 1
    BY DEF ChainInv, IsChain, BoundedRequests
<1>1. sent \in Nat /\ sent <= Limit(stack) /\ MaxReplay \in Nat
    BY BoundsAssumption DEF ChainInv
<1>2. CASE stack = << >>
    BY <1>1, <1>2 DEF Limit
<1>3. CASE stack # << >>
    <2>1. LastOf(stack).count \in 0 .. MaxReplay
        BY <1>3, TopIsLast DEF ChainInv, IsCommand
    <2> QED
        BY <1>1, <1>3, <2>1 DEF Limit
<1> QED
    BY <1>2, <1>3

(* However the server, the file system and the host answer, and whatever    *)
(* the limit: replays and requests sent first do not add up to more than    *)
(* the replay controller allows.                                            *)
THEOREM RequestsAreBounded == Spec => [](IsChain => BoundedRequests)
<1>1. Init => (IsChain => ChainInv)
    BY InitChain
<1>2. (IsChain => ChainInv) /\ [Next]_vars => (IsChain => ChainInv)'
    <2> SUFFICES ASSUME IsChain => ChainInv, [Next]_vars, IsChain' PROVE ChainInv'
        OBVIOUS
    <2>1. template' = template
        BY TemplateKept
    <2>2. IsChain
        BY <2>1 DEF IsChain
    <2> QED
        BY <2>2, NextChain
<1>3. (IsChain => ChainInv) => (IsChain => BoundedRequests)
    BY ChainIsBounded
<1> QED
    BY <1>1, <1>2, <1>3, PTL DEF Spec

(***************************************************************************)
(* Nothing is sent after the host was told of the start of a response       *)
(***************************************************************************)
(* What is left to do then is to end.                                       *)
Ending == \/ stack = << >>
          \/ Top.stage = "done"
          \/ Top.stage = "started" /\ ~Top.replay

StartInv ==
    /\ ChainInv
    /\ starts \in Nat
    /\ starts > 0 => Ending

(* With the handlers of the runtime, a command waits only for its replay.   *)
LEMMA NothingFirst ==
    ASSUME ChainInv, template.type # "custom", stack # << >>, Len(stack) > 1
    PROVE  stack[Len(stack) - 1].stage # "intermediate"
<1>1. Len(stack) \in Nat /\ Len(stack) - 1 \in 1 .. Len(stack)
    BY TopIsLast DEF ChainInv
<1>2. IsCommand(stack[Len(stack) - 1])
    BY <1>1 DEF ChainInv, IsStack
<1> QED
    BY <1>2 DEF IsCommand

(* The element that a step put on top is on top.                            *)
LEMMA TopAfter ==
    ASSUME ChainInv, stack # << >>, NEW c, stack' = WithTop(c)
    PROVE  Top' = c
<1>1. PICK S : stack \in Seq(S)
    BY DEF ChainInv, IsStack
<1>2. stack' = [stack EXCEPT ![Len(stack)] = c]
    BY DEF WithTop
<1>3. /\ Len(stack') = Len(stack) /\ stack'[Len(stack)] = c
    BY <1>1, <1>2, LastSet
<1>4. Top' = stack'[Len(stack')]
    BY DEF Top
<1> QED
    BY <1>3, <1>4

LEMMA EndingStays ==
    ASSUME ChainInv, template.type # "custom", starts > 0, Ending, starts' = starts,
           Next, ~Begin
    PROVE  Ending'
<1>1. stack # << >>
    BY DEF Next, Proceed, LoadFile, LoadFiles, FilesLoaded, NoRequest, NoAuth, AuthPre, AuthInit,
           AuthSign, Send, AbortInTrigger, Abort, NetworkError, AbortError, ResponseStart,
           ResponseEnd, EndBeforePost, ReplayDone, End, InStage
<1>2. Top.stage = "done" \/ (Top.stage = "started" /\ ~Top.replay)
    BY <1>1 DEF Ending
<1>3. Abort \/ NetworkError \/ AbortError \/ ResponseEnd \/ ReplayDone \/ End \/ AuthInit
    BY <1>2 DEF Next, Proceed, LoadFile, LoadFiles, FilesLoaded, NoRequest, NoAuth, AuthPre,
                AuthSign, Send, AbortInTrigger, ResponseStart, EndBeforePost, InStage
<1>4. DOMAIN Top = Fields
    BY <1>1, TopIsLast DEF ChainInv, IsCommand
<1>5. ASSUME NEW failed, Finish(failed) PROVE Top'.stage = "done"
    <2> DEFINE c == [Top EXCEPT !.stage = "done", !.failed = failed]
    <2>1. stack' = WithTop(c)
        BY <1>5 DEF Finish
    <2>2. c.stage = "done"
        BY <1>4 DEF Fields
    <2> HIDE DEF c
    <2> QED
        BY <1>1, <2>1, <2>2, TopAfter
<1>6. CASE Abort
    <2> DEFINE c == [Top EXCEPT !.aborted = TRUE]
    <2>1. stack' = WithTop(c) /\ Top.stage # "done"
        BY <1>6 DEF Abort, InStage
    <2>2. c.stage = Top.stage /\ c.replay = Top.replay
        BY <1>4 DEF Fields
    <2> HIDE DEF c
    <2>3. Top' = c
        BY <1>1, <2>1, TopAfter
    <2> QED
        BY <1>2, <2>1, <2>2, <2>3 DEF Ending
<1>7. CASE NetworkError \/ AbortError
    BY <1>5, <1>7 DEF NetworkError, AbortError, Failure, Ending
<1>8. CASE ResponseEnd
    <2>1. Top.stage = "started"
        BY <1>8 DEF ResponseEnd, InStage
    <2>2. Finish(FALSE)
        BY <1>2, <1>8, <2>1 DEF ResponseEnd
    <2> QED
        BY <1>5, <2>2 DEF Ending
<1>9. CASE ReplayDone
    <2> DEFINE b == stack[Len(stack) - 1]
    <2>1. /\ stack' = [Below EXCEPT ![Len(stack) - 1] =
                        [@ EXCEPT !.stage = "done", !.failed = Top.failed]]
          /\ Len(stack) > 1
        BY <1>9 DEF ReplayDone
    <2>2. PICK S : stack \in Seq(S)
        BY DEF ChainInv, IsStack
    <2>3. /\ Below \in Seq(S) /\ Len(Below) = Len(stack) - 1 /\ Below # << >>
          /\ Below[Len(stack) - 1] = b /\ Len(stack) - 1 \in 1 .. Len(stack)
          /\ Len(Below) \in DOMAIN Below
        <3>1. Len(stack) \in Nat /\ Len(stack) - 1 \in 1 .. Len(stack)
            BY <2>1, <2>2
        <3>2. /\ Below \in Seq(S) /\ Len(Below) = Len(stack) - 1
              /\ Below[Len(stack) - 1] = b
            BY <2>1, <2>2, <3>1 DEF Below
        <3>3. Len(Below) > 0 /\ Below # << >>
            BY <2>1, <3>1, <3>2
        <3>4. Len(Below) \in DOMAIN Below
            BY <3>2, <3>3
        <3> QED
            BY <3>1, <3>2, <3>3, <3>4
    <2>4. DOMAIN b = Fields
        BY <2>3 DEF ChainInv, IsStack, IsCommand
    <2> DEFINE c == [b EXCEPT !.stage = "done", !.failed = Top.failed]
    <2>5. c.stage = "done"
        BY <2>4 DEF Fields
    <2>6. stack' = [Below EXCEPT ![Len(Below)] = c]
        BY <2>1, <2>3
    <2> HIDE DEF c
    <2>7. Len(stack') = Len(Below) /\ stack'[Len(Below)] = c
        BY <2>3, <2>6, LastSet
    <2>8. Top' = stack'[Len(stack')]
        BY DEF Top
    <2> QED
        BY <2>5, <2>7, <2>8 DEF Ending
<1>10. CASE End
    BY <1>10 DEF End, Ending
<1>11. CASE AuthInit
    BY <1>11, <1>1, NothingFirst DEF AuthInit
<1> QED
    BY <1>3, <1>6, <1>7, <1>8, <1>9, <1>10, <1>11

(* Only the start of a response that is not replayed is told.               *)
LEMMA StartStep ==
    ASSUME StartInv, template.type # "custom", [Next]_vars
    PROVE  StartInv'
<1>1. ChainInv /\ ChainInv' /\ starts \in Nat
    BY NextChain DEF StartInv
<1>2. CASE UNCHANGED vars
    BY <1>1, <1>2 DEF StartInv, Ending, Top, vars
<1>3. CASE Begin
    BY <1>1, <1>3 DEF StartInv, Begin
<1>4. CASE Next /\ ~Begin /\ starts' = starts
    BY <1>1, <1>4, EndingStays DEF StartInv
<1>5. CASE ResponseStart /\ starts' # starts
    <2>1. PICK outcome :
            /\ stack' = WithTop([Top EXCEPT !.stage = "started", !.auth = outcome.auth,
                                            !.replay = outcome.result = "replay"])
            /\ starts' = IF TellsHost(outcome) THEN starts + 1 ELSE starts
        BY <1>5 DEF ResponseStart
    <2>2. starts' = starts + 1 /\ outcome.result # "replay" /\ stack # << >>
        BY <1>5, <2>1 DEF TellsHost, ResponseStart, InStage
    <2>3. DOMAIN Top = Fields
        BY <1>1, <2>2, TopIsLast DEF ChainInv, IsCommand
    <2> DEFINE c == [Top EXCEPT !.stage = "started", !.auth = outcome.auth,
                                !.replay = outcome.result = "replay"]
    <2>4. c.stage = "started" /\ ~c.replay
        BY <2>2, <2>3 DEF Fields
    <2>5. stack' = WithTop(c)
        BY <2>1
    <2> HIDE DEF c
    <2>6. Top' = c
        BY <1>1, <2>2, <2>5, TopAfter
    <2> QED
        BY <1>1, <2>2, <2>4, <2>6 DEF StartInv, Ending
<1>6. Next /\ ~Begin /\ starts' # starts => ResponseStart
    <2>1. ~EndBeforePost
        <3> SUFFICES ASSUME EndBeforePost PROVE FALSE
            OBVIOUS
        <3>1. stack # << >> /\ Top.type = "custom"
            BY DEF EndBeforePost, InStage
        <3> QED
            BY <1>1, <3>1, TopIsLast DEF ChainInv, IsCommand
    <2> QED
        BY <2>1 DEF Next, Proceed, LoadFile, LoadFiles, FilesLoaded, NoRequest, NoAuth, AuthPre,
            AuthInit, AuthSign, Send, AbortInTrigger, Abort, NetworkError, AbortError, Failure,
            ResponseEnd, ReplayDone, End
<1> QED
    BY <1>2, <1>3, <1>4, <1>5, <1>6

(* With the handlers of the runtime, the response whose start the host was  *)
(* told of is the last one of the item, whatever the server answers.        *)
THEOREM NothingIsSentAfterStart == Spec => NothingSentAfterStart
<1> DEFINE Inv == template.type # "custom" => StartInv
           Silent == starts > 0 /\ template.type # "custom" => sent' <= sent
<1>1. Init => Inv
    <2> SUFFICES ASSUME Init, template.type # "custom" PROVE StartInv
        OBVIOUS
    <2>1. ChainInv
        BY InitChain DEF IsChain
    <2> QED
        BY <2>1 DEF Init, StartInv
<1>2. Inv /\ [Next]_vars => Inv'
    <2> SUFFICES ASSUME Inv, [Next]_vars, template'.type # "custom" PROVE StartInv'
        OBVIOUS
    <2> QED
        BY TemplateKept, StartStep
<1>3. Inv /\ [Next]_vars => [Silent]_vars
    <2> SUFFICES ASSUME Inv, Next, starts > 0, template.type # "custom" PROVE sent' <= sent
        BY DEF vars
    <2>1. Ending /\ sent \in Nat
        BY DEF StartInv, ChainInv
    <2>2. CASE Begin
        BY <2>1, <2>2 DEF Begin
    <2>3. ~Send
        BY <2>1 DEF Ending, Send, InStage
    <2>4. CASE ~Begin
        <3>1. sent' = sent
            BY <2>3, <2>4 DEF Next, Proceed, LoadFile, LoadFiles, FilesLoaded, NoRequest, NoAuth,
                AuthPre, AuthInit, AuthSign, AbortInTrigger, Abort, NetworkError, AbortError,
                Failure, ResponseStart, ResponseEnd, EndBeforePost, ReplayDone, End
        <3> QED
            BY <2>1, <3>1
    <2> QED
        BY <2>2, <2>4
<1> QED
    BY <1>1, <1>2, <1>3, PTL DEF Spec, NothingSentAfterStart

(***************************************************************************)
(* What the user has written stays                                          *)
(***************************************************************************)
(* The parameters of the user's that have a value are in an auth as they    *)
(* are in the item's.                                                       *)
HasUsers(item, auth) ==
    \A key \in DOMAIN item.auth \ {"accessToken"} :
        item.auth[key].value # 0 => key \in DOMAIN auth /\ auth[key] = item.auth[key]

(* A parameter of the body at which the helper that loads files stops.      *)
Stops(file) == file.kind = "multi" /\ ~file.disabled

Contents == {"none", "stream", "buffer", "used", "json", "lost"}
File == [kind : Kinds, content : Contents, disabled : BOOLEAN]

(* What the helper has opened is a stream, of which it has come by: in a    *)
(* request, and while the helper is under way only behind it.               *)
IsRequest(r) ==
    /\ {"mode", "files"} \subseteq DOMAIN r
    /\ r.files \in Seq(File)
    /\ \A j \in DOMAIN r.files : r.files[j].content = "stream" =>
            /\ HasFiles(r)
            /\ r.files[j].kind = "single" /\ ~r.files[j].disabled
            /\ \A k \in 1 .. j : ~Stops(r.files[k])

IsLoading(r, at) ==
    /\ at \in Nat \ {0}
    /\ \A k \in DOMAIN r.files : IF k < at THEN ~Stops(r.files[k])
                                 ELSE r.files[k].content # "stream"

IsKept(item, c) ==
    /\ DOMAIN c = Fields
    /\ HasUsers(item, c.auth)
    /\ c.stage # "intermediate" => c.originalItem = c.home
    /\ IsRequest(c.request)
    /\ c.stage = "files" => IsLoading(c.request, c.at)

(* A file that was opened is so again, or the user has been warned.         *)
Again(r, file) == file.content = "stream" \/ NotLoaded(r, file) = file

(* How far the command after a replay has come with the files that the one  *)
(* before, which waits for it, had opened.                                  *)
Repeats(b, c) ==
    b.stage = "replaying" =>
        /\ c.request.mode = b.request.mode
        /\ IF c.stage = "files"
           THEN /\ DOMAIN c.request.files = DOMAIN b.request.files
                /\ \A j \in DOMAIN b.request.files :
                      IF j < c.at
                      THEN b.request.files[j].content = "stream" =>
                              Again(b.request, c.request.files[j])
                      ELSE /\ c.request.files[j].kind = b.request.files[j].kind
                           /\ c.request.files[j].disabled = b.request.files[j].disabled
           ELSE \A j \in DOMAIN b.request.files : b.request.files[j].content = "stream" =>
                    /\ j \in DOMAIN c.request.files
                    /\ Again(b.request, c.request.files[j])

Linked(item, s) ==
    /\ \E S : s \in Seq(S)
    /\ \A k \in 1 .. Len(s) : IsKept(item, s[k])
    /\ \A k \in 1 .. Len(s) - 1 : Repeats(s[k], s[k + 1])

KeptInv ==
    /\ template \in Templates
    /\ HasUsers(template, original)
    /\ Linked(template, stack)

(***************************************************************************)
(* The auth                                                                 *)
(***************************************************************************)
(* Neither set() nor the copying between clones touches what the user gave. *)
LEMMA SetAllKeeps ==
    ASSUME NEW item \in Templates, NEW auth, HasUsers(item, auth), NEW values
    PROVE  HasUsers(item, SetAll(auth, values))
<1> SUFFICES ASSUME NEW key \in DOMAIN item.auth \ {"accessToken"}, item.auth[key].value # 0
             PROVE  /\ key \in DOMAIN SetAll(auth, values)
                    /\ SetAll(auth, values)[key] = item.auth[key]
    BY DEF HasUsers
<1>1. key \in DOMAIN auth /\ auth[key] = item.auth[key] /\ item.auth[key].system = FALSE
    BY TemplatesAssumption DEF HasUsers
<1> QED
    BY <1>1 DEF SetAll

LEMMA SyncKeeps ==
    ASSUME NEW item \in Templates, NEW auth, NEW old, HasUsers(item, auth), HasUsers(item, old)
    PROVE  HasUsers(item, SyncSystem(auth, old))
<1> SUFFICES ASSUME NEW key \in DOMAIN item.auth \ {"accessToken"}, item.auth[key].value # 0
             PROVE  /\ key \in DOMAIN SyncSystem(auth, old)
                    /\ SyncSystem(auth, old)[key] = item.auth[key]
    BY DEF HasUsers
<1>1. /\ key \in DOMAIN auth /\ auth[key] = item.auth[key] /\ item.auth[key].system = FALSE
      /\ key \in DOMAIN old /\ old[key] = item.auth[key]
    BY TemplatesAssumption DEF HasUsers
<1> QED
    BY <1>1 DEF SyncSystem

LEMMA GoKeeps ==
    ASSUME NEW item, NEW auth, HasUsers(item, auth), NEW success, NEW outcome \in Go(auth, success)
    PROVE  HasUsers(item, outcome.auth)
<1> DEFINE result == IF success THEN "go" ELSE "no go"
<1>1. outcome = [result |-> result, auth |-> auth]
    BY DEF Go, Outcome
<1> HIDE DEF result
<1> QED
    BY <1>1

LEMMA PreKeeps ==
    ASSUME NEW item \in Templates, NEW auth, HasUsers(item, auth),
           NEW type, NEW outcome \in Pre(type, auth)
    PROVE  HasUsers(item, outcome.auth)
<1>1. CASE type = "oauth2"
    <2>1. outcome \in OAuth2Pre(auth)
        BY <1>1 DEF Pre
    <2>2. \/ outcome \in Go(auth, Get(auth, "accessToken") # 0)
          \/ outcome \in Go(SetSystem(auth, "accessToken", 2), TRUE)
          \/ outcome = Outcome("throws", auth)
        BY <2>1 DEF OAuth2Pre
    <2>3. HasUsers(item, SetSystem(auth, "accessToken", 2))
        BY DEF HasUsers, SetSystem
    <2>4. Outcome("throws", auth).auth = auth
        BY DEF Outcome
    <2> QED
        BY <2>2, <2>3, <2>4, GoKeeps
<1>2. CASE type = "custom"
    <2>1. PICK result : outcome = Outcome(result, auth)
        BY <1>2 DEF Pre, CustomPre
    <2> QED
        BY <2>1 DEF Outcome
<1>3. CASE type = "hawk"
    <2>1. outcome \in HawkPre(auth)
        BY <1>3 DEF Pre
    <2> DEFINE values == [key \in {k \in {"nonce", "timestamp"} : Get(auth, k) = 0} |-> 1]
    <2>2. outcome \in Go(SetAll(auth, values), TRUE)
        BY <2>1 DEF HawkPre
    <2>3. HasUsers(item, SetAll(auth, values))
        BY SetAllKeeps
    <2> QED
        BY <2>2, <2>3, GoKeeps
<1>4. CASE type = "ntlm"
    <2>1. outcome \in NtlmPre(auth)
        BY <1>4 DEF Pre
    <2>2. outcome \in Go(auth, TRUE) \/ outcome \in Go(NtlmState(auth, INITIALIZED, 0), TRUE)
        BY <2>1 DEF NtlmPre
    <2>3. HasUsers(item, NtlmState(auth, INITIALIZED, 0))
        BY SetAllKeeps DEF NtlmState
    <2> QED
        BY <2>2, <2>3, GoKeeps
<1>5. CASE type \notin {"oauth2", "custom", "hawk", "ntlm"}
    <2>1. \E success : outcome \in Go(auth, success)
        BY <1>5 DEF Pre, BearerPre, ApiKeyPre, EdgegridPre, DigestPre
    <2> QED
        BY <2>1, GoKeeps
<1> QED
    BY <1>1, <1>2, <1>3, <1>4, <1>5

LEMMA PostKeeps ==
    ASSUME NEW item \in Templates, NEW auth, HasUsers(item, auth),
           NEW type, NEW response, NEW outcome \in Post(type, auth, response)
    PROVE  HasUsers(item, outcome.auth)
<1>0. ASSUME NEW result, NEW a PROVE Outcome(result, a).auth = a
    BY DEF Outcome
<1>1. CASE type = "digest"
    <2>1. outcome \in DigestPost(auth, response)
        BY <1>1 DEF Post
    <2>2. \/ \E result : outcome = Outcome(result, auth)
          \/ \E values : outcome = Outcome("replay", SetAll(auth, values))
          \/ outcome = Outcome("success", IncreaseNonceCount(auth))
        BY <2>1 DEF DigestPost
    <2>3. HasUsers(item, IncreaseNonceCount(auth))
        BY SetAllKeeps DEF IncreaseNonceCount, Set
    <2> QED
        BY <1>0, <2>2, <2>3, SetAllKeeps
<1>2. CASE type = "ntlm"
    <2>1. outcome \in NtlmPost(auth, response)
        BY <1>2 DEF Post
    <2> DEFINE Stop(result) == Outcome(result, NtlmState(auth, INITIALIZED, 0))
    <2>2. \/ outcome = Outcome("success", auth)
          \/ outcome \in {Stop("success"), Stop("error")}
          \/ \E state, header : outcome = Outcome("replay", NtlmState(auth, state, header))
        BY <2>1 DEF NtlmPost, INITIALIZED, T1_MSG_CREATED
    <2>3. \A state, header : HasUsers(item, NtlmState(auth, state, header))
        BY SetAllKeeps DEF NtlmState
    <2> QED
        BY <1>0, <2>2, <2>3
<1>3. CASE type \notin {"digest", "ntlm"}
    <2>1. \E result : outcome = Outcome(result, auth)
        BY <1>3 DEF Post, CustomPost, Unchanged
    <2> QED
        BY <1>0, <2>1
<1> QED
    BY <1>1, <1>2, <1>3

(***************************************************************************)
(* The request                                                              *)
(***************************************************************************)
(* Signing changes headers and parameters only.                             *)
SameBody(r, q) ==
    /\ {"mode", "files"} \subseteq DOMAIN r
    /\ DOMAIN r = DOMAIN q
    /\ r.mode = q.mode /\ r.files = q.files

LEMMA EditKeeps ==
    ASSUME NEW request, NEW r, SameBody(r, request), NEW key, NEW value, NEW ignoreCase
    PROVE  /\ SameBody(AddHeader(r, key, value), request)
           /\ SameBody(AddQueryParams(r, key, value), request)
           /\ SameBody(AddBodyParams(r, key, value), request)
           /\ SameBody(RemoveHeader(r, key, ignoreCase), request)
           /\ SameBody(RemoveQueryParams(r, key), request)
           /\ SameBody(RemoveBodyParams(r, key), request)
BY DEF SameBody, AddHeader, AddQueryParams, AddBodyParams, RemoveHeader, RemoveQueryParams,
       RemoveBodyParams

LEMMA SignKeeps ==
    ASSUME NEW request, {"mode", "files"} \subseteq DOMAIN request,
           NEW type, NEW auth, NEW n, NEW signature \in Sign(type, auth, request, n)
    PROVE  SameBody(signature.request, request)
<1>0. SameBody(request, request)
    BY DEF SameBody
<1>1. ASSUME NEW r, SameBody(r, request), NEW added, NEW failed,
             signature = Signature(r, added, failed)
      PROVE  SameBody(signature.request, request)
    BY <1>1 DEF Signature
<1>2. ASSUME NEW r, SameBody(r, request), signature \in {Signed(r), Failed(r)} \/ signature \in NotSigned(r)
      PROVE  SameBody(signature.request, request)
    BY <1>1, <1>2 DEF Signed, Failed, NotSigned
<1>3. ASSUME NEW clean, SameBody(clean, request), NEW signed, SameBody(signed, request), NEW hashes,
             signature \in {IF hash = "throws" THEN Failed(clean) ELSE Signed(signed) : hash \in hashes}
      PROVE  SameBody(signature.request, request)
    BY <1>2, <1>3
<1>4. \A ignoreCase : SameBody(RemoveHeader(request, Authorization, ignoreCase), request)
    BY <1>0, EditKeeps
<1>5. ASSUME signature \in BasicSign(auth, request, n)
      PROVE  SameBody(signature.request, request)
    <2>1. signature = Signed(AddHeader(RemoveHeader(request, Authorization, TRUE), Authorization, <<n>>))
        BY <1>5 DEF BasicSign
    <2> QED
        BY <1>2, <1>4, <2>1, EditKeeps
<1>6. CASE type \in {"basic", "bearer", "custom", "asap"}
    <2>1. \/ signature \in BasicSign(auth, request, n)
          \/ signature = Failed(request)
          \/ signature \in NotSigned(request)
        BY <1>6 DEF Sign, BearerSign, CustomSign, AsapSign
    <2> QED
        BY <1>0, <1>2, <1>5, <2>1
<1>7. CASE type = "apikey"
    <2> DEFINE q == AddQueryParams(RemoveQueryParams(request, ApiKey), ApiKey, <<n>>)
               h == AddHeader(RemoveHeader(request, ApiKey, TRUE), ApiKey, <<n>>)
    <2>1. signature \in ApiKeySign(auth, request, n)
        BY <1>7 DEF Sign
    <2>2. signature \in NotSigned(request) \/ signature = Signed(q) \/ signature = Signed(h)
        BY <2>1 DEF ApiKeySign
    <2>3. SameBody(q, request) /\ SameBody(h, request)
        BY <1>0, EditKeeps
    <2> QED
        BY <1>0, <1>2, <2>2, <2>3
<1>8. CASE type = "oauth2"
    <2> DEFINE clean == RemoveQueryParams(RemoveHeader(request, Authorization, TRUE), AccessToken)
               q == AddQueryParams(clean, AccessToken, <<n>>)
               h == AddHeader(clean, Authorization, <<n>>)
    <2>1. signature \in OAuth2Sign(auth, request, n)
        BY <1>8 DEF Sign
    <2>2. \/ signature \in NotSigned(request) \/ signature = Signed(q) \/ signature = Signed(h)
          \/ signature \in NotSigned(clean)
        BY <2>1 DEF OAuth2Sign
    <2>3. SameBody(clean, request) /\ SameBody(q, request) /\ SameBody(h, request)
        BY <1>0, EditKeeps
    <2> QED
        BY <1>0, <1>2, <2>2, <2>3
<1>9. CASE type \in {"hawk", "edgegrid", "digest"}
    <2> DEFINE clean == RemoveHeader(request, Authorization, TRUE)
               signed == AddHeader(clean, Authorization, <<n>>)
               digested == AddHeader(clean, Authorization, DigestHeader(auth, n))
    <2>1. SameBody(clean, request) /\ SameBody(signed, request) /\ SameBody(digested, request)
        BY <1>0, EditKeeps
    <2>2. CASE type = "hawk"
        <3>1. signature \in HawkSign(auth, request, n)
            BY <2>2 DEF Sign
        <3>2. \/ signature \in NotSigned(request)
              \/ \E hashes : signature \in {IF hash = "throws" THEN Failed(clean) ELSE Signed(signed) :
                                                hash \in hashes}
              \/ signature = Failed(clean)
            BY <3>1 DEF HawkSign, SignHashed
        <3> QED
            BY <1>0, <1>2, <1>3, <2>1, <3>2
    <2>3. CASE type = "edgegrid"
        <3>1. signature \in EdgegridSign(auth, request, n)
            BY <2>3 DEF Sign
        <3>2. \/ signature \in NotSigned(request)
              \/ \E hashes : signature \in {IF hash = "throws" THEN Failed(clean) ELSE Signed(signed) :
                                                hash \in hashes}
            BY <3>1 DEF EdgegridSign, SignHashed
        <3> QED
            BY <1>0, <1>2, <1>3, <2>1, <3>2
    <2>4. CASE type = "digest"
        <3>1. signature \in DigestSign(auth, request, n)
            BY <2>4 DEF Sign
        <3>2. \/ signature \in NotSigned(request) \/ signature = Failed(clean)
              \/ \E hashes : signature \in {IF hash = "throws" THEN Failed(clean) ELSE Signed(digested) :
                                                hash \in hashes}
            BY <3>1 DEF DigestSign, SignHashed
        <3> QED
            BY <1>0, <1>2, <1>3, <2>1, <3>2
    <2> QED
        BY <1>9, <2>2, <2>3, <2>4
<1>10. CASE type = "awsv4"
    <2> DEFINE noHeaders == RemoveHeader(RemoveHeader(request, Authorization, TRUE), XAmz, TRUE)
               clean == RemoveQueryParams(noHeaders, XAmz)
               signed == Aws4AddAuthData(auth, clean, n)
    <2>1. SameBody(clean, request)
        BY <1>0, EditKeeps
    <2>2. SameBody(signed, request)
        BY <2>1, EditKeeps DEF Aws4AddAuthData
    <2>3. signature \in Aws4Sign(auth, request, n)
        BY <1>10 DEF Sign
    <2>4. \E hashes : signature \in {IF hash = "throws" THEN Failed(clean) ELSE Signed(signed) :
                                                hash \in hashes}
        BY <2>3 DEF Aws4Sign, SignHashed
    <2> QED
        BY <1>3, <2>1, <2>2, <2>4
<1>11. CASE type = "oauth1"
    <2> DEFINE noParams == RemoveQueryParams(RemoveHeader(request, Authorization, FALSE), OAuth)
               clean == IF request.mode = "urlencoded" THEN RemoveBodyParams(noParams, OAuth)
                        ELSE noParams
               signed == OAuth1AddAuthData(auth, clean, n)
    <2>1. SameBody(clean, request)
        BY <1>0, EditKeeps
    <2>2. SameBody(signed, request)
        BY <2>1, EditKeeps DEF OAuth1AddAuthData
    <2>3. signature \in OAuth1Sign(auth, request, n)
        BY <1>11 DEF Sign
    <2>4. \/ signature \in NotSigned(request) \/ signature = Failed(clean)
          \/ \E hashes : signature \in {IF hash = "throws" THEN Failed(clean) ELSE Signed(signed) :
                                                hash \in hashes}
        BY <2>3 DEF OAuth1Sign, SignHashed
    <2> QED
        BY <1>0, <1>2, <1>3, <2>1, <2>2, <2>4
<1>12. CASE type = "jwt"
    <2>1. SameBody(JwtAddToken(auth, request, n), request)
        BY <1>0, EditKeeps DEF JwtAddToken
    <2>2. signature \in JwtSign(auth, request, n)
        BY <1>12 DEF Sign
    <2>3. \/ signature = Failed(request)
          \/ \E added : signature = Signature(JwtAddToken(auth, request, n), added, FALSE)
        BY <2>2 DEF JwtSign
    <2> QED
        BY <1>0, <1>1, <1>2, <2>1, <2>3
<1>13. CASE type = "ntlm"
    <2> DEFINE clean == RemoveHeader(request, Authorization, TRUE)
               signed == AddHeader(clean, Authorization, <<n, Get(auth, "ntlmHeader")>>)
    <2>1. SameBody(clean, request) /\ SameBody(signed, request)
        BY <1>0, EditKeeps
    <2>2. signature \in NtlmSign(auth, request, n)
        BY <1>13 DEF Sign
    <2>3. signature \in NotSigned(clean) \/ signature = Signed(signed)
        BY <2>2 DEF NtlmSign
    <2> QED
        BY <1>2, <2>1, <2>3
<1>14. CASE type \notin { "awsv4", "basic", "bearer", "digest", "hawk", "oauth1", "oauth2", "asap",
                          "ntlm", "apikey", "edgegrid", "jwt", "custom" }
    <2>1. signature \in NotSigned(request)
        BY <1>14 DEF Sign
    <2> QED
        BY <1>0, <1>2, <2>1
<1> QED
    BY <1>6, <1>7, <1>8, <1>9, <1>10, <1>11, <1>12, <1>13, <1>14

(***************************************************************************)
(* The files of the body                                                    *)
(***************************************************************************)
LEMMA LoadKeeps ==
    ASSUME NEW r, NEW file \in File, file.content # "stream", file.kind # "multi",
           NEW new \in Load(r, file)
    PROVE  /\ new \in File
           /\ new.kind = file.kind
           /\ new.content = "stream" => new.kind = "single" /\ ~new.disabled
           /\ file.kind = "single" /\ ~file.disabled => Again(r, new)
<1>1. CASE file.disabled \/ file.kind \in {"text", "empty"}
    <2>1. new = file
        BY <1>1 DEF Load
    <2> QED
        BY <1>1, <2>1
<1>2. CASE ~file.disabled /\ file.kind = "base64"
    <2>1. new \in {[file EXCEPT !.content = "buffer"], [file EXCEPT !.content = "lost"], file}
        BY <1>2 DEF Load
    <2>2. new.kind = file.kind /\ new.content # "stream" /\ new \in File
        BY <2>1 DEF File, Contents
    <2> QED
        BY <1>2, <2>2
<1>3. CASE ~file.disabled /\ file.kind = "single"
    <2>1. new = [file EXCEPT !.content = "stream"] \/ new = NotLoaded(r, file)
        BY <1>3 DEF Load
    <2>2. CASE new = [file EXCEPT !.content = "stream"]
        BY <1>3, <2>2 DEF File, Contents, Again
    <2>3. CASE new = NotLoaded(r, file)
        <3>1. NotLoaded(r, new) = new
            BY <2>3 DEF NotLoaded, File
        <3>2. new \in File /\ new.kind = file.kind /\ new.content # "stream"
            BY <2>3 DEF NotLoaded, File, Contents
        <3> QED
            BY <3>1, <3>2 DEF Again
    <2> QED
        BY <2>1, <2>2, <2>3
<1> QED
    BY <1>1, <1>2, <1>3 DEF File, Kinds

(* The files of a clone are there, and none is open.                        *)
LEMMA CloneKeeps ==
    ASSUME NEW r, IsRequest(r)
    PROVE  /\ IsRequest(Clone(r)) /\ IsLoading(Clone(r), 1)
           /\ Clone(r).mode = r.mode
           /\ DOMAIN Clone(r).files = DOMAIN r.files
           /\ \A j \in DOMAIN r.files : /\ Clone(r).files[j].kind = r.files[j].kind
                                       /\ Clone(r).files[j].disabled = r.files[j].disabled
<1> DEFINE new(file) == IF file.content = "stream" THEN [file EXCEPT !.content = "used"]
                        ELSE IF file.content = "buffer" THEN [file EXCEPT !.content = "json"]
                        ELSE file
           files == [i \in DOMAIN r.files |-> new(r.files[i])]
<1>1. /\ {"mode", "files"} \subseteq DOMAIN r /\ r.files \in Seq(File)
      /\ DOMAIN r.files = 1 .. Len(r.files) /\ Len(r.files) \in Nat
    BY DEF IsRequest
<1>2. Clone(r) = [r EXCEPT !.files = files]
    BY DEF Clone
<1>3. ASSUME NEW file \in File
      PROVE  /\ new(file) \in File /\ new(file).kind = file.kind
             /\ new(file).disabled = file.disabled /\ new(file).content # "stream"
    <2>1. CASE file.content = "stream"
        BY <2>1 DEF File, Contents
    <2>2. CASE file.content # "stream"
        BY <2>2 DEF File, Contents
    <2> QED
        BY <2>1, <2>2
<1> HIDE DEF new
<1>4. \A i \in DOMAIN r.files :
            /\ files[i] \in File /\ files[i].kind = r.files[i].kind
            /\ files[i].disabled = r.files[i].disabled /\ files[i].content # "stream"
    BY <1>1, <1>3
<1>5. DOMAIN files = DOMAIN r.files /\ files \in Seq(File)
    BY <1>1, <1>4
<1> HIDE DEF files
<1>6. /\ Clone(r).files = files /\ Clone(r).mode = r.mode
      /\ {"mode", "files"} \subseteq DOMAIN Clone(r)
    BY <1>1, <1>2
<1>7. IsRequest(Clone(r))
    BY <1>4, <1>5, <1>6 DEF IsRequest
<1>8. IsLoading(Clone(r), 1)
    BY <1>1, <1>4, <1>5, <1>6 DEF IsLoading
<1> QED
    BY <1>4, <1>5, <1>6, <1>7, <1>8

(* What the helper makes of the request.                                    *)
WithFile(r, at, file) == [r EXCEPT !.files[at] = file]
WithFiles(r, at, loaded, single) ==
    [r EXCEPT !.files = SubSeq(@, 1, at - 1) \o [i \in 1 .. loaded |-> single]
                        \o SubSeq(@, at + 1, Len(@))]

LEMMA LoadFileKeeps ==
    ASSUME NEW r, IsRequest(r), NEW at, IsLoading(r, at), at <= Len(r.files), HasFiles(r),
           r.files[at].kind # "multi", NEW file \in Load(r, r.files[at])
    PROVE  LET q == WithFile(r, at, file)
           IN  /\ IsRequest(q) /\ IsLoading(q, at + 1) /\ q.mode = r.mode
               /\ DOMAIN q.files = DOMAIN r.files /\ q.files[at] = file
               /\ \A j \in DOMAIN r.files \ {at} : q.files[j] = r.files[j]
<1> DEFINE q == WithFile(r, at, file)
<1>1. /\ {"mode", "files"} \subseteq DOMAIN r /\ r.files \in Seq(File)
      /\ DOMAIN r.files = 1 .. Len(r.files) /\ Len(r.files) \in Nat
      /\ at \in Nat \ {0} /\ at \in DOMAIN r.files /\ r.files[at] \in File
    BY DEF IsRequest, IsLoading
<1>2. /\ file \in File /\ file.kind = r.files[at].kind
      /\ file.content = "stream" => file.kind = "single" /\ ~file.disabled
    <2>1. r.files[at].content # "stream"
        BY <1>1 DEF IsLoading
    <2> QED
        BY <1>1, <2>1, LoadKeeps
<1>3. q.files = [r.files EXCEPT ![at] = file] /\ q.mode = r.mode
      /\ {"mode", "files"} \subseteq DOMAIN q
    BY <1>1 DEF WithFile
<1> HIDE DEF q
<1>4. /\ DOMAIN q.files = DOMAIN r.files /\ q.files[at] = file
      /\ \A j \in DOMAIN r.files \ {at} : q.files[j] = r.files[j]
    BY <1>1, <1>3
<1>5. q.files \in Seq(File)
    BY <1>1, <1>2, <1>3
<1>6. ~Stops(file)
    BY <1>2 DEF Stops
<1>7. \A k \in 1 .. at : ~Stops(q.files[k])
    BY <1>1, <1>4, <1>6 DEF IsLoading
<1>8. IsRequest(q)
    <2> SUFFICES ASSUME NEW j \in DOMAIN q.files, q.files[j].content = "stream"
                 PROVE  /\ HasFiles(q)
                        /\ q.files[j].kind = "single" /\ ~q.files[j].disabled
                        /\ \A k \in 1 .. j : ~Stops(q.files[k])
        BY <1>3, <1>5 DEF IsRequest
    <2>1. HasFiles(q)
        BY <1>3 DEF HasFiles
    <2>2. CASE j = at
        BY <1>2, <1>4, <1>7, <2>1, <2>2
    <2>3. CASE j # at
        <3>1. q.files[j] = r.files[j] /\ j < at
            BY <1>1, <1>4, <2>3 DEF IsLoading
        <3>2. q.files[j].kind = "single" /\ ~q.files[j].disabled
            BY <1>4, <3>1 DEF IsRequest
        <3> QED
            BY <1>1, <1>4, <1>7, <2>1, <3>1, <3>2
    <2> QED
        BY <2>2, <2>3
<1>9. IsLoading(q, at + 1)
    BY <1>1, <1>4, <1>7 DEF IsLoading
<1> QED
    BY <1>3, <1>4, <1>8, <1>9 DEF q

LEMMA Concatenated ==
    ASSUME NEW S, NEW s \in Seq(S), NEW t \in Seq(S)
    PROVE  /\ s \o t \in Seq(S) /\ Len(s \o t) = Len(s) + Len(t)
           /\ \A j \in 1 .. Len(s) : (s \o t)[j] = s[j]
           /\ \A j \in 1 .. Len(s) + Len(t) : j > Len(s) => (s \o t)[j] = t[j - Len(s)]
OBVIOUS

(* A parameter with several files gives way to a parameter for each that    *)
(* can be opened; those before it are left alone.                           *)
LEMMA LoadFilesKeeps ==
    ASSUME NEW r, IsRequest(r), NEW at \in Nat, IsLoading(r, at), at <= Len(r.files), HasFiles(r),
           NEW loaded \in Nat, NEW single \in File, single.kind = "single",
           single.disabled = FALSE
    PROVE  LET q == WithFiles(r, at, loaded, single)
           IN  /\ IsRequest(q) /\ q.mode = r.mode
               /\ \A j \in DOMAIN r.files :
                        j < at => j \in DOMAIN q.files /\ q.files[j] = r.files[j]
<1> DEFINE before == SubSeq(r.files, 1, at - 1)
           opened == [i \in 1 .. loaded |-> single]
           after == SubSeq(r.files, at + 1, Len(r.files))
           files == before \o opened \o after
           q == WithFiles(r, at, loaded, single)
<1>1. /\ {"mode", "files"} \subseteq DOMAIN r /\ r.files \in Seq(File)
      /\ DOMAIN r.files = 1 .. Len(r.files) /\ Len(r.files) \in Nat
      /\ at \in Nat \ {0} /\ at \in DOMAIN r.files
    BY DEF IsRequest, IsLoading
<1>2. /\ before \in Seq(File) /\ Len(before) = at - 1
      /\ \A j \in 1 .. at - 1 : before[j] = r.files[j]
    BY <1>1
<1>3. opened \in Seq(File) /\ Len(opened) = loaded /\ \A j \in 1 .. loaded : opened[j] = single
    OBVIOUS
<1>4. /\ after \in Seq(File) /\ Len(after) = Len(r.files) - at
      /\ \A j \in 1 .. Len(after) : after[j] = r.files[at + j]
    <2>1. after \in Seq(File) /\ Len(after) = Len(r.files) - at
        BY <1>1
    <2> QED
        BY <1>1, <2>1
<1>b. q = [r EXCEPT !.files = files]
    BY DEF WithFiles
<1> HIDE DEF before, opened, after
<1>5. /\ files \in Seq(File) /\ Len(files) = at - 1 + loaded + Len(after)
      /\ \A j \in 1 .. at - 1 : files[j] = before[j]
      /\ \A j \in 1 .. Len(files) : at - 1 < j /\ j <= at - 1 + loaded =>
                                        files[j] = opened[j - (at - 1)]
      /\ \A j \in 1 .. Len(files) : at - 1 + loaded < j => files[j] = after[j - (at - 1 + loaded)]
    <2> DEFINE front == before \o opened
    <2>1. /\ front \in Seq(File) /\ Len(front) = at - 1 + loaded
          /\ \A j \in 1 .. at - 1 : front[j] = before[j]
          /\ \A j \in 1 .. Len(front) : at - 1 < j => front[j] = opened[j - (at - 1)]
        <3>1. /\ front \in Seq(File) /\ Len(front) = Len(before) + Len(opened)
              /\ \A j \in 1 .. Len(before) : front[j] = before[j]
              /\ \A j \in 1 .. Len(before) + Len(opened) :
                    j > Len(before) => front[j] = opened[j - Len(before)]
            <4>1. before \in Seq(File) /\ opened \in Seq(File)
                BY <1>2, <1>3
            <4> QED
                BY ONLY <4>1, Concatenated DEF front
        <3> HIDE DEF front
        <3> QED
            BY <1>1, <1>2, <1>3, <3>1
    <2> HIDE DEF front
    <2>2. /\ front \o after \in Seq(File) /\ Len(front \o after) = Len(front) + Len(after)
          /\ \A j \in 1 .. Len(front) : (front \o after)[j] = front[j]
          /\ \A j \in 1 .. Len(front) + Len(after) : j > Len(front) =>
                    (front \o after)[j] = after[j - Len(front)]
        BY <1>4, <2>1, Concatenated
    <2>3. files = front \o after
        BY DEF front
    <2> HIDE DEF files
    <2>4. Len(after) \in Nat /\ Len(front) \in Nat
        BY <1>1, <1>4, <2>1
    <2>5. files \in Seq(File) /\ Len(files) = at - 1 + loaded + Len(after)
        BY <2>1, <2>2, <2>3
    <2>6. \A j \in 1 .. at - 1 + loaded : files[j] = front[j]
        BY <2>1, <2>2, <2>3
    <2>7. \A j \in 1 .. Len(files) : at - 1 + loaded < j => files[j] = after[j - (at - 1 + loaded)]
        BY <2>1, <2>2, <2>3, <2>5
    <2>8. \A j \in 1 .. at - 1 : files[j] = before[j]
        BY <1>1, <2>1, <2>6
    <2>9. ASSUME NEW j \in 1 .. Len(files), at - 1 < j, j <= at - 1 + loaded
          PROVE  files[j] = opened[j - (at - 1)]
        BY <1>1, <2>1, <2>6, <2>9
    <2> QED
        BY <2>5, <2>7, <2>8, <2>9
<1> HIDE DEF files
<1> HIDE DEF q
<1>6. q.files = files /\ q.mode = r.mode /\ {"mode", "files"} \subseteq DOMAIN q
    BY <1>1, <1>b
<1>7. DOMAIN files = 1 .. Len(files) /\ Len(files) \in Nat
    BY <1>5
<1>a. Len(after) \in Nat
    BY <1>4
<1>8. ASSUME NEW j \in 1 .. at - 1
      PROVE  j \in DOMAIN files /\ files[j] = r.files[j] /\ ~Stops(files[j])
    <2>1. j \in DOMAIN r.files /\ j < at /\ j \in DOMAIN files
        BY <1>1, <1>5, <1>7, <1>a
    <2>2. files[j] = r.files[j]
        BY <1>2, <1>5
    <2> QED
        BY <2>1, <2>2 DEF IsLoading
<1>9. ~Stops(single)
    BY DEF Stops
<1>10. IsRequest(q)
    <2> SUFFICES ASSUME NEW j \in DOMAIN files, files[j].content = "stream"
                 PROVE  /\ files[j].kind = "single" /\ ~files[j].disabled
                        /\ \A k \in 1 .. j : ~Stops(files[k])
        BY <1>5, <1>6 DEF IsRequest, HasFiles
    <2>1. CASE j <= at - 1
        <3>1. files[j] = r.files[j] /\ j \in DOMAIN r.files
            BY <1>1, <1>7, <1>8, <2>1
        <3>2. files[j].kind = "single" /\ ~files[j].disabled
            BY <3>1 DEF IsRequest
        <3> QED
            BY <1>1, <1>7, <1>8, <2>1, <3>2
    <2>2. CASE ~(j <= at - 1) /\ j <= at - 1 + loaded
        <3>1. ASSUME NEW k \in 1 .. j, ~(k <= at - 1)
              PROVE  files[k] = single
            <4>1. k \in 1 .. Len(files) /\ k <= at - 1 + loaded /\ at - 1 < k
                BY <1>1, <1>7, <2>2, <3>1
            <4>2. files[k] = opened[k - (at - 1)]
                BY <1>5, <4>1
            <4>3. k - (at - 1) \in 1 .. loaded
                BY <1>1, <4>1
            <4> QED
                BY <1>3, <4>2, <4>3
        <3> QED
            BY <1>1, <1>7, <1>8, <1>9, <2>2, <3>1
    <2>3. CASE ~(j <= at - 1 + loaded)
        <3>1. files[j] = after[j - (at - 1 + loaded)] /\ j - (at - 1 + loaded) \in 1 .. Len(after)
            BY <1>1, <1>4, <1>5, <1>7, <2>3
        <3> DEFINE i == at + (j - (at - 1 + loaded))
        <3>2. i \in DOMAIN r.files /\ i > at
            BY <1>1, <1>4, <1>7, <2>3, <3>1
        <3>3. files[j] = r.files[i]
            BY <1>4, <3>1
        <3> HIDE DEF i
        <3>4. r.files[i].content # "stream"
            BY <1>1, <3>2 DEF IsLoading
        <3> QED
            BY <3>3, <3>4
    <2> QED
        BY <1>1, <1>7, <2>1, <2>2, <2>3
<1>11. \A j \in DOMAIN r.files : j < at => j \in 1 .. at - 1
    BY <1>1
<1> QED
    BY <1>6, <1>8, <1>10, <1>11 DEF q

(***************************************************************************)
(* The stack                                                                *)
(***************************************************************************)
LEMMA TopLinked ==
    ASSUME NEW item, NEW s, Linked(item, s), s # << >>
    PROVE  Len(s) \in Nat /\ Len(s) > 0 /\ IsKept(item, s[Len(s)])
<1>1. PICK S : s \in Seq(S)
    BY DEF Linked
<1>2. Len(s) \in Nat /\ Len(s) > 0
    BY <1>1
<1> QED
    BY <1>2 DEF Linked

(* The command at the top goes on, with the files it shares with the one    *)
(* below as they must be.                                                   *)
LEMMA LinkedSet ==
    ASSUME NEW item, NEW s, Linked(item, s), s # << >>, NEW c, IsKept(item, c),
           \A b : IsKept(item, b) /\ Repeats(b, s[Len(s)]) => Repeats(b, c)
    PROVE  LET t == [s EXCEPT ![Len(s)] = c]
           IN  Linked(item, t) /\ t # << >> /\ Len(t) = Len(s) /\ t[Len(s)] = c
<1> DEFINE t == [s EXCEPT ![Len(s)] = c]
<1>1. PICK S : s \in Seq(S)
    BY DEF Linked
<1>2. /\ t \in Seq(S \cup {c}) /\ Len(t) = Len(s) /\ t[Len(s)] = c
      /\ Len(s) \in Nat /\ Len(s) > 0
      /\ \A k \in 1 .. Len(s) - 1 : t[k] = s[k]
    BY <1>1, LastSet
<1> HIDE DEF t
<1>3. \A k \in 1 .. Len(t) : IsKept(item, t[k])
    BY <1>2 DEF Linked
<1>4. ASSUME NEW k \in 1 .. Len(t) - 1 PROVE Repeats(t[k], t[k + 1])
    <2>1. t[k] = s[k] /\ Repeats(s[k], s[k + 1]) /\ IsKept(item, s[k])
        BY <1>2 DEF Linked
    <2>2. CASE k + 1 = Len(s)
        BY <1>2, <2>1, <2>2
    <2>3. CASE k + 1 # Len(s)
        <3>1. k + 1 \in 1 .. Len(s) - 1
            <4>1. Len(t) = Len(s) /\ Len(s) \in Nat
                BY <1>2
            <4> QED
                BY <4>1, <2>3
        <3> QED
            BY <1>2, <2>1, <3>1
    <2> QED
        BY <2>2, <2>3
<1>5. t # << >>
    BY <1>2
<1>6. \E R : t \in Seq(R)
    BY <1>2
<1>7. Linked(item, t)
    BY <1>3, <1>4, <1>6 DEF Linked
<1> QED
    BY <1>2, <1>5, <1>7 DEF t

LEMMA LinkedAppend ==
    ASSUME NEW item, NEW s, Linked(item, s), s # << >>, NEW c, IsKept(item, c),
           Repeats(s[Len(s)], c)
    PROVE  Linked(item, Append(s, c))
<1> DEFINE t == Append(s, c)
<1>1. PICK S : s \in Seq(S)
    BY DEF Linked
<1>2. Len(s) \in Nat /\ Len(s) > 0
    BY <1>1
<1>3. /\ t \in Seq(S \cup {c}) /\ Len(t) = Len(s) + 1 /\ t[Len(s) + 1] = c
      /\ \A k \in 1 .. Len(s) : t[k] = s[k]
    BY <1>1, Appended
<1> HIDE DEF t
<1>4. \A k \in 1 .. Len(t) : IsKept(item, t[k])
    BY <1>2, <1>3 DEF Linked
<1>5. ASSUME NEW k \in 1 .. Len(t) - 1 PROVE Repeats(t[k], t[k + 1])
    <2>1. k \in 1 .. Len(s) /\ t[k] = s[k]
        BY <1>2, <1>3
    <2>2. CASE k = Len(s)
        BY <1>3, <2>1, <2>2
    <2>3. CASE k # Len(s)
        <3>1. k \in 1 .. Len(s) - 1 /\ k + 1 \in 1 .. Len(s)
            BY <1>2, <2>1, <2>3
        <3> QED
            BY <1>3, <2>1, <3>1 DEF Linked
    <2> QED
        BY <2>2, <2>3
<1>6. \E R : t \in Seq(R)
    BY <1>3
<1> QED
    BY <1>4, <1>5, <1>6 DEF Linked, t

LEMMA LinkedFront ==
    ASSUME NEW item, NEW s, Linked(item, s), Len(s) > 1, s # << >>
    PROVE  LET t == SubSeq(s, 1, Len(s) - 1)
           IN  /\ Linked(item, t) /\ t # << >> /\ Len(t) = Len(s) - 1
               /\ t[Len(s) - 1] = s[Len(s) - 1]
<1> DEFINE t == SubSeq(s, 1, Len(s) - 1)
<1>1. PICK S : s \in Seq(S)
    BY DEF Linked
<1>2. Len(s) \in Nat /\ Len(s) > 1
    BY <1>1
<1>3. /\ t \in Seq(S) /\ Len(t) = Len(s) - 1
      /\ \A k \in 1 .. Len(s) - 1 : t[k] = s[k]
    BY <1>1, <1>2
<1> HIDE DEF t
<1>4. \A k \in 1 .. Len(t) : IsKept(item, t[k])
    BY <1>2, <1>3 DEF Linked
<1>5. ASSUME NEW k \in 1 .. Len(t) - 1 PROVE Repeats(t[k], t[k + 1])
    <2>1. k \in 1 .. Len(s) - 1 /\ k + 1 \in 1 .. Len(s) - 1
        BY <1>2, <1>3
    <2> QED
        BY <1>3, <2>1 DEF Linked
<1>6. \E R : t \in Seq(R)
    BY <1>3
<1>7. Linked(item, t)
    BY <1>4, <1>5, <1>6 DEF Linked
<1>8. t # << >> /\ t[Len(s) - 1] = s[Len(s) - 1]
    BY <1>2, <1>3
<1> QED
    BY <1>3, <1>7, <1>8 DEF t

(***************************************************************************)
(* The steps                                                                *)
(***************************************************************************)
LEMMA TopKept ==
    ASSUME KeptInv, stack # << >>
    PROVE  IsKept(template, Top) /\ Len(stack) \in Nat /\ Len(stack) > 0
BY TopLinked DEF KeptInv, Top

LEMMA KeptMoves ==
    ASSUME KeptInv, stack # << >>, template' = template, HasUsers(template, original'),
           NEW c, stack' = WithTop(c), IsKept(template, c),
           \A b : IsKept(template, b) /\ Repeats(b, Top) => Repeats(b, c)
    PROVE  KeptInv'
<1>1. stack' = [stack EXCEPT ![Len(stack)] = c]
    BY DEF WithTop
<1>2. Linked(template, stack')
    <2>1. LET t == [stack EXCEPT ![Len(stack)] = c]
          IN  Linked(template, t) /\ t # << >> /\ Len(t) = Len(stack) /\ t[Len(stack)] = c
        BY LinkedSet DEF KeptInv, Top
    <2> QED
        BY <1>1, <2>1
<1> QED
    BY <1>2 DEF KeptInv

(* Once its files are loaded a command keeps them.                          *)
LEMMA SameMoves ==
    ASSUME KeptInv, stack # << >>, template' = template, HasUsers(template, original'),
           NEW c, stack' = WithTop(c), DOMAIN c = Fields, HasUsers(template, c.auth),
           c.stage # "intermediate" => c.originalItem = c.home,
           SameBody(c.request, Top.request), Top.stage # "files", c.stage # "files"
    PROVE  KeptInv'
<1>1. IsKept(template, Top)
    BY TopKept
<1>2. IsKept(template, c)
    BY <1>1 DEF IsKept, IsRequest, SameBody, HasFiles
<1>3. \A b : IsKept(template, b) /\ Repeats(b, Top) => Repeats(b, c)
    BY DEF Repeats, SameBody
<1> QED
    BY <1>2, <1>3, KeptMoves

LEMMA LoadFileKept ==
    ASSUME KeptInv, LoadFile
    PROVE  KeptInv'
<1>1. /\ stack # << >> /\ template' = template /\ original' = original
      /\ Top.stage = "files" /\ HasFiles(Top.request) /\ Top.at <= Len(Top.request.files)
      /\ Top.request.files[Top.at].kind # "multi"
    BY DEF LoadFile, InStage
<1>2. PICK file \in Load(Top.request, Top.request.files[Top.at]) :
        stack' = WithTop([Top EXCEPT !.request.files[Top.at] = file, !.at = @ + 1])
    BY DEF LoadFile
<1>3. IsKept(template, Top) /\ DOMAIN Top = Fields
    BY <1>1, TopKept DEF IsKept
<1>4. /\ IsRequest(Top.request) /\ IsLoading(Top.request, Top.at)
      /\ HasUsers(template, Top.auth) /\ Top.originalItem = Top.home
    BY <1>1, <1>3 DEF IsKept
<1> DEFINE at == Top.at
           q == WithFile(Top.request, at, file)
           c == [Top EXCEPT !.request.files[Top.at] = file, !.at = @ + 1]
<1>5. /\ IsRequest(q) /\ IsLoading(q, at + 1) /\ q.mode = Top.request.mode
      /\ DOMAIN q.files = DOMAIN Top.request.files /\ q.files[at] = file
      /\ \A j \in DOMAIN Top.request.files \ {at} : q.files[j] = Top.request.files[j]
    BY <1>1, <1>4, LoadFileKeeps
<1>6. /\ DOMAIN c = Fields /\ c.stage = "files" /\ c.auth = Top.auth /\ c.at = at + 1
      /\ c.originalItem = Top.originalItem /\ c.home = Top.home /\ c.request = q
    BY <1>1, <1>3 DEF Fields, WithFile
<1>7. stack' = WithTop(c)
    BY <1>2
<1>8. /\ at \in Nat \ {0} /\ at \in DOMAIN Top.request.files /\ Top.request.files[at] \in File
      /\ DOMAIN Top.request.files \subseteq Int
      /\ Top.request.files[at].content # "stream"
    BY <1>1, <1>4 DEF IsRequest, IsLoading
<1> HIDE DEF c, q, at
<1>9. IsKept(template, c)
    BY <1>3, <1>4, <1>5, <1>6 DEF IsKept
<1>10. ASSUME NEW b, IsKept(template, b), Repeats(b, Top), b.stage = "replaying"
       PROVE  Repeats(b, c)
    <2>1. /\ Top.request.mode = b.request.mode
          /\ DOMAIN Top.request.files = DOMAIN b.request.files
          /\ \A j \in DOMAIN b.request.files :
                IF j < at
                THEN b.request.files[j].content = "stream" => Again(b.request, Top.request.files[j])
                ELSE /\ Top.request.files[j].kind = b.request.files[j].kind
                     /\ Top.request.files[j].disabled = b.request.files[j].disabled
        BY <1>1, <1>10 DEF Repeats, at
    <2>2. b.request.files[at].content = "stream" => Again(b.request, file)
        <3> SUFFICES ASSUME b.request.files[at].content = "stream" PROVE Again(b.request, file)
            OBVIOUS
        <3>1. b.request.files[at].kind = "single" /\ ~b.request.files[at].disabled
            BY <1>8, <1>10, <2>1 DEF IsKept, IsRequest
        <3>2. Top.request.files[at].kind = "single" /\ ~Top.request.files[at].disabled
            BY <1>8, <2>1, <3>1
        <3>3. file \in Load(Top.request, Top.request.files[at])
            BY DEF at
        <3>4. Again(Top.request, file)
            BY <1>8, <3>2, <3>3, LoadKeeps
        <3> QED
            BY <2>1, <3>4 DEF Again, NotLoaded
    <2>3. ASSUME NEW j \in DOMAIN b.request.files
          PROVE  IF j < at + 1
                 THEN b.request.files[j].content = "stream" => Again(b.request, q.files[j])
                 ELSE /\ q.files[j].kind = b.request.files[j].kind
                      /\ q.files[j].disabled = b.request.files[j].disabled
        <3>1. CASE j = at
            BY <1>5, <1>8, <2>2, <3>1
        <3>2. CASE j # at
            BY <1>5, <1>8, <2>1, <3>2
        <3> QED
            BY <3>1, <3>2
    <2> QED
        BY <1>5, <1>6, <2>1, <2>3 DEF Repeats
<1>11. \A b : IsKept(template, b) /\ Repeats(b, Top) => Repeats(b, c)
    BY <1>10 DEF Repeats
<1> QED
    BY <1>1, <1>7, <1>9, <1>11, KeptMoves DEF KeptInv

LEMMA LoadFilesKept ==
    ASSUME KeptInv, LoadFiles
    PROVE  KeptInv'
<1> DEFINE at == Top.at
           r == Top.request
<1>1. /\ stack # << >> /\ template' = template /\ original' = original
      /\ Top.stage = "files" /\ HasFiles(r) /\ at <= Len(r.files)
      /\ r.files[at].kind = "multi"
    BY DEF LoadFiles, InStage
<1>2. IsKept(template, Top) /\ DOMAIN Top = Fields
    BY <1>1, TopKept DEF IsKept
<1>3. /\ IsRequest(r) /\ IsLoading(r, at)
      /\ HasUsers(template, Top.auth) /\ Top.originalItem = Top.home
    BY <1>1, <1>2 DEF IsKept
<1>4. /\ at \in Nat \ {0} /\ at \in DOMAIN r.files /\ r.files[at] \in File
      /\ DOMAIN r.files = 1 .. Len(r.files) /\ DOMAIN r.files \subseteq Int
      /\ {"mode", "files"} \subseteq DOMAIN r
    BY <1>1, <1>3 DEF IsRequest, IsLoading
(* What the command below has opened, and the top comes by.                 *)
<1>5. ASSUME NEW b, IsKept(template, b), Repeats(b, Top), b.stage = "replaying"
      PROVE  /\ r.mode = b.request.mode
             /\ DOMAIN r.files = DOMAIN b.request.files
             /\ \A j \in DOMAIN b.request.files :
                   IF j < at
                   THEN b.request.files[j].content = "stream" => Again(b.request, r.files[j])
                   ELSE /\ r.files[j].kind = b.request.files[j].kind
                        /\ r.files[j].disabled = b.request.files[j].disabled
    BY <1>1, <1>5 DEF Repeats
<1> HIDE DEF at, r
<1>6. CASE r.files[at].disabled
    <2> DEFINE c == [Top EXCEPT !.at = @ + 1]
    <2>1. stack' = WithTop(c)
        BY <1>6 DEF LoadFiles, at, r
    <2>2. /\ DOMAIN c = Fields /\ c.stage = "files" /\ c.auth = Top.auth /\ c.at = at + 1
          /\ c.originalItem = Top.originalItem /\ c.home = Top.home /\ c.request = r
        BY <1>1, <1>2 DEF Fields, at, r
    <2> HIDE DEF c
    <2>3. IsLoading(r, at + 1)
        BY <1>3, <1>4, <1>6 DEF IsLoading, Stops
    <2>4. IsKept(template, c)
        BY <1>3, <2>2, <2>3 DEF IsKept
    <2>5. ASSUME NEW b, IsKept(template, b), Repeats(b, Top), b.stage = "replaying"
          PROVE  Repeats(b, c)
        <3>1. /\ r.mode = b.request.mode
              /\ DOMAIN r.files = DOMAIN b.request.files
              /\ \A j \in DOMAIN b.request.files :
                    IF j < at
                    THEN b.request.files[j].content = "stream" => Again(b.request, r.files[j])
                    ELSE /\ r.files[j].kind = b.request.files[j].kind
                         /\ r.files[j].disabled = b.request.files[j].disabled
            BY <1>5, <2>5
        <3>2. b.request.files[at].kind = "multi"
            BY <1>1, <1>4, <3>1
        <3>3. b.request.files[at].content # "stream"
            BY <1>4, <2>5, <3>1, <3>2 DEF IsKept, IsRequest
        <3>4. ASSUME NEW j \in DOMAIN b.request.files
              PROVE  IF j < at + 1
                     THEN b.request.files[j].content = "stream" => Again(b.request, r.files[j])
                     ELSE /\ r.files[j].kind = b.request.files[j].kind
                          /\ r.files[j].disabled = b.request.files[j].disabled
            <4>1. j < at + 1 <=> j < at \/ j = at
                BY <1>4, <3>1
            <4> QED
                BY <3>1, <3>3, <4>1
        <3> QED
            BY <2>2, <3>1, <3>4 DEF Repeats
    <2>6. \A b : IsKept(template, b) /\ Repeats(b, Top) => Repeats(b, c)
        BY <2>5 DEF Repeats
    <2> QED
        BY <1>1, <2>1, <2>4, <2>6, KeptMoves DEF KeptInv
<1>7. CASE ~r.files[at].disabled
    <2> DEFINE single == [r.files[at] EXCEPT !.kind = "single", !.content = "stream"]
    <2>1. PICK loaded \in 0 .. 2 :
            stack' = WithTop([Top EXCEPT !.stage = "auth",
                        !.request.files = SubSeq(@, 1, at - 1) \o [i \in 1 .. loaded |-> single]
                                          \o SubSeq(@, at + 1, Len(@))])
        BY <1>7 DEF LoadFiles, at, r
    <2>2. single \in File /\ single.kind = "single" /\ single.disabled = FALSE
        BY <1>4, <1>7 DEF File, Kinds, Contents
    <2> HIDE DEF single
    <2> DEFINE q == WithFiles(r, at, loaded, single)
               c == [Top EXCEPT !.stage = "auth",
                        !.request.files = SubSeq(@, 1, at - 1) \o [i \in 1 .. loaded |-> single]
                                          \o SubSeq(@, at + 1, Len(@))]
    <2>3. /\ IsRequest(q) /\ q.mode = r.mode
          /\ \A j \in DOMAIN r.files :
                j < at => j \in DOMAIN q.files /\ q.files[j] = r.files[j]
        <3>1. loaded \in Nat
            OBVIOUS
        <3> HIDE DEF c
        <3>2. /\ IsRequest(r) /\ at \in Nat /\ IsLoading(r, at) /\ at <= Len(r.files) /\ HasFiles(r)
              /\ single \in File /\ single.kind = "single" /\ single.disabled = FALSE
            BY <1>1, <1>3, <1>4, <2>2
        <3>3. IsRequest(q)
            BY <3>1, <3>2, LoadFilesKeeps
        <3>4. q.mode = r.mode
            BY <3>1, <3>2, LoadFilesKeeps
        <3>5. ASSUME NEW j \in DOMAIN r.files, j < at
              PROVE  j \in DOMAIN q.files /\ q.files[j] = r.files[j]
            BY <3>1, <3>2, <3>5, LoadFilesKeeps
        <3> QED
            BY <3>3, <3>4, <3>5
    <2>4. /\ DOMAIN c = Fields /\ c.stage = "auth" /\ c.auth = Top.auth
          /\ c.originalItem = Top.originalItem /\ c.home = Top.home /\ c.request = q
        BY <1>1, <1>2 DEF Fields, r, WithFiles
    <2>5. stack' = WithTop(c)
        BY <2>1
    <2> HIDE DEF c, q
    <2>6. IsKept(template, c)
        BY <1>3, <2>3, <2>4 DEF IsKept
    <2>7. ASSUME NEW b, IsKept(template, b), Repeats(b, Top), b.stage = "replaying"
          PROVE  Repeats(b, c)
        <3>1. /\ r.mode = b.request.mode
              /\ DOMAIN r.files = DOMAIN b.request.files
              /\ \A j \in DOMAIN b.request.files :
                    IF j < at
                    THEN b.request.files[j].content = "stream" => Again(b.request, r.files[j])
                    ELSE /\ r.files[j].kind = b.request.files[j].kind
                         /\ r.files[j].disabled = b.request.files[j].disabled
            BY <1>5, <2>7
        <3>2. Stops(b.request.files[at])
            BY <1>1, <1>4, <1>7, <3>1 DEF Stops
        <3>3. ASSUME NEW j \in DOMAIN b.request.files, b.request.files[j].content = "stream"
              PROVE  j \in DOMAIN q.files /\ Again(b.request, q.files[j])
            <4>1. j \in 1 .. Len(r.files) /\ j \in Int
                BY <1>4, <3>1
            <4>2. \A k \in 1 .. j : ~Stops(b.request.files[k])
                BY <2>7, <3>3 DEF IsKept, IsRequest
            <4>3. j < at /\ j \in DOMAIN r.files
                BY <1>4, <3>1, <3>2, <4>1, <4>2
            <4> QED
                BY <2>3, <3>1, <3>3, <4>3
        <3> QED
            BY <2>3, <2>4, <3>1, <3>3 DEF Repeats
    <2>8. \A b : IsKept(template, b) /\ Repeats(b, Top) => Repeats(b, c)
        BY <2>7 DEF Repeats
    <2> QED
        BY <1>1, <2>5, <2>6, <2>8, KeptMoves DEF KeptInv
<1> QED
    BY <1>6, <1>7

(* The helper is through, or there is nothing for it to do.                 *)
LEMMA LoadedKept ==
    ASSUME KeptInv, FilesLoaded \/ NoRequest
    PROVE  KeptInv'
<1>1. /\ stack # << >> /\ template' = template /\ original' = original
      /\ Top.stage = "files"
      /\ HasFiles(Top.request) => Top.at > Len(Top.request.files)
    BY DEF FilesLoaded, NoRequest, InStage, HasFiles
<1>2. IsKept(template, Top) /\ DOMAIN Top = Fields
    BY <1>1, TopKept DEF IsKept
<1>3. PICK c : /\ stack' = WithTop(c) /\ DOMAIN c = Fields
               /\ c.stage \in {"auth", "done"}
               /\ c.auth = Top.auth /\ c.request = Top.request
               /\ c.originalItem = Top.originalItem /\ c.home = Top.home
    <2>1. CASE FilesLoaded
        <3> DEFINE c == [Top EXCEPT !.stage = "auth"]
        <3>1. stack' = WithTop(c)
            BY <2>1 DEF FilesLoaded, GoTo
        <3>2. /\ DOMAIN c = Fields /\ c.stage = "auth" /\ c.auth = Top.auth
              /\ c.request = Top.request
              /\ c.originalItem = Top.originalItem /\ c.home = Top.home
            BY <1>2 DEF Fields
        <3> HIDE DEF c
        <3> QED
            BY <3>1, <3>2
    <2>2. CASE NoRequest
        <3> DEFINE c == [Top EXCEPT !.stage = "done", !.failed = TRUE]
        <3>1. stack' = WithTop(c)
            BY <2>2 DEF NoRequest, Finish
        <3>2. /\ DOMAIN c = Fields /\ c.stage = "done" /\ c.auth = Top.auth
              /\ c.request = Top.request
              /\ c.originalItem = Top.originalItem /\ c.home = Top.home
            BY <1>2 DEF Fields
        <3> HIDE DEF c
        <3> QED
            BY <3>1, <3>2
    <2> QED
        BY <2>1, <2>2
<1>4. IsKept(template, c)
    BY <1>1, <1>2, <1>3 DEF IsKept
<1>5. ASSUME NEW b, IsKept(template, b), Repeats(b, Top), b.stage = "replaying"
      PROVE  Repeats(b, c)
    <2>1. /\ Top.request.mode = b.request.mode
          /\ DOMAIN Top.request.files = DOMAIN b.request.files
          /\ \A j \in DOMAIN b.request.files :
                j < Top.at => (b.request.files[j].content = "stream" =>
                                    Again(b.request, Top.request.files[j]))
        BY <1>1, <1>5 DEF Repeats
    <2>2. ASSUME NEW j \in DOMAIN b.request.files, b.request.files[j].content = "stream"
          PROVE  j < Top.at
        <3>1. HasFiles(Top.request)
            BY <1>5, <2>1, <2>2 DEF IsKept, IsRequest, HasFiles
        <3>2. j \in 1 .. Len(Top.request.files) /\ Len(Top.request.files) \in Nat /\ Top.at \in Nat
            BY <1>1, <1>2, <2>1 DEF IsKept, IsRequest, IsLoading
        <3> QED
            BY <1>1, <3>1, <3>2
    <2> QED
        BY <1>3, <2>1, <2>2 DEF Repeats
<1>6. \A b : IsKept(template, b) /\ Repeats(b, Top) => Repeats(b, c)
    BY <1>5 DEF Repeats
<1> QED
    BY <1>1, <1>3, <1>4, <1>6, KeptMoves DEF KeptInv

(* Another stage of the command, which leaves alone what it sends.          *)
SameItem(c) ==
    /\ DOMAIN c = Fields
    /\ c.stage \notin {"files", "intermediate"}
    /\ c.auth = Top.auth /\ c.request = Top.request
    /\ c.originalItem = Top.originalItem /\ c.home = Top.home

LEMMA StageMoves ==
    ASSUME KeptInv, stack # << >>, template' = template, original' = original,
           Top.stage \notin {"files", "intermediate"},
           NEW c, SameItem(c), stack' = WithTop(c)
    PROVE  KeptInv'
<1>1. IsKept(template, Top)
    BY TopKept
<1>2. HasUsers(template, c.auth) /\ c.originalItem = c.home /\ SameBody(c.request, Top.request)
    BY <1>1 DEF IsKept, IsRequest, SameBody, SameItem
<1>3. HasUsers(template, original')
    BY DEF KeptInv
<1> QED
    BY <1>2, <1>3, SameMoves DEF SameItem

LEMMA StagesKept ==
    ASSUME KeptInv,
           NoAuth \/ Send \/ AbortInTrigger \/ Abort \/ NetworkError \/ AbortError \/ EndBeforePost
    PROVE  KeptInv'
<1>1. /\ stack # << >> /\ template' = template /\ original' = original
      /\ Top.stage \in {"auth", "send", "sent", "started"}
    BY DEF NoAuth, Send, AbortInTrigger, Abort, NetworkError, AbortError, EndBeforePost, Failure,
           InStage
<1>2. DOMAIN Top = Fields
    BY <1>1, TopKept DEF IsKept
<1>3. CASE NoAuth \/ Send
    <2>1. PICK stage \in {"send", "sent"} : stack' = WithTop([Top EXCEPT !.stage = stage])
        BY <1>3 DEF NoAuth, Send, GoTo
    <2> DEFINE c == [Top EXCEPT !.stage = stage]
    <2>2. SameItem(c)
        BY <1>2 DEF Fields, SameItem
    <2>3. stack' = WithTop(c)
        BY <2>1
    <2> HIDE DEF c
    <2> QED
        BY <1>1, <2>2, <2>3, StageMoves
<1>4. CASE AbortInTrigger \/ NetworkError \/ AbortError \/ EndBeforePost
    <2>0. PICK failed : stack' = WithTop([Top EXCEPT !.stage = "done", !.failed = failed])
        BY <1>4 DEF AbortInTrigger, NetworkError, AbortError, EndBeforePost, Failure, Finish
    <2> DEFINE c == [Top EXCEPT !.stage = "done", !.failed = failed]
    <2>1. stack' = WithTop(c)
        BY <2>0
    <2>2. SameItem(c)
        BY <1>2 DEF Fields, SameItem
    <2> HIDE DEF c
    <2> QED
        BY <1>1, <2>1, <2>2, StageMoves
<1>5. CASE Abort
    <2> DEFINE c == [Top EXCEPT !.aborted = TRUE]
    <2>1. stack' = WithTop(c)
        BY <1>5 DEF Abort
    <2>2. SameItem(c)
        BY <1>1, <1>2 DEF Fields, SameItem
    <2> HIDE DEF c
    <2> QED
        BY <1>1, <2>1, <2>2, StageMoves
<1> QED
    BY <1>3, <1>4, <1>5

LEMMA AuthSignKept ==
    ASSUME KeptInv, AuthSign
    PROVE  KeptInv'
<1>1. /\ stack # << >> /\ template' = template /\ original' = original /\ Top.stage = "sign"
    BY DEF AuthSign, InStage
<1>2. IsKept(template, Top)
    BY <1>1, TopKept
<1>3. PICK signature \in Sign(Top.type, Top.auth, Top.request, Len(stack)) :
        stack' = WithTop([Top EXCEPT !.stage = "send", !.request = signature.request])
    BY DEF AuthSign
<1>4. SameBody(signature.request, Top.request)
    BY <1>2, SignKeeps DEF IsKept, IsRequest
<1> DEFINE c == [Top EXCEPT !.stage = "send", !.request = signature.request]
<1>5. /\ DOMAIN c = Fields /\ c.stage = "send" /\ c.auth = Top.auth
      /\ c.request = signature.request
      /\ c.originalItem = Top.originalItem /\ c.home = Top.home
    BY <1>2 DEF IsKept, Fields
<1>6. stack' = WithTop(c)
    BY <1>3
<1> HIDE DEF c
<1>7. HasUsers(template, c.auth) /\ c.originalItem = c.home
    BY <1>1, <1>2, <1>5 DEF IsKept
<1>8. HasUsers(template, original')
    BY <1>1 DEF KeptInv
<1> QED
    BY <1>1, <1>4, <1>5, <1>6, <1>7, <1>8, SameMoves

(* What a handler has made of the auth, and the runtime copies.             *)
LEMMA AuthMoves ==
    ASSUME KeptInv, stack # << >>, template' = template, HasUsers(template, original'),
           NEW stage, stage \notin {"files", "intermediate"},
           Top.stage \notin {"files", "intermediate"},
           NEW auth, HasUsers(template, auth), NEW replay,
           stack' = WithTop([Top EXCEPT !.stage = stage, !.auth = auth, !.replay = replay])
    PROVE  KeptInv'
<1> DEFINE c == [Top EXCEPT !.stage = stage, !.auth = auth, !.replay = replay]
<1>1. IsKept(template, Top)
    BY TopKept
<1>2. /\ DOMAIN c = Fields /\ c.stage = stage /\ c.auth = auth /\ c.request = Top.request
      /\ c.originalItem = Top.originalItem /\ c.home = Top.home
    BY <1>1 DEF IsKept, Fields
<1>3. stack' = WithTop(c)
    OBVIOUS
<1> HIDE DEF c
<1>4. HasUsers(template, c.auth) /\ c.originalItem = c.home /\ SameBody(c.request, Top.request)
    BY <1>1, <1>2 DEF IsKept, IsRequest, SameBody
<1> QED
    BY <1>2, <1>3, <1>4, SameMoves

LEMMA ResponseStartKept ==
    ASSUME KeptInv, ResponseStart
    PROVE  KeptInv'
<1>1. stack # << >> /\ template' = template /\ Top.stage = "sent" /\ template \in Templates
    BY DEF ResponseStart, InStage, KeptInv
<1>2. HasUsers(template, Top.auth) /\ HasUsers(template, original)
    BY <1>1, TopKept DEF IsKept, KeptInv
<1>3. PICK response, outcome :
        /\ outcome \in IF HasHandler(Top) THEN Post(Top.type, Top.auth, response)
                       ELSE {Outcome("success", Top.auth)}
        /\ stack' = WithTop([Top EXCEPT !.stage = "started", !.auth = outcome.auth,
                                        !.replay = outcome.result = "replay"])
        /\ original' = SyncSystem(outcome.auth, original) \/ original' = original
    BY DEF ResponseStart
<1>4. HasUsers(template, outcome.auth)
    <2>1. CASE HasHandler(Top)
        BY <1>1, <1>2, <1>3, <2>1, PostKeeps
    <2>2. CASE ~HasHandler(Top)
        BY <1>2, <1>3, <2>2 DEF Outcome
    <2> QED
        BY <2>1, <2>2
<1>5. HasUsers(template, original')
    BY <1>1, <1>2, <1>3, <1>4, SyncKeeps
<1> QED
    BY <1>1, <1>3, <1>4, <1>5, AuthMoves

(* A command waits for another one that the replay controller makes.        *)
PushesOne(stage, originalItem, request) ==
    stack' = Append(WithTop([Top EXCEPT !.stage = stage, !.count = @ + 1,
                                        !.originalItem = originalItem]),
                    Command(request, Top.count + 1, originalItem))

LEMMA KeptPushes ==
    ASSUME KeptInv, stack # << >>, template' = template, HasUsers(template, original'),
           Top.stage # "files", NEW stage \in {"intermediate", "replaying"},
           NEW originalItem, NEW request, PushesOne(stage, originalItem, request),
           IsRequest(request), IsLoading(request, 1),
           stage = "replaying" => originalItem = Top.home,
           stage = "replaying" => request = Clone(Top.request)
    PROVE  KeptInv'
<1> DEFINE b == [Top EXCEPT !.stage = stage, !.count = @ + 1, !.originalItem = originalItem]
           c == Command(request, Top.count + 1, originalItem)
           s == WithTop(b)
<1>1. stack' = Append(s, c)
    BY DEF PushesOne
<1>2. IsKept(template, Top)
    BY TopKept
<1>3. /\ DOMAIN b = Fields /\ b.stage = stage /\ b.auth = Top.auth /\ b.request = Top.request
      /\ b.originalItem = originalItem /\ b.home = Top.home
    BY <1>2 DEF IsKept, Fields
<1>4. /\ DOMAIN c = Fields /\ c.stage = "files" /\ c.auth = original /\ c.request = request
      /\ c.originalItem = c.home /\ c.at = 1
    BY DEF Command, Fields
<1>5. s = [stack EXCEPT ![Len(stack)] = b]
    BY DEF WithTop
<1> HIDE DEF b, c, s
<1>6. IsKept(template, b)
    BY <1>2, <1>3 DEF IsKept
<1>7. IsKept(template, c)
    BY <1>4 DEF IsKept, KeptInv
<1>8. \A a : IsKept(template, a) /\ Repeats(a, Top) => Repeats(a, b)
    BY <1>3 DEF Repeats
<1>9. Linked(template, s) /\ s # << >> /\ s[Len(s)] = b
    <2>1. LET t == [stack EXCEPT ![Len(stack)] = b]
          IN  Linked(template, t) /\ t # << >> /\ Len(t) = Len(stack) /\ t[Len(stack)] = b
        BY <1>6, <1>8, LinkedSet DEF KeptInv, Top
    <2> QED
        BY <1>5, <2>1
<1>10. Repeats(b, c)
    <2> SUFFICES ASSUME stage = "replaying" PROVE Repeats(b, c)
        BY <1>3 DEF Repeats
    <2>1. IsRequest(Top.request)
        BY <1>2 DEF IsKept
    <2>2. /\ c.request.mode = b.request.mode
          /\ DOMAIN c.request.files = DOMAIN b.request.files
          /\ \A j \in DOMAIN b.request.files :
                /\ c.request.files[j].kind = b.request.files[j].kind
                /\ c.request.files[j].disabled = b.request.files[j].disabled
        BY <1>3, <1>4, <2>1, CloneKeeps
    <2>3. \A j \in DOMAIN b.request.files : ~(j < 1)
        BY <1>3, <2>1 DEF IsRequest
    <2> QED
        BY <1>4, <2>2, <2>3 DEF Repeats
<1>11. Linked(template, Append(s, c))
    BY <1>7, <1>9, <1>10, LinkedAppend
<1> QED
    BY <1>1, <1>11 DEF KeptInv

LEMMA AuthPreKept ==
    ASSUME KeptInv, AuthPre
    PROVE  KeptInv'
<1>1. stack # << >> /\ template' = template /\ Top.stage = "auth" /\ template \in Templates
    BY DEF AuthPre, InStage, KeptInv
<1>2. /\ DOMAIN Top = Fields /\ HasUsers(template, Top.auth) /\ HasUsers(template, original)
    BY <1>1, TopKept DEF IsKept, KeptInv
<1>3. PICK outcome \in Pre(Top.type, Top.auth) :
        /\ original' = original \/ original' = SyncSystem(outcome.auth, original)
        /\ outcome.result = "go" =>
                stack' = WithTop([Top EXCEPT !.stage = "sign", !.auth = outcome.auth])
        /\ outcome.result = "no go" =>
                stack' = WithTop([Top EXCEPT !.stage = "send", !.auth = outcome.auth])
        /\ outcome.result = "intermediate" =>
                RequestReplay("intermediate", Len(stack), BlankRequest, GoTo("send"))
        /\ outcome.result = "error" => GoTo("send")
        /\ outcome.result = "throws" => GoTo("lost") \/ Finish(TRUE)
    BY DEF AuthPre
<1>4. outcome.result \in {"go", "no go", "intermediate", "error", "throws"}
    BY OutcomeResults
<1>5. HasUsers(template, outcome.auth)
    BY <1>1, <1>2, PreKeeps
<1>6. HasUsers(template, original')
    BY <1>1, <1>2, <1>3, <1>5, SyncKeeps
<1>7. ASSUME NEW stage \in {"send", "lost"}, GoTo(stage) PROVE KeptInv'
    <2> DEFINE c == [Top EXCEPT !.stage = stage]
    <2>1. stack' = WithTop(c)
        BY <1>7 DEF GoTo
    <2>2. SameItem(c)
        BY <1>2 DEF Fields, SameItem
    <2> HIDE DEF c
    <2>3. DOMAIN c = Fields /\ c.stage \notin {"files", "intermediate"}
          /\ HasUsers(template, c.auth) /\ c.originalItem = c.home
          /\ SameBody(c.request, Top.request)
        BY <1>1, <2>2, TopKept DEF SameItem, IsKept, IsRequest, SameBody
    <2> QED
        BY <1>1, <1>6, <2>1, <2>3, SameMoves
<1>8. ASSUME NEW stage \in {"sign", "send"},
             stack' = WithTop([Top EXCEPT !.stage = stage, !.auth = outcome.auth])
      PROVE  KeptInv'
    <2> DEFINE c == [Top EXCEPT !.stage = stage, !.auth = outcome.auth]
    <2>1. stack' = WithTop(c)
        BY <1>8
    <2>2. /\ DOMAIN c = Fields /\ c.stage = stage /\ c.auth = outcome.auth
          /\ c.request = Top.request /\ c.originalItem = Top.originalItem /\ c.home = Top.home
        BY <1>2 DEF Fields
    <2> HIDE DEF c
    <2>3. c.originalItem = c.home /\ SameBody(c.request, Top.request)
        BY <1>1, <2>2, TopKept DEF IsKept, IsRequest, SameBody
    <2> QED
        BY <1>1, <1>5, <1>6, <2>1, <2>2, <2>3, SameMoves
<1>10. ASSUME Finish(TRUE) PROVE KeptInv'
    <2> DEFINE c == [Top EXCEPT !.stage = "done", !.failed = TRUE]
    <2>1. stack' = WithTop(c)
        BY <1>10 DEF Finish
    <2>2. SameItem(c)
        BY <1>2 DEF Fields, SameItem
    <2> HIDE DEF c
    <2>3. DOMAIN c = Fields /\ c.stage \notin {"files", "intermediate"}
          /\ HasUsers(template, c.auth) /\ c.originalItem = c.home
          /\ SameBody(c.request, Top.request)
        BY <1>1, <2>2, TopKept DEF SameItem, IsKept, IsRequest, SameBody
    <2> QED
        BY <1>1, <1>6, <2>1, <2>3, SameMoves
<1>9. CASE outcome.result = "intermediate"
    <2>1. RequestReplay("intermediate", Len(stack), BlankRequest, GoTo("send"))
        BY <1>3, <1>9
    <2>2. IsRequest(BlankRequest) /\ IsLoading(BlankRequest, 1)
        BY DEF BlankRequest, IsRequest, IsLoading
    <2>3. CASE Top.count >= MaxReplay
        BY <1>7, <2>1, <2>3 DEF RequestReplay
    <2>4. CASE ~(Top.count >= MaxReplay)
        <3>1. PushesOne("intermediate", Len(stack), BlankRequest)
            BY <2>1, <2>4 DEF RequestReplay, PushesOne
        <3> QED
            BY <1>1, <1>6, <2>2, <3>1, KeptPushes
    <2> QED
        BY <2>3, <2>4
<1> QED
    BY <1>3, <1>4, <1>7, <1>8, <1>9, <1>10

LEMMA ResponseEndKept ==
    ASSUME KeptInv, ResponseEnd
    PROVE  KeptInv'
<1>1. /\ stack # << >> /\ template' = template /\ original' = original /\ Top.stage = "started"
    BY DEF ResponseEnd, InStage
<1>2. IsKept(template, Top) /\ HasUsers(template, original')
    BY <1>1, TopKept DEF KeptInv
<1>3. ASSUME Finish(FALSE) PROVE KeptInv'
    <2> DEFINE c == [Top EXCEPT !.stage = "done", !.failed = FALSE]
    <2>1. stack' = WithTop(c)
        BY <1>3 DEF Finish
    <2>2. SameItem(c)
        BY <1>2 DEF Fields, SameItem, IsKept
    <2> HIDE DEF c
    <2> QED
        BY <1>1, <2>1, <2>2, StageMoves
<1>4. CASE Top.replay
    <2>1. RequestReplay("replaying", Top.originalItem, Clone(Top.request), Finish(FALSE))
        BY <1>4 DEF ResponseEnd
    <2>2. IsRequest(Clone(Top.request)) /\ IsLoading(Clone(Top.request), 1)
        BY <1>2, CloneKeeps DEF IsKept
    <2>3. Top.originalItem = Top.home
        BY <1>1, <1>2 DEF IsKept
    <2>4. CASE Top.count >= MaxReplay
        BY <1>3, <2>1, <2>4 DEF RequestReplay
    <2>5. CASE ~(Top.count >= MaxReplay)
        <3>1. PushesOne("replaying", Top.originalItem, Clone(Top.request))
            BY <2>1, <2>5 DEF RequestReplay, PushesOne
        <3> QED
            BY <1>1, <1>2, <2>2, <2>3, <3>1, KeptPushes
    <2> QED
        BY <2>4, <2>5
<1>5. CASE ~Top.replay
    BY <1>3, <1>5 DEF ResponseEnd
<1> QED
    BY <1>4, <1>5

(* The command that waited goes on with its own item.                       *)
LEMMA ReturnKept ==
    ASSUME KeptInv, AuthInit \/ ReplayDone
    PROVE  KeptInv'
<1> DEFINE b == stack[Len(stack) - 1]
<1>1. /\ stack # << >> /\ Len(stack) > 1 /\ template' = template /\ original' = original
    BY DEF AuthInit, ReplayDone, InStage
<1>2. /\ Linked(template, Below) /\ Below # << >> /\ Len(Below) = Len(stack) - 1
      /\ Below[Len(stack) - 1] = b
    <2>1. LET t == SubSeq(stack, 1, Len(stack) - 1)
          IN  /\ Linked(template, t) /\ t # << >> /\ Len(t) = Len(stack) - 1
              /\ t[Len(stack) - 1] = stack[Len(stack) - 1]
        BY <1>1, LinkedFront DEF KeptInv
    <2> QED
        BY <2>1 DEF Below
<1>3. IsKept(template, b) /\ DOMAIN b = Fields /\ Len(stack) - 1 \in DOMAIN Below
    <2>1. IsKept(template, Below[Len(Below)]) /\ Len(Below) \in Nat /\ Len(Below) > 0
        BY <1>2, TopLinked
    <2>2. PICK S : Below \in Seq(S)
        BY <1>2 DEF Linked
    <2>3. Len(Below) \in DOMAIN Below
        BY <2>1, <2>2
    <2> QED
        BY <1>2, <2>1, <2>3 DEF IsKept
<1>4. PICK c : /\ stack' = [Below EXCEPT ![Len(stack) - 1] = c]
               /\ DOMAIN c = Fields /\ c.stage \in {"auth", "send", "done"}
               /\ c.auth = b.auth /\ c.request = b.request /\ c.home = b.home
               /\ c.originalItem = b.home /\ b.stage # "files"
    <2>1. CASE AuthInit
        <3>1. PICK stage \in {"auth", "send"} :
                stack' = [Below EXCEPT ![Len(stack) - 1] =
                            [b EXCEPT !.stage = stage, !.originalItem = b.home]]
            BY <2>1 DEF AuthInit
        <3> DEFINE c == [b EXCEPT !.stage = stage, !.originalItem = b.home]
        <3>2. /\ DOMAIN c = Fields /\ c.stage = stage /\ c.auth = b.auth /\ c.request = b.request
              /\ c.originalItem = b.home /\ c.home = b.home
            BY <1>3 DEF Fields
        <3>3. stack' = [Below EXCEPT ![Len(stack) - 1] = c]
            BY <3>1
        <3>4. b.stage # "files"
            BY <2>1 DEF AuthInit
        <3> HIDE DEF c
        <3> QED
            BY <3>2, <3>3, <3>4
    <2>2. CASE ReplayDone
        <3> DEFINE c == [b EXCEPT !.stage = "done", !.failed = Top.failed]
        <3>1. b.stage = "replaying" /\ b.originalItem = b.home
            BY <2>2, <1>3 DEF ReplayDone, IsKept
        <3>2. /\ DOMAIN c = Fields /\ c.stage = "done" /\ c.auth = b.auth /\ c.request = b.request
              /\ c.originalItem = b.home /\ c.home = b.home
            BY <1>3, <3>1 DEF Fields
        <3>3. stack' = [Below EXCEPT ![Len(stack) - 1] = c]
            BY <2>2, <1>2, <1>3 DEF ReplayDone
        <3> HIDE DEF c
        <3> QED
            BY <3>1, <3>2, <3>3
    <2> QED
        BY <2>1, <2>2
<1>5. IsKept(template, c)
    BY <1>3, <1>4 DEF IsKept
<1>6. \A a : IsKept(template, a) /\ Repeats(a, b) => Repeats(a, c)
    BY <1>4 DEF Repeats
<1>7. Linked(template, stack')
    <2>1. \A a : IsKept(template, a) /\ Repeats(a, Below[Len(Below)]) => Repeats(a, c)
        BY <1>2, <1>6
    <2>2. LET t == [Below EXCEPT ![Len(Below)] = c]
          IN  Linked(template, t) /\ t # << >> /\ Len(t) = Len(Below) /\ t[Len(Below)] = c
        BY <1>2, <1>5, <2>1, LinkedSet
    <2>3. stack' = [Below EXCEPT ![Len(Below)] = c]
        BY <1>2, <1>4
    <2> QED
        BY <2>2, <2>3
<1> QED
    BY <1>1, <1>7 DEF KeptInv

LEMMA BeginKept ==
    ASSUME KeptInv, Begin
    PROVE  KeptInv'
<1> DEFINE c == Command(template.request, 0, 0)
<1>1. stack' = <<c>> /\ template' = template /\ original' = original
    BY DEF Begin
<1>2. /\ DOMAIN c = Fields /\ c.stage = "files" /\ c.auth = original
      /\ c.request = template.request /\ c.originalItem = c.home /\ c.at = 1
    BY DEF Command, Fields
<1> HIDE DEF c
<1>3. IsRequest(template.request) /\ IsLoading(template.request, 1)
    <2> DEFINE Loadable == [kind : Kinds, content : {"none"}, disabled : BOOLEAN]
    <2>1. /\ {"mode", "files"} \subseteq DOMAIN template.request
          /\ template.request.files \in Seq(Loadable)
        BY TemplatesAssumption DEF KeptInv
    <2>2. Loadable \subseteq File /\ \A file \in Loadable : file.content # "stream"
        BY DEF File, Contents
    <2> HIDE DEF Loadable
    <2>3. /\ template.request.files \in Seq(File)
          /\ \A j \in DOMAIN template.request.files : template.request.files[j] \in Loadable
          /\ \A j \in DOMAIN template.request.files : ~(j < 1)
        BY <2>1, <2>2
    <2> QED
        BY <2>1, <2>2, <2>3 DEF IsRequest, IsLoading
<1>4. IsKept(template, c)
    BY <1>2, <1>3 DEF IsKept, KeptInv
<1>5. Linked(template, <<c>>)
    <2>1. <<c>> \in Seq({c}) /\ Len(<<c>>) = 1 /\ <<c>>[1] = c
        OBVIOUS
    <2>2. \E S : <<c>> \in Seq(S)
        BY <2>1
    <2>3. \A k \in 1 .. Len(<<c>>) : IsKept(template, <<c>>[k])
        BY <1>4, <2>1
    <2>4. ~\E k \in 1 .. Len(<<c>>) - 1 : TRUE
        BY <2>1
    <2> QED
        BY <2>2, <2>3, <2>4 DEF Linked
<1> QED
    BY <1>1, <1>5 DEF KeptInv

LEMMA InitKept == Init => KeptInv
<1> SUFFICES ASSUME Init PROVE KeptInv
    OBVIOUS
<1>1. template \in Templates /\ original = template.auth /\ stack = << >>
    BY DEF Init
<1>2. HasUsers(template, original)
    BY <1>1 DEF HasUsers
<1>3. Linked(template, << >>)
    BY DEF Linked
<1> QED
    BY <1>1, <1>2, <1>3 DEF KeptInv

LEMMA NextKept == KeptInv /\ [Next]_vars => KeptInv'
<1> SUFFICES ASSUME KeptInv, [Next]_vars PROVE KeptInv'
    OBVIOUS
<1>1. CASE UNCHANGED vars
    BY <1>1 DEF vars, KeptInv
<1>2. CASE Begin
    BY <1>2, BeginKept
<1>3. CASE LoadFile \/ LoadFiles \/ FilesLoaded \/ NoRequest
    BY <1>3, LoadFileKept, LoadFilesKept, LoadedKept
<1>4. CASE NoAuth \/ Send \/ AbortInTrigger \/ Abort \/ NetworkError \/ AbortError \/ EndBeforePost
    BY <1>4, StagesKept
<1>5. CASE AuthPre \/ AuthSign \/ AuthInit
    BY <1>5, AuthPreKept, AuthSignKept, ReturnKept
<1>6. CASE ResponseStart \/ ResponseEnd \/ ReplayDone
    BY <1>6, ResponseStartKept, ResponseEndKept, ReturnKept
<1>7. CASE End
    <2>1. Linked(template, << >>)
        BY DEF Linked
    <2> QED
        BY <1>7, <2>1 DEF End, KeptInv
<1> QED
    BY <1>1, <1>2, <1>3, <1>4, <1>5, <1>6, <1>7 DEF Next, Proceed

(* Replays, requests sent first, and all that server, host and file system  *)
(* may answer leave the user's item as it was: the command that waits goes  *)
(* on with its own item, every file that was sent is opened again for a     *)
(* replay or the user has been warned, and no parameter of the auth that    *)
(* the user gave a value is changed but for a token that is refreshed.      *)
THEOREM RequestIsKept == Spec => []RequestKept
<1>1. KeptInv => RequestKept
    <2> SUFFICES ASSUME KeptInv PROVE RequestKept
        OBVIOUS
    <2>1. UserParamsKept
        BY DEF KeptInv, HasUsers, UserParamsKept
    <2>2. OriginalItemRestored
        BY DEF KeptInv, Linked, IsKept, OriginalItemRestored
    <2>3. ReplayFiles
        BY DEF KeptInv, Linked, Repeats, Again, ReplayFiles
    <2> QED
        BY <2>1, <2>2, <2>3 DEF RequestKept
<1> QED
    BY <1>1, InitKept, NextKept, PTL DEF Spec

(***************************************************************************)
(* What is signed                                                           *)
(***************************************************************************)
(* The entries of one part of a request: one that a signing added is        *)
(* spelled as the code spells it, and no other has its name.                *)
Single(entries, caseless) ==
    \A added \in Added(entries) :
        /\ added.exact
        /\ \A entry \in entries :
              entry # added /\ entry.key = added.key => ~entry.exact /\ ~caseless

(* Handlers that replay sign in one header only, and only digest counts.    *)
Replays(type) == type \in {"ntlm", "digest"}

(* In a request that handlers of this type have signed so far.              *)
Neat(type, r) ==
    /\ {"header", "query", "form"} \subseteq DOMAIN r
    /\ Single(r.header, type # "oauth1") /\ Single(r.query, FALSE) /\ Single(r.form, FALSE)
    /\ \A entry \in r.query \cup r.form : Len(entry.value) # 3
    /\ \A entry \in r.header : type # "digest" => Len(entry.value) # 3
    /\ Replays(type) => \A added \in Added(r.header) : added.key = Authorization

(* What a handler sends first inherits the auth of its parents, or has none. *)
TypeOf(item, home) == IF home = 0 \/ item.inherits THEN item.type ELSE "none"

Bears(item, c) == c.type = TypeOf(item, c.home) /\ Neat(c.type, c.request)

(* No entry has that name, as the code spells it or, ignoring case, at all. *)
Lone(entries, key, ignoreCase) ==
    \A entry \in entries : ~(entry.key = key /\ (entry.exact \/ ignoreCase))

LEMMA WithoutSingle ==
    ASSUME NEW entries, NEW caseless, Single(entries, caseless), NEW key, NEW ignoreCase
    PROVE  /\ Single(Without(entries, key, ignoreCase), caseless)
           /\ Lone(Without(entries, key, ignoreCase), key, ignoreCase)
           /\ Without(entries, key, ignoreCase) \subseteq entries
BY DEF Single, Added, Without, Lone

LEMMA WithSingle ==
    ASSUME NEW entries, NEW caseless, Single(entries, caseless), NEW key,
           NEW ignoreCase \in BOOLEAN, Lone(entries, key, ignoreCase), caseless => ignoreCase,
           NEW value
    PROVE  Single(entries \cup {Entry(key, value)}, caseless)
<1> DEFINE new == Entry(key, value)
           all == entries \cup {new}
<1>1. new.key = key /\ new.exact = TRUE /\ new.value = value
    BY DEF Entry
<1> HIDE DEF new
<1>2. ASSUME NEW added \in Added(all) PROVE added.exact
    BY <1>1, <1>2 DEF Added, Single
<1>3. ASSUME NEW added \in Added(all), NEW entry \in all, entry # added, entry.key = added.key
      PROVE  ~entry.exact /\ ~caseless
    <2>1. CASE added = new
        BY <1>1, <1>3, <2>1 DEF Lone
    <2>2. CASE added # new
        <3>1. added \in entries /\ added \in Added(entries) /\ added.exact
            BY <1>2, <1>3, <2>2 DEF Added
        <3>2. entry # new
            BY <1>1, <1>3, <3>1 DEF Lone
        <3> QED
            BY <1>3, <3>1, <3>2 DEF Single
    <2> QED
        BY <2>1, <2>2
<1> QED
    BY <1>2, <1>3 DEF Single, new

LEMMA RemoveNeat ==
    ASSUME NEW type, NEW r, Neat(type, r), NEW key, NEW ignoreCase
    PROVE  /\ LET q == RemoveHeader(r, key, ignoreCase)
              IN  Neat(type, q) /\ Lone(q.header, key, ignoreCase)
                  /\ \A k, i : Lone(r.header, k, i) => Lone(q.header, k, i)
           /\ LET q == RemoveQueryParams(r, key)
              IN  Neat(type, q) /\ Lone(q.query, key, FALSE) /\ q.header = r.header
           /\ LET q == RemoveBodyParams(r, key)
              IN  Neat(type, q) /\ Lone(q.form, key, FALSE) /\ q.header = r.header /\ q.query = r.query
<1>1. {"header", "query", "form"} \subseteq DOMAIN r
    BY DEF Neat
<1>2. LET q == RemoveHeader(r, key, ignoreCase)
      IN  Neat(type, q) /\ Lone(q.header, key, ignoreCase)
          /\ \A k, i : Lone(r.header, k, i) => Lone(q.header, k, i)
    <2> DEFINE q == RemoveHeader(r, key, ignoreCase)
    <2>1. /\ DOMAIN q = DOMAIN r /\ q.header = Without(r.header, key, ignoreCase)
          /\ q.query = r.query /\ q.form = r.form
        BY <1>1 DEF RemoveHeader
    <2> HIDE DEF q
    <2>2. /\ Single(q.header, type # "oauth1") /\ Lone(q.header, key, ignoreCase)
          /\ q.header \subseteq r.header
        BY <2>1, WithoutSingle DEF Neat
    <2>3. Added(q.header) \subseteq Added(r.header)
        BY <2>2 DEF Added
    <2>4. Neat(type, q)
        BY <2>1, <2>2, <2>3 DEF Neat
    <2> QED
        BY <2>2, <2>4 DEF q, Lone
<1>3. LET q == RemoveQueryParams(r, key)
      IN  Neat(type, q) /\ Lone(q.query, key, FALSE) /\ q.header = r.header
    <2> DEFINE q == RemoveQueryParams(r, key)
    <2>1. /\ DOMAIN q = DOMAIN r /\ q.query = Without(r.query, key, FALSE)
          /\ q.header = r.header /\ q.form = r.form
        BY <1>1 DEF RemoveQueryParams
    <2> HIDE DEF q
    <2>2. Single(q.query, FALSE) /\ Lone(q.query, key, FALSE) /\ q.query \subseteq r.query
        <3>1. Single(r.query, FALSE)
            BY DEF Neat
        <3>2. /\ Single(Without(r.query, key, FALSE), FALSE)
              /\ Lone(Without(r.query, key, FALSE), key, FALSE)
              /\ Without(r.query, key, FALSE) \subseteq r.query
            BY <3>1, WithoutSingle
        <3> QED
            BY <2>1, <3>2
    <2>3. Neat(type, q)
        BY <2>1, <2>2 DEF Neat
    <2> QED
        BY <2>1, <2>2, <2>3 DEF q
<1>4. LET q == RemoveBodyParams(r, key)
      IN  Neat(type, q) /\ Lone(q.form, key, FALSE) /\ q.header = r.header /\ q.query = r.query
    <2> DEFINE q == RemoveBodyParams(r, key)
    <2>1. /\ DOMAIN q = DOMAIN r /\ q.form = Without(r.form, key, FALSE)
          /\ q.header = r.header /\ q.query = r.query
        BY <1>1 DEF RemoveBodyParams
    <2> HIDE DEF q
    <2>2. Single(q.form, FALSE) /\ Lone(q.form, key, FALSE) /\ q.form \subseteq r.form
        <3>1. Single(r.form, FALSE)
            BY DEF Neat
        <3>2. /\ Single(Without(r.form, key, FALSE), FALSE)
              /\ Lone(Without(r.form, key, FALSE), key, FALSE)
              /\ Without(r.form, key, FALSE) \subseteq r.form
            BY <3>1, WithoutSingle
        <3> QED
            BY <2>1, <3>2
    <2>3. Neat(type, q)
        BY <2>1, <2>2 DEF Neat
    <2> QED
        BY <2>1, <2>2, <2>3 DEF q
<1> QED
    BY <1>2, <1>3, <1>4

LEMMA HeaderNeat ==
    ASSUME NEW type, NEW r, Neat(type, r), NEW key, NEW value,
           NEW ignoreCase \in BOOLEAN, Lone(r.header, key, ignoreCase),
           type # "oauth1" => ignoreCase,
           type # "digest" => Len(value) # 3,
           Replays(type) => key = Authorization
    PROVE  LET q == AddHeader(r, key, value)
           IN  /\ Neat(type, q)
               /\ \A k : k # key /\ Lone(r.header, k, TRUE) => Lone(q.header, k, TRUE)
<1> DEFINE q == AddHeader(r, key, value)
           new == Entry(key, value)
<1>1. /\ {"header", "query", "form"} \subseteq DOMAIN r
    BY DEF Neat
<1>2. /\ DOMAIN q = DOMAIN r /\ q.header = r.header \cup {new}
      /\ q.query = r.query /\ q.form = r.form
    BY <1>1 DEF AddHeader
<1>3. Single(q.header, type # "oauth1")
    BY <1>2, WithSingle DEF Neat
<1>4. new.key = key /\ new.value = value
    BY DEF Entry
<1> HIDE DEF q, new
<1>5. \A entry \in q.header : type # "digest" => Len(entry.value) # 3
    BY <1>2, <1>4 DEF Neat
<1>6. Replays(type) => \A added \in Added(q.header) : added.key = Authorization
    BY <1>2, <1>4 DEF Neat, Added
<1>7. Neat(type, q)
    BY <1>1, <1>2, <1>3, <1>5, <1>6 DEF Neat
<1>8. ASSUME NEW k, k # key, Lone(r.header, k, TRUE) PROVE Lone(q.header, k, TRUE)
    BY <1>2, <1>4, <1>8 DEF Lone
<1> QED
    BY <1>7, <1>8 DEF q

LEMMA ParamsNeat ==
    ASSUME NEW type, NEW r, Neat(type, r), NEW key, NEW value, Len(value) # 3
    PROVE  /\ Lone(r.query, key, FALSE) => Neat(type, AddQueryParams(r, key, value))
           /\ Lone(r.form, key, FALSE) => Neat(type, AddBodyParams(r, key, value))
<1> DEFINE new == Entry(key, value)
<1>1. {"header", "query", "form"} \subseteq DOMAIN r
    BY DEF Neat
<1>2. new.value = value
    BY DEF Entry
<1>3. ASSUME Lone(r.query, key, FALSE) PROVE Neat(type, AddQueryParams(r, key, value))
    <2> DEFINE q == AddQueryParams(r, key, value)
    <2>1. /\ DOMAIN q = DOMAIN r /\ q.query = r.query \cup {new}
          /\ q.header = r.header /\ q.form = r.form
        BY <1>1 DEF AddQueryParams
    <2>2. Single(q.query, FALSE)
        <3>1. Single(r.query, FALSE)
            BY DEF Neat
        <3>2. Single(r.query \cup {Entry(key, value)}, FALSE)
            BY <1>3, <3>1, WithSingle
        <3> QED
            BY <2>1, <3>2
    <2> HIDE DEF q, new
    <2>3. \A entry \in q.query \cup q.form : Len(entry.value) # 3
        BY <1>2, <2>1 DEF Neat
    <2> QED
        BY <1>1, <2>1, <2>2, <2>3 DEF Neat, q
<1>4. ASSUME Lone(r.form, key, FALSE) PROVE Neat(type, AddBodyParams(r, key, value))
    <2> DEFINE q == AddBodyParams(r, key, value)
    <2>1. /\ DOMAIN q = DOMAIN r /\ q.form = r.form \cup {new}
          /\ q.header = r.header /\ q.query = r.query
        BY <1>1 DEF AddBodyParams
    <2>2. Single(q.form, FALSE)
        <3>1. Single(r.form, FALSE)
            BY DEF Neat
        <3>2. Single(r.form \cup {Entry(key, value)}, FALSE)
            BY <1>4, <3>1, WithSingle
        <3> QED
            BY <2>1, <3>2
    <2> HIDE DEF q, new
    <2>3. \A entry \in q.query \cup q.form : Len(entry.value) # 3
        BY <1>2, <2>1 DEF Neat
    <2> QED
        BY <1>1, <2>1, <2>2, <2>3 DEF Neat, q
<1> QED
    BY <1>3, <1>4

LEMMA AuthorizationNeat ==
    ASSUME NEW type, NEW request, Neat(type, request), NEW value,
           type # "digest" => Len(value) # 3
    PROVE  LET clean == RemoveHeader(request, Authorization, TRUE)
           IN  Neat(type, clean) /\ Neat(type, AddHeader(clean, Authorization, value))
<1> DEFINE clean == RemoveHeader(request, Authorization, TRUE)
<1>1. Neat(type, clean) /\ Lone(clean.header, Authorization, TRUE)
    BY RemoveNeat
<1> HIDE DEF clean
<1>2. Neat(type, AddHeader(clean, Authorization, value))
    BY <1>1, HeaderNeat
<1> QED
    BY <1>1, <1>2 DEF clean

(* A signing of any handler leaves a single credential.                     *)
LEMMA SignNeat ==
    ASSUME NEW type, NEW request, Neat(type, request), NEW auth, NEW n,
           NEW signature \in Sign(type, auth, request, n)
    PROVE  Neat(type, signature.request)
<1> DEFINE clean == RemoveHeader(request, Authorization, TRUE)
           signed == AddHeader(clean, Authorization, <<n>>)
<1>0. Len(<<n>>) # 3 /\ \A h : Len(<<n, h>>) # 3
    OBVIOUS
<1>1. ASSUME NEW r, Neat(type, r), NEW added, NEW failed,
             signature = Signature(r, added, failed)
      PROVE  Neat(type, signature.request)
    BY <1>1 DEF Signature
<1>2. ASSUME NEW r, Neat(type, r), signature \in {Signed(r), Failed(r)} \/ signature \in NotSigned(r)
      PROVE  Neat(type, signature.request)
    BY <1>1, <1>2 DEF Signed, Failed, NotSigned
<1>3. ASSUME NEW c, Neat(type, c), NEW s, Neat(type, s), NEW hashes,
             signature \in {IF hash = "throws" THEN Failed(c) ELSE Signed(s) : hash \in hashes}
      PROVE  Neat(type, signature.request)
    BY <1>2, <1>3
<1>4. Neat(type, clean) /\ Neat(type, signed)
    BY <1>0, AuthorizationNeat
<1>5. Neat(type, clean) /\ Lone(clean.header, Authorization, TRUE)
    BY RemoveNeat
<1> HIDE DEF clean
<1>6. CASE type \in {"basic", "bearer", "custom", "asap"}
    <2>1. \/ signature \in BasicSign(auth, request, n)
          \/ signature = Failed(request)
          \/ signature \in NotSigned(request)
        BY <1>6 DEF Sign, BearerSign, CustomSign, AsapSign
    <2>2. BasicSign(auth, request, n) = {Signed(signed)}
        BY DEF BasicSign, clean
    <2> QED
        BY <1>2, <1>4, <2>1, <2>2
<1>7. CASE type = "apikey"
    <2> DEFINE q == AddQueryParams(RemoveQueryParams(request, ApiKey), ApiKey, <<n>>)
               h == AddHeader(RemoveHeader(request, ApiKey, TRUE), ApiKey, <<n>>)
    <2>1. signature \in ApiKeySign(auth, request, n)
        BY <1>7 DEF Sign
    <2>2. signature \in NotSigned(request) \/ signature = Signed(q) \/ signature = Signed(h)
        BY <2>1 DEF ApiKeySign
    <2>3. Neat(type, q)
        <3>1. /\ Neat(type, RemoveQueryParams(request, ApiKey))
              /\ Lone(RemoveQueryParams(request, ApiKey).query, ApiKey, FALSE)
            BY RemoveNeat
        <3> QED
            BY <1>0, <3>1, ParamsNeat
    <2>4. Neat(type, h)
        <3>1. /\ Neat(type, RemoveHeader(request, ApiKey, TRUE))
              /\ Lone(RemoveHeader(request, ApiKey, TRUE).header, ApiKey, TRUE)
            BY RemoveNeat
        <3> QED
            BY <1>0, <1>7, <3>1, HeaderNeat DEF Replays
    <2> QED
        BY <1>2, <2>2, <2>3, <2>4
<1>8. CASE type = "oauth2"
    <2> DEFINE bare == RemoveQueryParams(clean, AccessToken)
               q == AddQueryParams(bare, AccessToken, <<n>>)
               h == AddHeader(bare, Authorization, <<n>>)
    <2>1. signature \in OAuth2Sign(auth, request, n)
        BY <1>8 DEF Sign
    <2>2. \/ signature \in NotSigned(request) \/ signature = Signed(q) \/ signature = Signed(h)
          \/ signature \in NotSigned(bare)
        BY <2>1 DEF OAuth2Sign, clean
    <2>3. Neat(type, bare) /\ Lone(bare.query, AccessToken, FALSE) /\ bare.header = clean.header
        BY <1>5, RemoveNeat
    <2> HIDE DEF bare
    <2>4. Neat(type, q)
        BY <1>0, <2>3, ParamsNeat
    <2>5. Neat(type, h)
        <3>1. Lone(bare.header, Authorization, TRUE)
            BY <1>5, <2>3
        <3> QED
            BY <1>0, <1>8, <2>3, <3>1, HeaderNeat DEF Replays
    <2> QED
        BY <1>2, <2>2, <2>3, <2>4, <2>5
<1>9. CASE type = "hawk"
    <2>1. signature \in HawkSign(auth, request, n)
        BY <1>9 DEF Sign
    <2>2. \/ signature \in NotSigned(request)
          \/ \E hashes : signature \in {IF hash = "throws" THEN Failed(clean) ELSE Signed(signed) :
                                            hash \in hashes}
          \/ signature = Failed(clean)
        BY <2>1 DEF HawkSign, SignHashed, clean
    <2> QED
        BY <1>2, <1>3, <1>4, <2>2
<1>10. CASE type = "edgegrid"
    <2>1. signature \in EdgegridSign(auth, request, n)
        BY <1>10 DEF Sign
    <2>2. \/ signature \in NotSigned(request)
          \/ \E hashes : signature \in {IF hash = "throws" THEN Failed(clean) ELSE Signed(signed) :
                                            hash \in hashes}
        BY <2>1 DEF EdgegridSign, SignHashed, clean
    <2> QED
        BY <1>2, <1>3, <1>4, <2>2
<1>11. CASE type = "digest"
    <2> DEFINE digested == AddHeader(clean, Authorization, DigestHeader(auth, n))
    <2>1. signature \in DigestSign(auth, request, n)
        BY <1>11 DEF Sign
    <2>2. \/ signature \in NotSigned(request) \/ signature = Failed(clean)
          \/ \E hashes : signature \in {IF hash = "throws" THEN Failed(clean) ELSE Signed(digested) :
                                            hash \in hashes}
        BY <2>1 DEF DigestSign, SignHashed, clean
    <2>3. Neat(type, digested)
        BY <1>11, AuthorizationNeat DEF clean
    <2> QED
        BY <1>2, <1>3, <1>4, <2>2, <2>3
<1>12. CASE type = "awsv4"
    <2> DEFINE noHeaders == RemoveHeader(clean, XAmz, TRUE)
               bare == RemoveQueryParams(noHeaders, XAmz)
               aws == Aws4AddAuthData(auth, bare, n)
    <2>1. /\ Neat(type, noHeaders) /\ Lone(noHeaders.header, XAmz, TRUE)
          /\ Lone(noHeaders.header, Authorization, TRUE)
        BY <1>5, RemoveNeat
    <2>2. signature \in Aws4Sign(auth, request, n)
        BY <1>12 DEF Sign
    <2>3. \E hashes : signature \in {IF hash = "throws" THEN Failed(bare) ELSE Signed(aws) :
                                                hash \in hashes}
        BY <2>2 DEF Aws4Sign, SignHashed, clean
    <2>4. /\ Neat(type, bare) /\ Lone(bare.query, XAmz, FALSE) /\ bare.header = noHeaders.header
        BY <2>1, RemoveNeat
    <2>5. Lone(bare.header, XAmz, TRUE) /\ Lone(bare.header, Authorization, TRUE)
        BY <2>1, <2>4
    <2> HIDE DEF bare
    <2>6. Neat(type, AddQueryParams(bare, XAmz, <<n>>))
        BY <1>0, <2>4, ParamsNeat
    <2> DEFINE half == AddHeader(bare, XAmz, <<n>>)
    <2>7. ~Replays(type) /\ Authorization # XAmz
        BY <1>12 DEF Replays, Authorization, XAmz
    <2>8. Neat(type, half) /\ Lone(half.header, Authorization, TRUE)
        BY <1>0, <2>4, <2>5, <2>7, HeaderNeat
    <2> HIDE DEF half
    <2>9. Neat(type, AddHeader(half, Authorization, <<n>>))
        BY <1>0, <2>8, HeaderNeat
    <2>10. Neat(type, aws)
        BY <2>6, <2>9 DEF Aws4AddAuthData, half
    <2> QED
        BY <1>3, <2>3, <2>4, <2>10
<1>13. CASE type = "oauth1"
    <2> DEFINE noHeader == RemoveHeader(request, Authorization, FALSE)
               noParams == RemoveQueryParams(noHeader, OAuth)
               noForm == RemoveBodyParams(noParams, OAuth)
               bare == IF request.mode = "urlencoded" THEN noForm ELSE noParams
               added == OAuth1AddAuthData(auth, bare, n)
    <2>1. signature \in OAuth1Sign(auth, request, n)
        BY <1>13 DEF Sign
    <2>2. \/ signature \in NotSigned(request) \/ signature = Failed(bare)
          \/ \E hashes : signature \in {IF hash = "throws" THEN Failed(bare) ELSE Signed(added) :
                                                hash \in hashes}
        BY <2>1 DEF OAuth1Sign, SignHashed
    <2>3. Neat(type, noHeader) /\ Lone(noHeader.header, Authorization, FALSE)
        BY RemoveNeat
    <2>4. /\ Neat(type, noParams) /\ Lone(noParams.query, OAuth, FALSE)
          /\ noParams.header = noHeader.header
        BY <2>3, RemoveNeat
    <2>5. /\ Neat(type, noForm) /\ Lone(noForm.form, OAuth, FALSE)
          /\ noForm.header = noParams.header /\ noForm.query = noParams.query
        BY <2>4, RemoveNeat
    <2>6. /\ Neat(type, bare) /\ Lone(bare.query, OAuth, FALSE)
          /\ Lone(bare.header, Authorization, FALSE)
          /\ request.mode = "urlencoded" => Lone(bare.form, OAuth, FALSE)
        BY <2>3, <2>4, <2>5
    <2>7. bare.mode = "urlencoded" => request.mode = "urlencoded"
        <3>1. ASSUME request.mode # "urlencoded" PROVE bare.mode # "urlencoded"
            BY <3>1 DEF RemoveHeader, RemoveQueryParams
        <3> QED
            BY <3>1
    <2> HIDE DEF bare
    <2>8. Neat(type, AddQueryParams(bare, OAuth, <<n>>))
        BY <1>0, <2>6, ParamsNeat
    <2>9. bare.mode = "urlencoded" => Neat(type, AddBodyParams(bare, OAuth, <<n>>))
        BY <1>0, <2>6, <2>7, ParamsNeat
    <2>10. Neat(type, AddHeader(bare, Authorization, <<n>>))
        BY <1>0, <1>13, <2>6, HeaderNeat DEF Replays
    <2>11. Neat(type, added)
        BY <2>8, <2>9, <2>10 DEF OAuth1AddAuthData
    <2> QED
        BY <1>2, <1>3, <2>2, <2>6, <2>11
<1>14. CASE type = "jwt"
    <2> DEFINE bare == RemoveQueryParams(request, AccessToken)
               q == AddQueryParams(bare, AccessToken, <<n>>)
    <2>1. Neat(type, bare) /\ Lone(bare.query, AccessToken, FALSE)
        BY RemoveNeat
    <2>2. Neat(type, q)
        BY <1>0, <2>1, ParamsNeat
    <2>3. JwtAddToken(auth, request, n) \in {signed, q, request}
        BY DEF JwtAddToken, clean
    <2>4. signature \in JwtSign(auth, request, n)
        BY <1>14 DEF Sign
    <2>5. \/ signature = Failed(request)
          \/ \E added : signature = Signature(JwtAddToken(auth, request, n), added, FALSE)
        BY <2>4 DEF JwtSign
    <2> HIDE DEF q, signed
    <2> QED
        BY <1>1, <1>2, <1>4, <2>2, <2>3, <2>5
<1>15. CASE type = "ntlm"
    <2> DEFINE message == AddHeader(clean, Authorization, <<n, Get(auth, "ntlmHeader")>>)
    <2>1. Neat(type, message)
        BY <1>0, AuthorizationNeat DEF clean
    <2>2. signature \in NtlmSign(auth, request, n)
        BY <1>15 DEF Sign
    <2>3. signature \in NotSigned(clean) \/ signature = Signed(message)
        BY <2>2 DEF NtlmSign, clean
    <2> QED
        BY <1>2, <1>4, <2>1, <2>3
<1>16. CASE type \notin { "awsv4", "basic", "bearer", "digest", "hawk", "oauth1", "oauth2", "asap",
                          "ntlm", "apikey", "edgegrid", "jwt", "custom" }
    <2>1. signature \in NotSigned(request)
        BY <1>16 DEF Sign
    <2> QED
        BY <1>2, <2>1
<1> QED
    BY <1>6, <1>7, <1>8, <1>9, <1>10, <1>11, <1>12, <1>13, <1>14, <1>15, <1>16

(***************************************************************************)
(* The steps, as far as credentials go                                      *)
(***************************************************************************)
SameEntries(r, q) ==
    /\ {"header", "query", "form"} \subseteq DOMAIN r
    /\ r.header = q.header /\ r.query = q.query /\ r.form = q.form

(* The command at the top goes on as c.                                     *)
TopGoes(c) ==
    /\ stack # << >> /\ stack' = WithTop(c)
    /\ c.type = Top.type /\ c.home = Top.home
    /\ c.originalItem = Top.originalItem /\ c.count = Top.count
    /\ template' = template /\ rounds' = rounds

Unsigned(c) == TopGoes(c) /\ SameEntries(c.request, Top.request)

Quiet(c) == Unsigned(c) /\ c.auth = Top.auth /\ original' = original /\ accepted' = accepted

Loads(c) == Quiet(c) /\ Top.stage = "files" /\ c.stage \in {"files", "auth"} /\ fault' = fault

(* What only other handlers than those that replay do.                      *)
Skips(c) == Unsigned(c) /\ Top.stage = "auth" /\ ~Replays(Top.type)

Prepares(c) ==
    /\ Unsigned(c) /\ accepted' = accepted /\ fault' = fault
    /\ Top.stage = "auth"
    /\ \E outcome \in Pre(Top.type, Top.auth) :
          /\ c.auth = outcome.auth /\ original' = SyncSystem(outcome.auth, original)
          /\ c.stage = IF outcome.result = "go" THEN "sign" ELSE "send"

Signs(c) ==
    /\ TopGoes(c) /\ original' = original /\ accepted' = accepted /\ fault' = fault
    /\ Top.stage = "sign" /\ c.stage = "send" /\ c.auth = Top.auth
    /\ \E signature \in Sign(Top.type, Top.auth, Top.request, Len(stack)) :
          c.request = signature.request

Sends(c) == Quiet(c) /\ Top.stage = "send" /\ c.stage = "sent" /\ fault' = fault

Halts(c) ==
    /\ Quiet(c) /\ Top.stage \in {"sent", "started"} /\ c.stage = Top.stage
    /\ c.replay = Top.replay /\ fault' = "failed"

Responds(c) ==
    /\ Unsigned(c) /\ fault' = fault
    /\ Top.stage = "sent" /\ c.stage = "started"
    /\ \E response \in Responses :
          /\ accepted' = IF response.code = 200 THEN accepted \cup NonceUses(Top) ELSE accepted
          /\ HasHandler(Top) =>
                \E outcome \in Post(Top.type, Top.auth, response) :
                    /\ c.auth = outcome.auth /\ c.replay = (outcome.result = "replay")
                    /\ Top.originalItem = 0 => original' = SyncSystem(outcome.auth, original)

Finishes(c) ==
    /\ Quiet(c) /\ c.stage = "done"
    /\ \/ fault' = "failed"
       \/ Top.stage = "started" /\ ~Top.replay /\ fault' = fault
       \/ Top.stage = "started" /\ Top.replay /\ Top.count >= MaxReplay
       \/ Top.stage = "sent" /\ ~Replays(Top.type)

(* It waits as b for c.                                                     *)
Waits(b, c) ==
    /\ stack # << >> /\ stack' = Append(WithTop(b), c) /\ template' = template
    /\ b.type = Top.type /\ b.home = Top.home /\ b.request = Top.request
    /\ c.stage = "files" /\ c.home = c.originalItem /\ c.type = TypeOf(template, c.home)
    /\ c.auth = original

Repeated(b, c) ==
    /\ Waits(b, c) /\ SameEntries(c.request, Top.request)
    /\ Top.stage = "started" /\ Top.replay /\ ~(Top.count >= MaxReplay)
    /\ c.count = Top.count + 1 /\ c.originalItem = Top.originalItem
    /\ rounds' = rounds /\ original' = original /\ accepted' = accepted /\ fault' = fault

SendsFirst(b, c) ==
    Waits(b, c) /\ Top.stage = "auth" /\ ~Replays(Top.type) /\ c.request = BlankRequest

(* The one below goes on as c.                                              *)
Returns(c) ==
    LET b == stack[Len(stack) - 1]
    IN  /\ stack # << >> /\ Len(stack) > 1 /\ Top.stage = "done"
        /\ stack' = [Below EXCEPT ![Len(stack) - 1] = c]
        /\ c.type = b.type /\ c.home = b.home /\ c.request = b.request
        /\ b.stage = "intermediate" \/ (b.stage = "replaying" /\ c.stage = "done")
        /\ UNCHANGED <<template, original, rounds, fault, accepted>>

BearInv == \A k \in 1 .. Len(stack) : Bears(template, stack[k])

LEMMA TopBears ==
    ASSUME KeptInv, BearInv, stack # << >>
    PROVE  /\ Bears(template, Top) /\ DOMAIN Top = Fields
           /\ SameEntries(Top.request, Top.request)
<1>1. Len(stack) \in Nat /\ Len(stack) > 0 /\ DOMAIN Top = Fields
    BY TopKept DEF IsKept
<1>2. Bears(template, Top)
    BY <1>1 DEF BearInv, Top
<1> QED
    BY <1>1, <1>2 DEF Bears, Neat, SameEntries

LEMMA LoadKinds ==
    ASSUME KeptInv, BearInv, LoadFile \/ LoadFiles \/ FilesLoaded
    PROVE  \E c : Loads(c)
<1>1. /\ stack # << >> /\ Top.stage = "files" /\ template' = template /\ rounds' = rounds
      /\ original' = original /\ accepted' = accepted /\ fault' = fault
    BY DEF LoadFile, LoadFiles, FilesLoaded, InStage
<1>2. DOMAIN Top = Fields /\ SameEntries(Top.request, Top.request)
    BY <1>1, TopBears
<1> DEFINE r == Top.request
<1>3. {"header", "query", "form"} \subseteq DOMAIN r
    BY <1>2 DEF SameEntries
<1>4. CASE LoadFile
    <2>1. PICK file : stack' = WithTop([Top EXCEPT !.request.files[Top.at] = file, !.at = @ + 1])
        BY <1>4 DEF LoadFile
    <2> DEFINE q == [r EXCEPT !.files[Top.at] = file]
               c == [Top EXCEPT !.request.files[Top.at] = file, !.at = @ + 1]
    <2>2. SameEntries(q, r)
        BY <1>3 DEF SameEntries
    <2>3. /\ c.stage = Top.stage /\ c.type = Top.type /\ c.home = Top.home /\ c.auth = Top.auth
          /\ c.originalItem = Top.originalItem /\ c.count = Top.count /\ c.request = q
        BY <1>2 DEF Fields
    <2>4. stack' = WithTop(c)
        BY <2>1
    <2> HIDE DEF c, q
    <2>5. Loads(c)
        BY <1>1, <2>2, <2>3, <2>4 DEF Loads, Quiet, Unsigned, TopGoes
    <2> QED
        BY <2>5
<1>5. CASE LoadFiles
    <2>1. CASE Top.request.files[Top.at].disabled
        <3> DEFINE c == [Top EXCEPT !.at = @ + 1]
        <3>1. stack' = WithTop(c)
            BY <1>5, <2>1 DEF LoadFiles
        <3>2. /\ c.stage = Top.stage /\ c.type = Top.type /\ c.home = Top.home /\ c.auth = Top.auth
              /\ c.originalItem = Top.originalItem /\ c.count = Top.count /\ c.request = r
            BY <1>2 DEF Fields
        <3> HIDE DEF c
        <3>3. Loads(c)
            BY <1>1, <1>2, <3>1, <3>2 DEF Loads, Quiet, Unsigned, TopGoes
        <3> QED
            BY <3>3
    <2>2. CASE ~Top.request.files[Top.at].disabled
        <3> DEFINE single == [Top.request.files[Top.at] EXCEPT !.kind = "single", !.content = "stream"]
        <3>1. PICK loaded \in 0 .. 2 :
                stack' = WithTop([Top EXCEPT !.stage = "auth",
                            !.request.files = SubSeq(@, 1, Top.at - 1)
                                              \o [i \in 1 .. loaded |-> single]
                                              \o SubSeq(@, Top.at + 1, Len(@))])
            BY <1>5, <2>2 DEF LoadFiles
        <3> DEFINE q == [r EXCEPT !.files = SubSeq(@, 1, Top.at - 1)
                                            \o [i \in 1 .. loaded |-> single]
                                            \o SubSeq(@, Top.at + 1, Len(@))]
                   c == [Top EXCEPT !.stage = "auth",
                            !.request.files = SubSeq(@, 1, Top.at - 1)
                                              \o [i \in 1 .. loaded |-> single]
                                              \o SubSeq(@, Top.at + 1, Len(@))]
        <3>2. stack' = WithTop(c)
            BY <3>1
        <3> HIDE DEF single
        <3>3. SameEntries(q, r)
            BY <1>3 DEF SameEntries
        <3>4. /\ c.stage = "auth" /\ c.type = Top.type /\ c.home = Top.home /\ c.auth = Top.auth
              /\ c.originalItem = Top.originalItem /\ c.count = Top.count /\ c.request = q
            BY <1>2 DEF Fields
        <3> HIDE DEF c, q
        <3>5. Loads(c)
            BY <1>1, <3>2, <3>3, <3>4 DEF Loads, Quiet, Unsigned, TopGoes
        <3> QED
            BY <3>5
    <2> QED
        BY <2>1, <2>2
<1>6. CASE FilesLoaded
    <2> DEFINE c == [Top EXCEPT !.stage = "auth"]
    <2>1. stack' = WithTop(c)
        BY <1>6 DEF FilesLoaded, GoTo
    <2>2. /\ c.stage = "auth" /\ c.type = Top.type /\ c.home = Top.home /\ c.auth = Top.auth
          /\ c.originalItem = Top.originalItem /\ c.count = Top.count /\ c.request = r
        BY <1>2 DEF Fields
    <2> HIDE DEF c
    <2>3. Loads(c)
        BY <1>1, <1>2, <2>1, <2>2 DEF Loads, Quiet, Unsigned, TopGoes
    <2> QED
        BY <2>3
<1> QED
    BY <1>4, <1>5, <1>6

LEMMA FinishKinds ==
    ASSUME KeptInv, BearInv, stack # << >>, NEW failed, Finish(failed),
           template' = template, rounds' = rounds, original' = original, accepted' = accepted,
           \/ fault' = "failed"
           \/ Top.stage = "started" /\ ~Top.replay /\ fault' = fault
           \/ Top.stage = "started" /\ Top.replay /\ Top.count >= MaxReplay
           \/ Top.stage = "sent" /\ ~Replays(Top.type)
    PROVE  \E c : Finishes(c)
<1>1. DOMAIN Top = Fields /\ SameEntries(Top.request, Top.request)
    BY TopBears
<1> DEFINE c == [Top EXCEPT !.stage = "done", !.failed = failed]
<1>2. stack' = WithTop(c)
    BY DEF Finish
<1>3. /\ c.stage = "done" /\ c.type = Top.type /\ c.home = Top.home /\ c.auth = Top.auth
      /\ c.originalItem = Top.originalItem /\ c.count = Top.count /\ c.request = Top.request
    BY <1>1 DEF Fields
<1> HIDE DEF c
<1>4. Finishes(c)
    BY <1>1, <1>2, <1>3 DEF Finishes, Quiet, Unsigned, TopGoes
<1> QED
    BY <1>4

LEMMA FailKinds ==
    ASSUME KeptInv, BearInv,
           NoRequest \/ NetworkError \/ AbortError \/ AbortInTrigger \/ EndBeforePost
    PROVE  \E c : Finishes(c)
<1>1. /\ stack # << >>
      /\ \/ Finish(TRUE) /\ fault' = "failed"
         \/ Finish(FALSE) /\ Top.stage = "sent" /\ Top.type = "custom"
      /\ template' = template /\ rounds' = rounds /\ original' = original /\ accepted' = accepted
    BY DEF NoRequest, NetworkError, AbortError, AbortInTrigger, EndBeforePost, Failure, InStage
<1>2. Top.type = "custom" => ~Replays(Top.type)
    BY DEF Replays
<1>3. CASE Finish(TRUE) /\ fault' = "failed"
    BY <1>1, <1>3, FinishKinds
<1>4. CASE Finish(FALSE) /\ Top.stage = "sent" /\ Top.type = "custom"
    BY <1>1, <1>2, <1>4, FinishKinds
<1> QED
    BY <1>1, <1>3, <1>4

LEMMA StageKinds ==
    ASSUME KeptInv, BearInv, NoAuth \/ Send \/ Abort
    PROVE  \E c : Skips(c) \/ Sends(c) \/ Halts(c)
<1>1. /\ stack # << >> /\ template' = template /\ rounds' = rounds
      /\ original' = original /\ accepted' = accepted
    BY DEF NoAuth, Send, Abort, InStage
<1>2. DOMAIN Top = Fields /\ SameEntries(Top.request, Top.request)
    BY <1>1, TopBears
<1>3. CASE NoAuth
    <2> DEFINE c == [Top EXCEPT !.stage = "send"]
    <2>1. stack' = WithTop(c)
        BY <1>3 DEF NoAuth, GoTo
    <2>2. /\ c.type = Top.type /\ c.home = Top.home /\ c.originalItem = Top.originalItem
          /\ c.count = Top.count /\ c.request = Top.request
        BY <1>2 DEF Fields
    <2>3. Top.stage = "auth" /\ ~Replays(Top.type)
        BY <1>3 DEF NoAuth, HasHandler, Types, Replays, InStage
    <2> HIDE DEF c
    <2>4. Skips(c)
        BY <1>1, <1>2, <2>1, <2>2, <2>3 DEF Skips, Unsigned, TopGoes
    <2> QED
        BY <2>4
<1>4. CASE Send
    <2> DEFINE c == [Top EXCEPT !.stage = "sent"]
    <2>1. stack' = WithTop(c) /\ Top.stage = "send" /\ fault' = fault
        BY <1>4 DEF Send, GoTo, InStage
    <2>2. /\ c.type = Top.type /\ c.home = Top.home /\ c.originalItem = Top.originalItem
          /\ c.count = Top.count /\ c.request = Top.request /\ c.auth = Top.auth
          /\ c.stage = "sent"
        BY <1>2 DEF Fields
    <2> HIDE DEF c
    <2>3. Sends(c)
        BY <1>1, <1>2, <2>1, <2>2 DEF Sends, Quiet, Unsigned, TopGoes
    <2> QED
        BY <2>3
<1>5. CASE Abort
    <2> DEFINE c == [Top EXCEPT !.aborted = TRUE]
    <2>1. stack' = WithTop(c) /\ Top.stage \in {"sent", "started"} /\ fault' = "failed"
        BY <1>5 DEF Abort, InStage
    <2>2. /\ c.type = Top.type /\ c.home = Top.home /\ c.originalItem = Top.originalItem
          /\ c.count = Top.count /\ c.request = Top.request /\ c.auth = Top.auth
          /\ c.stage = Top.stage /\ c.replay = Top.replay
        BY <1>2 DEF Fields
    <2> HIDE DEF c
    <2>3. Halts(c)
        BY <1>1, <1>2, <2>1, <2>2 DEF Halts, Quiet, Unsigned, TopGoes
    <2> QED
        BY <2>3
<1> QED
    BY <1>3, <1>4, <1>5

LEMMA SignKinds ==
    ASSUME KeptInv, BearInv, AuthSign
    PROVE  \E c : Signs(c)
<1>1. /\ stack # << >> /\ template' = template /\ rounds' = rounds /\ Top.stage = "sign"
      /\ original' = original /\ accepted' = accepted /\ fault' = fault
    BY DEF AuthSign, InStage
<1>2. DOMAIN Top = Fields
    BY <1>1, TopBears
<1>3. PICK signature \in Sign(Top.type, Top.auth, Top.request, Len(stack)) :
        stack' = WithTop([Top EXCEPT !.stage = "send", !.request = signature.request])
    BY DEF AuthSign
<1> DEFINE c == [Top EXCEPT !.stage = "send", !.request = signature.request]
<1>4. stack' = WithTop(c)
    BY <1>3
<1>5. /\ c.type = Top.type /\ c.home = Top.home /\ c.originalItem = Top.originalItem
      /\ c.count = Top.count /\ c.request = signature.request /\ c.auth = Top.auth
      /\ c.stage = "send"
    BY <1>2 DEF Fields
<1> HIDE DEF c
<1>6. Signs(c)
    BY <1>1, <1>3, <1>4, <1>5 DEF Signs, TopGoes
<1> QED
    BY <1>6

(* Pre and post of the handlers that replay say "go" or not, and nothing else. *)
LEMMA ReplayPre ==
    ASSUME NEW type, Replays(type), NEW auth, NEW outcome \in Pre(type, auth)
    PROVE  outcome.result \in {"go", "no go"}
<1>1. CASE type = "ntlm"
    <2>1. PICK a : outcome \in Go(a, TRUE)
        BY <1>1 DEF Pre, NtlmPre
    <2> QED
        BY <2>1, GoResults
<1>2. CASE type = "digest"
    <2>1. outcome \in Go(auth, Get(auth, "nonce") # 0 /\ Get(auth, "realm") # 0)
        BY <1>2 DEF Pre, DigestPre
    <2>2. (Get(auth, "nonce") # 0 /\ Get(auth, "realm") # 0) \in BOOLEAN
        OBVIOUS
    <2> QED
        BY <2>1, <2>2, GoResults
<1> QED
    BY <1>1, <1>2 DEF Replays

LEMMA PreKinds ==
    ASSUME KeptInv, BearInv, AuthPre
    PROVE  (\E c : Prepares(c) \/ Skips(c)) \/ (\E b, c : SendsFirst(b, c))
<1>1. /\ stack # << >> /\ template' = template /\ rounds' = rounds
      /\ Top.stage = "auth" /\ accepted' = accepted /\ HasHandler(Top)
    BY DEF AuthPre, InStage
<1>2. DOMAIN Top = Fields /\ SameEntries(Top.request, Top.request)
    BY <1>1, TopBears
<1>3. PICK outcome \in Pre(Top.type, Top.auth) :
          /\ original' = IF outcome.result \in {"error", "throws"} THEN original
                         ELSE SyncSystem(outcome.auth, original)
          /\ outcome.result = "go" =>
                /\ stack' = WithTop([Top EXCEPT !.stage = "sign", !.auth = outcome.auth])
                /\ fault' = fault
          /\ outcome.result = "no go" =>
                /\ stack' = WithTop([Top EXCEPT !.stage = "send", !.auth = outcome.auth])
                /\ fault' = fault
          /\ outcome.result = "intermediate" =>
                RequestReplay("intermediate", Len(stack), BlankRequest, GoTo("send"))
          /\ outcome.result = "error" => GoTo("send")
          /\ outcome.result = "throws" => GoTo("lost") \/ Finish(TRUE)
    BY DEF AuthPre
<1>4. CASE outcome.result \in {"go", "no go"}
    <2> DEFINE stage == IF outcome.result = "go" THEN "sign" ELSE "send"
               c == [Top EXCEPT !.stage = stage, !.auth = outcome.auth]
    <2>1. /\ stack' = WithTop(c) /\ fault' = fault /\ original' = SyncSystem(outcome.auth, original)
        BY <1>3, <1>4
    <2>2. /\ c.type = Top.type /\ c.home = Top.home /\ c.originalItem = Top.originalItem
          /\ c.count = Top.count /\ c.request = Top.request /\ c.auth = outcome.auth
          /\ c.stage = stage
        BY <1>2 DEF Fields
    <2> HIDE DEF c
    <2>3. Prepares(c)
        BY <1>1, <1>2, <2>1, <2>2 DEF Prepares, Unsigned, TopGoes
    <2> QED
        BY <2>3
<1>5. CASE outcome.result \notin {"go", "no go"}
    <2>1. ~Replays(Top.type)
        BY <1>5, ReplayPre
    <2>2. ASSUME NEW stage, GoTo(stage) PROVE \E c : Skips(c)
        <3> DEFINE c == [Top EXCEPT !.stage = stage]
        <3>1. stack' = WithTop(c)
            BY <2>2 DEF GoTo
        <3>2. /\ c.type = Top.type /\ c.home = Top.home /\ c.originalItem = Top.originalItem
              /\ c.count = Top.count /\ c.request = Top.request
            BY <1>2 DEF Fields
        <3> HIDE DEF c
        <3>3. Skips(c)
            BY <1>1, <1>2, <2>1, <3>1, <3>2 DEF Skips, Unsigned, TopGoes
        <3> QED
            BY <3>3
    <2>4. ASSUME Finish(TRUE) PROVE \E c : Skips(c)
        <3> DEFINE c == [Top EXCEPT !.stage = "done", !.failed = TRUE]
        <3>1. stack' = WithTop(c)
            BY <2>4 DEF Finish
        <3>2. /\ c.type = Top.type /\ c.home = Top.home /\ c.originalItem = Top.originalItem
              /\ c.count = Top.count /\ c.request = Top.request
            BY <1>2 DEF Fields
        <3> HIDE DEF c
        <3>3. Skips(c)
            BY <1>1, <1>2, <2>1, <3>1, <3>2 DEF Skips, Unsigned, TopGoes
        <3> QED
            BY <3>3
    <2>3. CASE outcome.result = "intermediate"
        <3>1. CASE Top.count >= MaxReplay
            <4>1. GoTo("send")
                BY <1>3, <2>3, <3>1 DEF RequestReplay
            <4> QED
                BY <2>2, <4>1
        <3>2. CASE ~(Top.count >= MaxReplay)
            <4> DEFINE n == Len(stack)
                       b == [Top EXCEPT !.stage = "intermediate", !.count = @ + 1, !.originalItem = n]
                       c == Command(BlankRequest, Top.count + 1, n)
            <4>1. stack' = Append(WithTop(b), c)
                BY <1>3, <2>3, <3>2 DEF RequestReplay
            <4>2. b.type = Top.type /\ b.home = Top.home /\ b.request = Top.request
                BY <1>2 DEF Fields
            <4>3. /\ c.stage = "files" /\ c.home = n /\ c.originalItem = n /\ c.request = BlankRequest
                  /\ c.type = TypeOf(template, n) /\ c.auth = original
                BY DEF Command, TypeOf
            <4> HIDE DEF b, c
            <4>4. SendsFirst(b, c)
                BY <1>1, <2>1, <4>1, <4>2, <4>3 DEF SendsFirst, Waits
            <4> QED
                BY <4>4
        <3> QED
            BY <3>1, <3>2
    <2> QED
        BY <1>3, <1>5, <2>2, <2>3, <2>4, OutcomeResults
<1> QED
    BY <1>4, <1>5

LEMMA RespondKinds ==
    ASSUME KeptInv, BearInv, ResponseStart
    PROVE  \E c : Responds(c)
<1>1. /\ stack # << >> /\ template' = template /\ rounds' = rounds
      /\ Top.stage = "sent" /\ fault' = fault
    BY DEF ResponseStart, InStage
<1>2. DOMAIN Top = Fields /\ SameEntries(Top.request, Top.request)
    BY <1>1, TopBears
<1>3. PICK response \in Responses :
        \E outcome \in IF HasHandler(Top) THEN Post(Top.type, Top.auth, response)
                       ELSE {Outcome("success", Top.auth)} :
            /\ stack' = WithTop([Top EXCEPT !.stage = "started", !.auth = outcome.auth,
                                            !.replay = outcome.result = "replay"])
            /\ original' = IF HasHandler(Top) /\ (Top.originalItem = 0 \/ template.inherits)
                           THEN SyncSystem(outcome.auth, original) ELSE original
            /\ starts' = IF TellsHost(outcome) THEN starts + 1 ELSE starts
            /\ accepted' = IF response.code = 200 THEN accepted \cup NonceUses(Top) ELSE accepted
            /\ nonces' = IF \E i \in 1 .. Len(response.offers) : response.offers[i].nonce > nonces
                         THEN nonces + 1 ELSE nonces
    BY ZenonT(30) DEF ResponseStart
<1>4. PICK outcome \in IF HasHandler(Top) THEN Post(Top.type, Top.auth, response)
                       ELSE {Outcome("success", Top.auth)} :
          /\ stack' = WithTop([Top EXCEPT !.stage = "started", !.auth = outcome.auth,
                                          !.replay = outcome.result = "replay"])
          /\ original' = IF HasHandler(Top) /\ (Top.originalItem = 0 \/ template.inherits)
                         THEN SyncSystem(outcome.auth, original) ELSE original
          /\ accepted' = IF response.code = 200 THEN accepted \cup NonceUses(Top) ELSE accepted
    BY <1>3
<1> DEFINE c == [Top EXCEPT !.stage = "started", !.auth = outcome.auth,
                            !.replay = outcome.result = "replay"]
<1>5. stack' = WithTop(c)
    BY <1>4
<1>6. /\ c.type = Top.type /\ c.home = Top.home /\ c.originalItem = Top.originalItem
      /\ c.count = Top.count /\ c.request = Top.request /\ c.auth = outcome.auth
      /\ c.stage = "started" /\ c.replay = (outcome.result = "replay")
    BY <1>2 DEF Fields
<1> HIDE DEF c
<1>7. HasHandler(Top) =>
        \E o \in Post(Top.type, Top.auth, response) :
            /\ c.auth = o.auth /\ c.replay = (o.result = "replay")
            /\ Top.originalItem = 0 => original' = SyncSystem(o.auth, original)
    BY <1>4, <1>6
<1>8. Responds(c)
    BY <1>1, <1>2, <1>4, <1>5, <1>6, <1>7 DEF Responds, Unsigned, TopGoes
<1> QED
    BY <1>8

LEMMA EndKinds ==
    ASSUME KeptInv, BearInv, ResponseEnd
    PROVE  (\E c : Finishes(c)) \/ (\E b, c : Repeated(b, c))
<1>1. /\ stack # << >> /\ template' = template /\ rounds' = rounds
      /\ Top.stage = "started" /\ original' = original /\ accepted' = accepted
    BY DEF ResponseEnd, InStage
<1>2. /\ DOMAIN Top = Fields /\ SameEntries(Top.request, Top.request)
      /\ Top.originalItem = Top.home
    BY <1>1, TopBears, TopKept DEF IsKept
<1>3. CASE ~Top.replay
    <2>1. Finish(FALSE) /\ fault' = fault
        BY <1>3 DEF ResponseEnd
    <2> QED
        BY <1>1, <1>3, <2>1, FinishKinds
<1>4. CASE Top.replay /\ Top.count >= MaxReplay
    <2>1. Finish(FALSE)
        BY <1>4 DEF ResponseEnd, RequestReplay
    <2> QED
        BY <1>1, <1>4, <2>1, FinishKinds
<1>5. CASE Top.replay /\ ~(Top.count >= MaxReplay)
    <2> DEFINE n == Top.originalItem
               b == [Top EXCEPT !.stage = "replaying", !.count = @ + 1, !.originalItem = n]
               c == Command(Clone(Top.request), Top.count + 1, n)
    <2>1. stack' = Append(WithTop(b), c)
        BY <1>5 DEF ResponseEnd, RequestReplay
    <2>2. fault' = fault
        BY <1>5 DEF ResponseEnd, CountRefusal
    <2>3. b.type = Top.type /\ b.home = Top.home /\ b.request = Top.request
        BY <1>2 DEF Fields
    <2>4. /\ c.stage = "files" /\ c.home = n /\ c.originalItem = n /\ c.request = Clone(Top.request)
          /\ c.type = TypeOf(template, n) /\ c.auth = original /\ c.count = Top.count + 1
        BY DEF Command, TypeOf
    <2>5. SameEntries(Clone(Top.request), Top.request)
        BY <1>2 DEF Clone, SameEntries
    <2> HIDE DEF b, c
    <2>6. Repeated(b, c)
        BY <1>1, <1>5, <2>1, <2>2, <2>3, <2>4, <2>5 DEF Repeated, Waits
    <2> QED
        BY <2>6
<1> QED
    BY <1>3, <1>4, <1>5

LEMMA ReturnKinds ==
    ASSUME KeptInv, BearInv, AuthInit \/ ReplayDone
    PROVE  \E c : Returns(c)
<1> DEFINE b == stack[Len(stack) - 1]
<1>1. /\ stack # << >> /\ Len(stack) > 1 /\ Top.stage = "done"
      /\ UNCHANGED <<template, original, rounds, fault, accepted>>
    BY DEF AuthInit, ReplayDone, InStage
<1>2. Len(stack) \in Nat /\ Len(stack) - 1 \in 1 .. Len(stack)
    BY <1>1, TopKept
<1>3. DOMAIN b = Fields
    BY <1>2 DEF KeptInv, Linked, IsKept
<1>4. CASE AuthInit
    <2>1. PICK stage : stack' = [Below EXCEPT ![Len(stack) - 1] =
                                    [b EXCEPT !.stage = stage, !.originalItem = b.home]]
        BY <1>4 DEF AuthInit
    <2> DEFINE c == [b EXCEPT !.stage = stage, !.originalItem = b.home]
    <2>2. stack' = [Below EXCEPT ![Len(stack) - 1] = c]
        BY <2>1
    <2>3. c.type = b.type /\ c.home = b.home /\ c.request = b.request
        BY <1>3 DEF Fields
    <2>4. b.stage = "intermediate"
        BY <1>4 DEF AuthInit
    <2> HIDE DEF c
    <2>5. Returns(c)
        BY <1>1, <2>2, <2>3, <2>4 DEF Returns
    <2> QED
        BY <2>5
<1>5. CASE ReplayDone
    <2> DEFINE c == [Below[Len(stack) - 1] EXCEPT !.stage = "done", !.failed = Top.failed]
    <2>1. PICK S : stack \in Seq(S)
        BY DEF KeptInv, Linked
    <2>2. Below[Len(stack) - 1] = b
        BY <1>1, <1>2, <2>1 DEF Below
    <2>3. stack' = [Below EXCEPT ![Len(stack) - 1] = c]
        BY <1>5 DEF ReplayDone
    <2>4. c.type = b.type /\ c.home = b.home /\ c.request = b.request /\ c.stage = "done"
        BY <1>3, <2>2 DEF Fields
    <2>5. b.stage = "replaying"
        BY <1>5 DEF ReplayDone
    <2> HIDE DEF c
    <2>6. Returns(c)
        BY <1>1, <2>3, <2>4, <2>5 DEF Returns
    <2> QED
        BY <2>6
<1> QED
    BY <1>4, <1>5

(* What a step does to the commands that are running.                       *)
LEMMA GoesStack ==
    ASSUME KeptInv, stack # << >>, NEW c, stack' = WithTop(c)
    PROVE  /\ stack' # << >> /\ Len(stack') = Len(stack) /\ Top' = c
           /\ Len(stack) \in Nat /\ Len(stack) > 0
           /\ \A k \in 1 .. Len(stack') : \/ stack'[k] = c
                                          \/ k \in 1 .. Len(stack) /\ stack'[k] = stack[k]
<1>1. PICK S : stack \in Seq(S)
    BY DEF KeptInv, Linked
<1>2. stack' = [stack EXCEPT ![Len(stack)] = c]
    BY DEF WithTop
<1>3. /\ Len(stack') = Len(stack) /\ stack'[Len(stack)] = c
      /\ Len(stack) \in Nat /\ Len(stack) > 0
      /\ \A k \in 1 .. Len(stack) - 1 : stack'[k] = stack[k]
    BY <1>1, <1>2, LastSet
<1>4. Top' = stack'[Len(stack')]
    BY DEF Top
<1>5. stack' # << >>
    <2>1. stack' \in Seq(S \cup {c})
        BY <1>1, <1>2, LastSet
    <2> QED
        BY <1>3, <2>1
<1>6. \A k \in 1 .. Len(stack') : k = Len(stack) \/ k \in 1 .. Len(stack) - 1
    BY <1>3
<1>7. ASSUME NEW k \in 1 .. Len(stack')
      PROVE  stack'[k] = c \/ (k \in 1 .. Len(stack) /\ stack'[k] = stack[k])
    BY <1>3, <1>6
<1> QED
    BY <1>3, <1>4, <1>5, <1>7

LEMMA CallsStack ==
    ASSUME KeptInv, stack # << >>, NEW b, NEW c, stack' = Append(WithTop(b), c)
    PROVE  /\ stack' # << >> /\ Len(stack') = Len(stack) + 1 /\ Top' = c
           /\ Len(stack) \in Nat /\ Len(stack) > 0
           /\ \A k \in 1 .. Len(stack') : \/ stack'[k] = c
                                          \/ stack'[k] = b
                                          \/ k \in 1 .. Len(stack) /\ stack'[k] = stack[k]
<1>1. PICK S : stack \in Seq(S)
    BY DEF KeptInv, Linked
<1> DEFINE s == WithTop(b)
<1>2. /\ s \in Seq(S \cup {b}) /\ Len(s) = Len(stack) /\ s[Len(stack)] = b
      /\ Len(stack) \in Nat /\ Len(stack) > 0
      /\ \A k \in 1 .. Len(stack) - 1 : s[k] = stack[k]
    BY <1>1, LastSet DEF WithTop
<1>3. stack' = Append(s, c)
    OBVIOUS
<1> HIDE DEF s
<1>4. /\ Len(stack') = Len(stack) + 1 /\ stack'[Len(stack) + 1] = c
      /\ \A k \in 1 .. Len(stack) : stack'[k] = s[k]
      /\ stack' # << >>
    BY <1>2, <1>3
<1>5. Top' = stack'[Len(stack')]
    BY DEF Top
<1>6. \A k \in 1 .. Len(stack') : k = Len(stack) + 1 \/ k = Len(stack) \/ k \in 1 .. Len(stack) - 1
    BY <1>2, <1>4
<1>7. \A k \in 1 .. Len(stack) - 1 : k \in 1 .. Len(stack)
    BY <1>2
<1>8. Len(stack) \in 1 .. Len(stack)
    BY <1>2
<1> QED
    BY <1>2, <1>4, <1>5, <1>6, <1>7, <1>8

LEMMA ReturnsStack ==
    ASSUME KeptInv, stack # << >>, Len(stack) > 1,
           NEW c, stack' = [Below EXCEPT ![Len(stack) - 1] = c]
    PROVE  /\ stack' # << >> /\ Len(stack') = Len(stack) - 1 /\ Top' = c
           /\ Len(stack) \in Nat
           /\ \A k \in 1 .. Len(stack') : \/ stack'[k] = c
                                          \/ k \in 1 .. Len(stack) /\ stack'[k] = stack[k]
<1>1. PICK S : stack \in Seq(S)
    BY DEF KeptInv, Linked
<1> DEFINE t == Below
<1>0. Len(stack) \in Nat /\ Len(stack) > 1
    BY <1>1
<1>2. /\ t \in Seq(S) /\ Len(t) = Len(stack) - 1
      /\ \A k \in 1 .. Len(stack) - 1 : t[k] = stack[k]
    BY <1>0, <1>1 DEF Below
<1>3. stack' = [t EXCEPT ![Len(t)] = c] /\ t # << >>
    BY <1>0, <1>2
<1> HIDE DEF t
<1>4. /\ stack' \in Seq(S \cup {c}) /\ Len(stack') = Len(t) /\ stack'[Len(t)] = c
      /\ \A k \in 1 .. Len(t) - 1 : stack'[k] = t[k]
    <2>1. LET u == [t EXCEPT ![Len(t)] = c]
          IN  /\ u \in Seq(S \cup {c}) /\ Len(u) = Len(t) /\ u[Len(t)] = c
              /\ \A k \in 1 .. Len(t) - 1 : u[k] = t[k]
        BY <1>2, <1>3, LastSet
    <2> QED
        BY <1>3, <2>1
<1>5. Top' = stack'[Len(stack')]
    BY DEF Top
<1>6. \A k \in 1 .. Len(stack') : k = Len(stack) - 1 \/ k \in 1 .. Len(t) - 1
    BY <1>2, <1>4
<1>7. \A k \in 1 .. Len(t) - 1 : k \in 1 .. Len(stack) /\ k \in 1 .. Len(stack) - 1
    BY <1>2
<1>8. stack' # << >>
    BY <1>0, <1>2, <1>4
<1>9. ASSUME NEW k \in 1 .. Len(stack')
      PROVE  stack'[k] = c \/ (k \in 1 .. Len(stack) /\ stack'[k] = stack[k])
    BY <1>2, <1>4, <1>6, <1>7
<1> QED
    BY <1>0, <1>2, <1>4, <1>5, <1>8, <1>9

Goes(c) ==
    \/ Loads(c) \/ Skips(c) \/ Prepares(c) \/ Signs(c) \/ Sends(c) \/ Halts(c)
    \/ Responds(c) \/ Finishes(c)

LEMMA NextKinds ==
    ASSUME KeptInv, BearInv, [Next]_vars
    PROVE  \/ UNCHANGED vars \/ Begin \/ End
           \/ \E c : Goes(c)
           \/ \E b, c : Repeated(b, c)
           \/ \E b, c : SendsFirst(b, c)
           \/ \E c : Returns(c)
<1>1. CASE LoadFile \/ LoadFiles \/ FilesLoaded
    BY <1>1, LoadKinds DEF Goes
<1>2. CASE NoRequest \/ NetworkError \/ AbortError \/ AbortInTrigger \/ EndBeforePost
    BY <1>2, FailKinds DEF Goes
<1>3. CASE NoAuth \/ Send \/ Abort
    BY <1>3, StageKinds DEF Goes
<1>4. CASE AuthPre
    BY <1>4, PreKinds DEF Goes
<1>5. CASE AuthSign
    BY <1>5, SignKinds DEF Goes
<1>6. CASE ResponseStart
    BY <1>6, RespondKinds DEF Goes
<1>7. CASE ResponseEnd
    BY <1>7, EndKinds DEF Goes
<1>8. CASE AuthInit \/ ReplayDone
    BY <1>8, ReturnKinds
<1> QED
    BY <1>1, <1>2, <1>3, <1>4, <1>5, <1>6, <1>7, <1>8 DEF Next, Proceed

LEMMA SameNeat ==
    ASSUME NEW type, NEW r, NEW q, Neat(type, q), SameEntries(r, q)
    PROVE  Neat(type, r)
BY DEF Neat, SameEntries

LEMMA PlainNeat ==
    ASSUME NEW type, NEW r, {"header", "query", "form"} \subseteq DOMAIN r,
           \A entry \in Entries(r) : entry.value = << >>
    PROVE  Neat(type, r)
<1>1. Added(r.header) = {} /\ Added(r.query) = {} /\ Added(r.form) = {}
    BY DEF Added, Entries
<1>2. \A entry \in Entries(r) : Len(entry.value) # 3
    BY Len(<< >>) = 0
<1> QED
    BY <1>1, <1>2 DEF Neat, Single, Entries

LEMMA GoesBears ==
    ASSUME KeptInv, BearInv, NEW c, Goes(c)
    PROVE  stack # << >> /\ stack' = WithTop(c) /\ template' = template /\ Bears(template, c)
<1>1. TopGoes(c)
    BY DEF Goes, Loads, Skips, Prepares, Signs, Sends, Halts, Responds, Finishes, Quiet, Unsigned
<1>2. stack # << >> /\ stack' = WithTop(c) /\ template' = template /\ c.type = Top.type /\ c.home = Top.home
    BY <1>1 DEF TopGoes
<1>3. Top.type = TypeOf(template, Top.home) /\ Neat(Top.type, Top.request)
    BY <1>2, TopBears DEF Bears
<1>4. CASE Signs(c)
    <2>1. PICK signature \in Sign(Top.type, Top.auth, Top.request, Len(stack)) :
            c.request = signature.request
        BY <1>4 DEF Signs
    <2>2. Neat(Top.type, signature.request)
        BY <1>3, SignNeat
    <2> QED
        BY <1>2, <1>3, <2>1, <2>2 DEF Bears
<1>5. CASE Unsigned(c)
    BY <1>2, <1>3, <1>5, SameNeat DEF Bears, Unsigned
<1> QED
    BY <1>4, <1>5 DEF Goes, Loads, Skips, Prepares, Sends, Halts, Responds, Finishes, Quiet

LEMMA WaitsBears ==
    ASSUME KeptInv, BearInv, NEW b, NEW c, Waits(b, c), Neat(c.type, c.request)
    PROVE  BearInv'
<1>1. stack # << >> /\ stack' = Append(WithTop(b), c) /\ template' = template
    BY DEF Waits
<1>2. Bears(template, Top)
    BY <1>1, TopBears
<1>3. Bears(template, b) /\ Bears(template, c)
    BY <1>2 DEF Bears, Waits
<1>4. \A k \in 1 .. Len(stack') : Bears(template, stack'[k])
    BY <1>1, <1>3, CallsStack DEF BearInv
<1> QED
    BY <1>1, <1>4 DEF BearInv

LEMMA BearStep ==
    ASSUME KeptInv, BearInv, [Next]_vars
    PROVE  BearInv'
<1>1. CASE UNCHANGED vars
    BY <1>1 DEF BearInv, vars
<1>2. CASE Begin
    <2> DEFINE c == Command(template.request, 0, 0)
    <2>1. stack' = <<c>> /\ template' = template
        BY <1>2 DEF Begin
    <2>2. c.type = template.type /\ c.home = 0 /\ c.request = template.request
        BY DEF Command
    <2> HIDE DEF c
    <2>3. Neat(template.type, template.request)
        BY PlainNeat, TemplatesAssumption DEF KeptInv
    <2>4. Bears(template, c)
        BY <2>2, <2>3 DEF Bears, TypeOf
    <2>5. Len(stack') = 1 /\ stack'[1] = c
        BY <2>1
    <2>6. \A k \in 1 .. Len(stack') : Bears(template, stack'[k])
        BY <2>4, <2>5
    <2> QED
        BY <2>1, <2>6 DEF BearInv
<1>3. CASE End
    <2>1. stack' = << >>
        BY <1>3 DEF End
    <2>2. \A k \in 1 .. Len(stack') : FALSE
        BY <2>1
    <2> QED
        BY <2>2 DEF BearInv
<1>4. ASSUME NEW c, Goes(c) PROVE BearInv'
    <2>1. stack # << >> /\ stack' = WithTop(c) /\ template' = template /\ Bears(template, c)
        BY <1>4, GoesBears
    <2>2. \A k \in 1 .. Len(stack') : Bears(template, stack'[k])
        BY <2>1, GoesStack DEF BearInv
    <2> QED
        BY <2>1, <2>2 DEF BearInv
<1>5. ASSUME NEW b, NEW c, Repeated(b, c) PROVE BearInv'
    <2>1. /\ Waits(b, c) /\ SameEntries(c.request, Top.request) /\ stack # << >>
          /\ c.originalItem = Top.originalItem /\ Top.stage = "started"
        BY <1>5 DEF Repeated, Waits
    <2>2. Top.originalItem = Top.home
        BY <2>1, TopKept DEF IsKept
    <2>3. Top.type = TypeOf(template, Top.home) /\ Neat(Top.type, Top.request)
        BY <2>1, TopBears DEF Bears
    <2>4. c.type = Top.type
        BY <2>1, <2>2, <2>3 DEF Waits
    <2>5. Neat(c.type, c.request)
        BY <2>1, <2>3, <2>4, SameNeat
    <2> QED
        BY <2>1, <2>5, WaitsBears
<1>6. ASSUME NEW b, NEW c, SendsFirst(b, c) PROVE BearInv'
    <2>1. Waits(b, c) /\ c.request = BlankRequest
        BY <1>6 DEF SendsFirst
    <2>2. /\ {"header", "query", "form"} \subseteq DOMAIN BlankRequest
          /\ Entries(BlankRequest) = {}
        BY DEF BlankRequest, Entries
    <2>3. Neat(c.type, BlankRequest)
        BY <2>2, PlainNeat
    <2> QED
        BY <2>1, <2>3, WaitsBears
<1>7. ASSUME NEW c, Returns(c) PROVE BearInv'
    <2> DEFINE b == stack[Len(stack) - 1]
    <2>1. /\ stack # << >> /\ Len(stack) > 1 /\ stack' = [Below EXCEPT ![Len(stack) - 1] = c]
          /\ c.type = b.type /\ c.home = b.home /\ c.request = b.request /\ template' = template
        BY <1>7 DEF Returns
    <2>2. Len(stack) \in Nat
        BY <2>1, TopKept
    <2>3. Bears(template, b)
        BY <2>1, <2>2 DEF BearInv
    <2>4. Bears(template, c)
        BY <2>1, <2>3 DEF Bears
    <2> HIDE DEF b
    <2>5. \A k \in 1 .. Len(stack') : \/ stack'[k] = c
                                      \/ k \in 1 .. Len(stack) /\ stack'[k] = stack[k]
        BY <2>1, ReturnsStack
    <2>6. \A k \in 1 .. Len(stack') : Bears(template, stack'[k])
        BY <2>4, <2>5 DEF BearInv
    <2> QED
        BY <2>1, <2>6 DEF BearInv
<1> QED
    BY <1>1, <1>2, <1>3, <1>4, <1>5, <1>6, <1>7, NextKinds

(***************************************************************************)
(* Items whose handler replays                                              *)
(***************************************************************************)
IsFunction(auth) == auth = [key \in DOMAIN auth |-> auth[key]]

(* Before the response, and while it comes: the command has the auth of the *)
(* item.                                                                    *)
Live == Top.stage \in {"files", "auth", "sign", "send", "sent", "started"}

LiveInv ==
    /\ IsFunction(original)
    /\ stack # << >> =>
        /\ Live \/ Top.stage = "done"
        /\ Live => /\ Top.type = template.type /\ Top.auth = original
                   /\ Top.originalItem = 0 /\ Top.count = Len(stack) - 1

(* The steps of such an item.                                               *)
Same == original' = original /\ accepted' = accepted /\ fault' = fault
OnTop == stack # << >> /\ stack' # << >> /\ template' = template /\ rounds' = rounds
SameRequest == OnTop /\ Len(stack') = Len(stack) /\ SameEntries(Top'.request, Top.request)

Begins ==
    /\ stack = << >> /\ stack' # << >> /\ Len(stack') = 1 /\ Top'.stage = "files"
    /\ Top'.request = template.request /\ template' = template
    /\ original' = original /\ accepted' = accepted

Loading == SameRequest /\ Same /\ Top.stage = "files" /\ Top'.stage \in {"files", "auth"}

Preparing ==
    /\ SameRequest /\ accepted' = accepted /\ fault' = fault /\ Top.stage = "auth"
    /\ \E outcome \in Pre(template.type, original) :
          /\ original' = outcome.auth
          /\ Top'.stage = IF outcome.result = "go" THEN "sign" ELSE "send"

Signing ==
    /\ OnTop /\ Len(stack') = Len(stack) /\ Same /\ Top.stage = "sign" /\ Top'.stage = "send"
    /\ \E signature \in Sign(template.type, original, Top.request, Len(stack)) :
          Top'.request = signature.request

Sending == SameRequest /\ Same /\ Top.stage = "send" /\ Top'.stage = "sent"

Halting ==
    /\ SameRequest /\ original' = original /\ accepted' = accepted /\ fault' = "failed"
    /\ Top.stage \in {"sent", "started"} /\ Top'.stage = Top.stage /\ Top'.replay = Top.replay

Responding ==
    /\ SameRequest /\ fault' = fault /\ Top.stage = "sent" /\ Top'.stage = "started"
    /\ \E response \in Responses :
          /\ accepted' = IF response.code = 200 THEN accepted \cup NonceUses(Top) ELSE accepted
          /\ \E outcome \in Post(template.type, original, response) :
                original' = outcome.auth /\ Top'.replay = (outcome.result = "replay")

Finishing ==
    /\ SameRequest /\ original' = original /\ accepted' = accepted /\ Top'.stage = "done"
    /\ \/ fault' = "failed"
       \/ Top.stage = "started" /\ ~Top.replay /\ fault' = fault
       \/ Top.stage = "started" /\ Top.replay /\ Len(stack) - 1 >= MaxReplay

Repeating ==
    /\ OnTop /\ Len(stack') = Len(stack) + 1 /\ Same
    /\ Top.stage = "started" /\ Top.replay /\ Top'.stage = "files"
    /\ SameEntries(Top'.request, Top.request)

Returning == OnTop /\ Same /\ Top.stage = "done" /\ Top'.stage = "done"

Ends == stack # << >> /\ Top.stage = "done" /\ stack' = << >> /\ template' = template
        /\ rounds' = rounds /\ Same

Advances ==
    \/ UNCHANGED vars \/ Begins \/ Loading \/ Preparing \/ Signing \/ Sending \/ Halting
    \/ Responding \/ Finishing \/ Repeating \/ Returning \/ Ends

(* What pre and post set in the clone is what is copied back.               *)
LEMMA SyncSame ==
    ASSUME NEW auth, IsFunction(auth), NEW new, new = auth \/ \E values : new = SetAll(auth, values)
    PROVE  SyncSystem(new, auth) = new /\ IsFunction(new)
<1>1. CASE new = auth
    <2>1. SyncSystem(auth, auth) = [key \in DOMAIN auth |-> auth[key]]
        BY DEF SyncSystem
    <2> QED
        BY <1>1, <2>1 DEF IsFunction
<1>2. ASSUME NEW values, new = SetAll(auth, values)
      PROVE  SyncSystem(new, auth) = new /\ IsFunction(new)
    <2>1. /\ new = [key \in DOMAIN new |-> new[key]]
          /\ DOMAIN new = DOMAIN auth \cup DOMAIN values
          /\ \A key \in DOMAIN new : \/ key \in DOMAIN auth /\ new[key] = auth[key]
                                     \/ new[key].system
        BY <1>2 DEF SetAll, System
    <2>2. DOMAIN auth \cup {key \in DOMAIN new : new[key].system} = DOMAIN new
        BY <2>1
    <2>3. SyncSystem(new, auth) = [key \in DOMAIN new |-> new[key]]
        BY <2>1, <2>2 DEF SyncSystem
    <2> QED
        BY <2>1, <2>3 DEF IsFunction
<1> QED
    BY <1>1, <1>2

LEMMA ReplayAuths ==
    ASSUME NEW type, Replays(type), NEW auth, NEW response,
           NEW outcome \in Pre(type, auth) \cup Post(type, auth, response)
    PROVE  outcome.auth = auth \/ \E values : outcome.auth = SetAll(auth, values)
<1>0. ASSUME NEW result, NEW a PROVE Outcome(result, a).auth = a
    BY DEF Outcome
<1>1. CASE type = "ntlm" /\ outcome \in Pre(type, auth)
    <2>1. PICK a : /\ outcome \in Go(a, TRUE)
                   /\ a = auth \/ \E state, header : a = NtlmState(auth, state, header)
        BY <1>1 DEF Pre, NtlmPre
    <2>2. outcome.auth = a
        BY <2>1, <1>0 DEF Go
    <2> QED
        BY <2>1, <2>2 DEF NtlmState
<1>2. CASE type = "digest" /\ outcome \in Pre(type, auth)
    <2>1. outcome \in Go(auth, Get(auth, "nonce") # 0 /\ Get(auth, "realm") # 0)
        BY <1>2 DEF Pre, DigestPre
    <2> QED
        BY <2>1, <1>0 DEF Go
<1>3. CASE type = "ntlm" /\ outcome \in Post(type, auth, response)
    <2>1. \/ outcome = Outcome("success", auth)
          \/ outcome = Outcome("success", NtlmState(auth, INITIALIZED, 0))
          \/ outcome = Outcome("error", NtlmState(auth, INITIALIZED, 0))
          \/ outcome = Outcome("replay", NtlmState(auth, T1_MSG_CREATED, NegotiateMessage))
          \/ outcome = Outcome("replay", NtlmState(auth, T3_MSG_CREATED, AuthenticateMessage))
        BY <1>3 DEF Post, NtlmPost
    <2>2. outcome.auth = auth \/ \E state, header : outcome.auth = NtlmState(auth, state, header)
        BY <2>1, <1>0
    <2> QED
        BY <2>2 DEF NtlmState
<1>4. CASE type = "digest" /\ outcome \in Post(type, auth, response)
    <2>1. \/ outcome = Outcome("success", auth)
          \/ \E values : outcome = Outcome("replay", SetAll(auth, values))
          \/ outcome = Outcome("success", IncreaseNonceCount(auth))
        BY <1>4 DEF Post, DigestPost
    <2> QED
        BY <2>1, <1>0 DEF IncreaseNonceCount, Set
<1> QED
    BY <1>1, <1>2, <1>3, <1>4 DEF Replays

LEMMA LiveStep ==
    ASSUME ChainInv, KeptInv, BearInv, LiveInv, Replays(template.type), [Next]_vars
    PROVE  LiveInv' /\ Advances
<1>0. template.type # "none" /\ template.type # "custom" /\ template.type \in Types
    BY DEF Replays, Types
<1>1. CASE UNCHANGED vars
    BY <1>1 DEF vars, LiveInv, Live, Top, Advances
<1>2. CASE Begin
    <2> DEFINE c == Command(template.request, 0, 0)
    <2>1. /\ stack = << >> /\ stack' = <<c>> /\ template' = template
          /\ original' = original /\ accepted' = accepted
        BY <1>2 DEF Begin
    <2>2. /\ c.type = template.type /\ c.stage = "files" /\ c.auth = original
          /\ c.originalItem = 0 /\ c.count = 0 /\ c.request = template.request
        BY DEF Command
    <2> HIDE DEF c
    <2>3. Len(stack') = 1 /\ stack' # << >> /\ stack'[1] = c
        BY <2>1
    <2>4. Top' = c
        BY <2>3 DEF Top
    <2>5. LiveInv'
        BY <2>1, <2>2, <2>3, <2>4 DEF LiveInv, Live, IsFunction
    <2>6. Begins
        BY <2>1, <2>2, <2>3, <2>4 DEF Begins
    <2> QED
        BY <2>5, <2>6 DEF Advances
<1>3. CASE End
    <2>1. /\ stack # << >> /\ stack' = << >> /\ Top.stage = "done" /\ template' = template
          /\ rounds' = rounds /\ original' = original /\ accepted' = accepted /\ fault' = fault
        BY <1>3 DEF End, InStage
    <2>2. LiveInv'
        BY <2>1 DEF LiveInv, IsFunction
    <2> QED
        BY <2>1, <2>2 DEF Advances, Ends, Same
<1>4. ASSUME NEW c, Goes(c) PROVE LiveInv' /\ Advances
    <2>1. TopGoes(c)
        BY <1>4 DEF Goes, Loads, Skips, Prepares, Signs, Sends, Halts, Responds, Finishes, Quiet, Unsigned
    <2>2. /\ stack # << >> /\ stack' = WithTop(c)
          /\ c.type = Top.type /\ c.home = Top.home
          /\ c.originalItem = Top.originalItem /\ c.count = Top.count
          /\ template' = template /\ rounds' = rounds
        BY <2>1 DEF TopGoes
    <2>3. stack' # << >> /\ Len(stack') = Len(stack) /\ Top' = c
        BY <2>2, GoesStack
    <2>4. OnTop /\ (Unsigned(c) => SameRequest)
        BY <2>2, <2>3 DEF OnTop, SameRequest, Unsigned
    <2>5. ASSUME Live PROVE /\ Top.type = template.type /\ Top.auth = original
                            /\ Top.originalItem = 0 /\ Top.count = Len(stack) - 1
        BY <2>2, <2>5 DEF LiveInv
    <2>6. ASSUME Live, c.auth = original', IsFunction(original'),
                 c.stage \in {"files", "auth", "sign", "send", "sent", "started"}
          PROVE  LiveInv'
        BY <2>2, <2>3, <2>5, <2>6 DEF LiveInv, Live
    <2>7. IsFunction(original)
        BY DEF LiveInv
    <2>8. CASE Loads(c)
        <3>1. Live
            BY <2>8 DEF Loads, Live
        <3>2. LiveInv'
            BY <2>5, <2>6, <2>7, <2>8, <3>1 DEF Loads, Quiet
        <3>3. Loading
            BY <2>3, <2>4, <2>8 DEF Loading, Loads, Quiet, Same
        <3> QED
            BY <3>2, <3>3 DEF Advances
    <2>9. CASE Skips(c)
        <3>1. Live /\ ~Replays(Top.type)
            BY <2>9 DEF Skips, Live
        <3> QED
            BY <2>5, <3>1
    <2>10. CASE Prepares(c)
        <3>1. Live
            BY <2>10 DEF Prepares, Live
        <3>2. Top.type = template.type /\ Top.auth = original
            BY <2>5, <3>1
        <3>3. PICK outcome \in Pre(template.type, original) :
                /\ c.auth = outcome.auth /\ original' = SyncSystem(outcome.auth, original)
                /\ c.stage = IF outcome.result = "go" THEN "sign" ELSE "send"
            BY <2>10, <3>2 DEF Prepares
        <3>4. outcome.auth = original \/ \E values : outcome.auth = SetAll(original, values)
            BY ReplayAuths
        <3>5. original' = outcome.auth /\ IsFunction(original')
            BY <2>7, <3>3, <3>4, SyncSame
        <3>6. LiveInv'
            BY <2>6, <3>1, <3>3, <3>5
        <3>7. Preparing
            BY <2>3, <2>4, <2>10, <3>3, <3>5 DEF Preparing, Prepares
        <3> QED
            BY <3>6, <3>7 DEF Advances
    <2>11. CASE Signs(c)
        <3>1. Live
            BY <2>11 DEF Signs, Live
        <3>2. Top.type = template.type /\ Top.auth = original
            BY <2>5, <3>1
        <3>3. LiveInv'
            BY <2>6, <2>7, <2>11, <3>1, <3>2 DEF Signs
        <3>4. Signing
            BY <2>3, <2>4, <2>11, <3>2 DEF Signing, Signs, Same
        <3> QED
            BY <3>3, <3>4 DEF Advances
    <2>12. CASE Sends(c)
        <3>1. Live
            BY <2>12 DEF Sends, Live
        <3>2. LiveInv'
            BY <2>5, <2>6, <2>7, <2>12, <3>1 DEF Sends, Quiet
        <3>3. Sending
            BY <2>3, <2>4, <2>12 DEF Sending, Sends, Quiet, Same
        <3> QED
            BY <3>2, <3>3 DEF Advances
    <2>13. CASE Halts(c)
        <3>1. Live
            BY <2>13 DEF Halts, Live
        <3>2. LiveInv'
            BY <2>5, <2>6, <2>7, <2>13, <3>1 DEF Halts, Quiet
        <3>3. Halting
            BY <2>3, <2>4, <2>13 DEF Halting, Halts, Quiet
        <3> QED
            BY <3>2, <3>3 DEF Advances
    <2>14. CASE Responds(c)
        <3>1. Live
            BY <2>14 DEF Responds, Live
        <3>2. Top.type = template.type /\ Top.auth = original /\ Top.originalItem = 0 /\ HasHandler(Top)
            BY <1>0, <2>5, <3>1 DEF HasHandler
        <3>3. PICK response \in Responses :
                /\ accepted' = IF response.code = 200 THEN accepted \cup NonceUses(Top) ELSE accepted
                /\ \E outcome \in Post(template.type, original, response) :
                      /\ c.auth = outcome.auth /\ c.replay = (outcome.result = "replay")
                      /\ original' = SyncSystem(outcome.auth, original)
            BY <2>14, <3>2 DEF Responds
        <3>4. PICK outcome \in Post(template.type, original, response) :
                /\ c.auth = outcome.auth /\ c.replay = (outcome.result = "replay")
                /\ original' = SyncSystem(outcome.auth, original)
            BY <3>3
        <3>5. outcome.auth = original \/ \E values : outcome.auth = SetAll(original, values)
            BY ReplayAuths
        <3>6. original' = outcome.auth /\ IsFunction(original')
            BY <2>7, <3>4, <3>5, SyncSame
        <3>7. LiveInv'
            BY <2>6, <2>14, <3>1, <3>4, <3>6 DEF Responds
        <3>8. \E o \in Post(template.type, original, response) :
                original' = o.auth /\ Top'.replay = (o.result = "replay")
            BY <2>3, <3>4, <3>6
        <3>9. Responding
            BY <2>3, <2>4, <2>14, <3>3, <3>8 DEF Responding, Responds
        <3> QED
            BY <3>7, <3>9 DEF Advances
    <2>15. CASE Finishes(c)
        <3>1. LiveInv'
            BY <2>3, <2>7, <2>15 DEF LiveInv, Live, Finishes, Quiet
        <3>2. Top.stage = "started" => Top.count = Len(stack) - 1
            BY <2>5 DEF Live
        <3>3. ~(Top.stage = "sent" /\ ~Replays(Top.type))
            BY <2>5 DEF Live
        <3>4. Finishing
            BY <2>3, <2>4, <2>15, <3>2, <3>3 DEF Finishing, Finishes, Quiet
        <3> QED
            BY <3>1, <3>4 DEF Advances
    <2> QED
        BY <1>4, <2>8, <2>9, <2>10, <2>11, <2>12, <2>13, <2>14, <2>15 DEF Goes
<1>5. ASSUME NEW b, NEW c, Repeated(b, c) PROVE LiveInv' /\ Advances
    <2>1. /\ stack # << >> /\ stack' = Append(WithTop(b), c) /\ template' = template
          /\ c.stage = "files" /\ c.home = c.originalItem /\ c.type = TypeOf(template, c.home)
          /\ c.auth = original /\ SameEntries(c.request, Top.request)
          /\ Top.stage = "started" /\ Top.replay /\ ~(Top.count >= MaxReplay)
          /\ c.count = Top.count + 1 /\ c.originalItem = Top.originalItem
          /\ rounds' = rounds /\ original' = original /\ accepted' = accepted /\ fault' = fault
        BY <1>5 DEF Repeated, Waits
    <2>2. Top.originalItem = 0 /\ Top.count = Len(stack) - 1 /\ IsFunction(original)
        BY <2>1 DEF LiveInv, Live
    <2>3. /\ stack' # << >> /\ Len(stack') = Len(stack) + 1 /\ Top' = c /\ Len(stack) \in Nat
        BY <2>1, CallsStack
    <2>4. c.type = template.type /\ c.originalItem = 0 /\ c.count = Len(stack') - 1
        BY <2>1, <2>2, <2>3 DEF TypeOf
    <2>5. LiveInv'
        BY <2>1, <2>2, <2>3, <2>4 DEF LiveInv, Live
    <2>6. Repeating
        BY <2>1, <2>3 DEF Repeating, OnTop, Same
    <2> QED
        BY <2>5, <2>6 DEF Advances
<1>6. ASSUME NEW b, NEW c, SendsFirst(b, c) PROVE LiveInv' /\ Advances
    <2>1. stack # << >> /\ Top.stage = "auth" /\ ~Replays(Top.type)
        BY <1>6 DEF SendsFirst, Waits
    <2>2. Top.type = template.type
        BY <2>1 DEF LiveInv, Live
    <2> QED
        BY <2>1, <2>2
<1>7. ASSUME NEW c, Returns(c) PROVE LiveInv' /\ Advances
    <2>1. /\ stack # << >> /\ Len(stack) > 1 /\ Top.stage = "done"
          /\ stack' = [Below EXCEPT ![Len(stack) - 1] = c]
          /\ \/ stack[Len(stack) - 1].stage = "intermediate"
             \/ stack[Len(stack) - 1].stage = "replaying" /\ c.stage = "done"
          /\ UNCHANGED <<template, original, rounds, fault, accepted>>
        BY <1>7 DEF Returns
    <2>2. c.stage = "done"
        BY <1>0, <2>1, NothingFirst
    <2>3. stack' # << >> /\ Len(stack') = Len(stack) - 1 /\ Top' = c
        BY <2>1, ReturnsStack
    <2>4. IsFunction(original)
        BY DEF LiveInv
    <2>5. LiveInv'
        BY <2>1, <2>2, <2>3, <2>4 DEF LiveInv, Live
    <2>6. Returning
        BY <2>1, <2>2, <2>3 DEF Returning, OnTop, Same
    <2> QED
        BY <2>5, <2>6 DEF Advances
<1> QED
    BY <1>1, <1>2, <1>3, <1>4, <1>5, <1>6, <1>7, NextKinds

(* What a signing adds is all that was added.                               *)
Removed(r) == RemoveHeader(r, Authorization, TRUE)

LEMMA NothingAdded ==
    ASSUME NEW type, Replays(type), NEW r, Neat(type, r)
    PROVE  /\ Added(Removed(r).header) = {}
           /\ \A value : Added(AddHeader(Removed(r), Authorization, value).header)
                            \subseteq {Entry(Authorization, value)}
<1>1. "header" \in DOMAIN r
    BY DEF Neat
<1>2. Removed(r).header = Without(r.header, Authorization, TRUE) /\ "header" \in DOMAIN Removed(r)
    BY <1>1 DEF Removed, RemoveHeader
<1>3. \A added \in Added(r.header) : added.key = Authorization
    BY DEF Neat
<1>4. Added(Removed(r).header) = {}
    BY <1>2, <1>3 DEF Without, Added
<1>5. ASSUME NEW value
      PROVE  Added(AddHeader(Removed(r), Authorization, value).header) \subseteq {Entry(Authorization, value)}
    <2>1. AddHeader(Removed(r), Authorization, value).header
            = Removed(r).header \cup {Entry(Authorization, value)}
        BY <1>2 DEF AddHeader
    <2> QED
        BY <1>4, <2>1 DEF Added
<1> QED
    BY <1>4, <1>5

LEMMA DigestAdds ==
    ASSUME NEW r, Neat("digest", r), NEW auth, NEW n,
           NEW signature \in Sign("digest", auth, r, n)
    PROVE  \/ /\ signature.request = r
              /\ Get(auth, "username") = 0 \/ Get(auth, "realm") = 0
           \/ /\ Get(auth, "username") # 0 /\ Get(auth, "realm") # 0
              /\ \A added \in Added(signature.request.header) : added.value = DigestHeader(auth, n)
<1> DEFINE signed == AddHeader(Removed(r), Authorization, DigestHeader(auth, n))
<1>1. Replays("digest")
    BY DEF Replays
<1>2. /\ Added(Removed(r).header) = {}
      /\ Added(signed.header) \subseteq {Entry(Authorization, DigestHeader(auth, n))}
    BY <1>1, NothingAdded
<1>3. \/ signature \in NotSigned(r) /\ (Get(auth, "username") = 0 \/ Get(auth, "realm") = 0)
      \/ /\ Get(auth, "username") # 0 /\ Get(auth, "realm") # 0
         /\ signature = Failed(Removed(r)) \/ signature = Signed(signed)
    BY DEF Sign, DigestSign, SignHashed, Removed
<1>4. \A q : /\ Failed(q).request = q /\ Signed(q).request = q
             /\ \A s \in NotSigned(q) : s.request = q
    BY DEF Failed, Signed, NotSigned, Signature
<1>5. Entry(Authorization, DigestHeader(auth, n)).value = DigestHeader(auth, n)
    BY DEF Entry
<1> HIDE DEF signed
<1> QED
    BY <1>2, <1>3, <1>4, <1>5

LEMMA NtlmAdds ==
    ASSUME NEW r, Neat("ntlm", r), NEW auth, NEW n,
           NEW signature \in Sign("ntlm", auth, r, n)
    PROVE  \A added \in Added(signature.request.header) : added.value[1] = n
<1> DEFINE value == <<n, Get(auth, "ntlmHeader")>>
           signed == AddHeader(Removed(r), Authorization, value)
<1>1. Replays("ntlm")
    BY DEF Replays
<1>2. /\ Added(Removed(r).header) = {}
      /\ Added(signed.header) \subseteq {Entry(Authorization, value)}
    BY <1>1, NothingAdded
<1>3. signature \in NotSigned(Removed(r)) \/ signature = Signed(signed)
    BY DEF Sign, NtlmSign, Removed
<1>4. \A q : /\ Signed(q).request = q
             /\ \A s \in NotSigned(q) : s.request = q
    BY DEF Signed, NotSigned, Signature
<1>5. Entry(Authorization, value).value[1] = n
    BY DEF Entry
<1> HIDE DEF signed, value
<1> QED
    BY <1>2, <1>3, <1>4, <1>5

(* pre of digest changes nothing, and its post the count or what the        *)
(* challenge says.                                                          *)
LEMMA DigestPreSets ==
    ASSUME NEW auth, NEW outcome \in Pre("digest", auth)
    PROVE  /\ outcome.auth = auth
           /\ outcome.result = IF Get(auth, "nonce") # 0 /\ Get(auth, "realm") # 0
                               THEN "go" ELSE "no go"
<1> DEFINE result == IF Get(auth, "nonce") # 0 /\ Get(auth, "realm") # 0 THEN "go" ELSE "no go"
<1>1. outcome = [result |-> result, auth |-> auth]
    BY DEF Pre, DigestPre, Go, Outcome
<1> HIDE DEF result
<1>2. outcome.auth = auth /\ outcome.result = result
    BY <1>1
<1> QED
    BY <1>2 DEF result

Known(auth, offer) == \A key \in DOMAIN FromChallenge(auth, offer) : Get(auth, key) # 0

LEMMA DigestPostSets ==
    ASSUME NEW auth, NEW response, NEW outcome \in Post("digest", auth, response)
    PROVE  \/ /\ outcome.result # "replay" /\ outcome.auth = auth
              /\ Get(auth, "disableRetryRequest") # 0 \/ response.code # 200
           \/ /\ outcome.result # "replay" /\ outcome.auth = IncreaseNonceCount(auth)
              /\ Get(auth, "disableRetryRequest") = 0
           \/ /\ outcome.result = "replay" /\ Get(auth, "disableRetryRequest") = 0
              /\ response.code # 200
              /\ \E offer : ~Known(auth, offer)
                            /\ outcome.auth = SetAll(auth, FromChallenge(auth, offer))
<1> DEFINE offer == DigestChallenges(response.offers, Get(auth, "algorithm"))[1]
<1>1. \/ /\ outcome = Outcome("success", auth)
         /\ Get(auth, "disableRetryRequest") # 0 \/ response.code = 401
      \/ /\ outcome = Outcome("success", IncreaseNonceCount(auth))
         /\ Get(auth, "disableRetryRequest") = 0
      \/ /\ outcome = Outcome("replay", SetAll(auth, FromChallenge(auth, offer)))
         /\ Get(auth, "disableRetryRequest") = 0 /\ response.code = 401 /\ ~Known(auth, offer)
    BY DEF Post, DigestPost, Known
<1>2. \A result, a : Outcome(result, a).result = result /\ Outcome(result, a).auth = a
    BY DEF Outcome
<1>3. "success" # "replay" /\ 401 # 200
    OBVIOUS
<1> HIDE DEF offer
<1> QED
    BY <1>1, <1>2, <1>3

LEMMA SetsGet ==
    ASSUME NEW auth, NEW values, NEW key
    PROVE  Get(SetAll(auth, values), key) =
                IF \/ key \notin DOMAIN values
                   \/ key \in DOMAIN auth /\ ~auth[key].system /\ auth[key].value # 0
                THEN Get(auth, key) ELSE values[key]
BY DEF Get, SetAll, System

LEMMA IncreaseGets ==
    ASSUME NEW auth, NEW key, key # "nonceCount"
    PROVE  Get(IncreaseNonceCount(auth), key) = Get(auth, key)
BY SetsGet DEF IncreaseNonceCount, Set

LEMMA ChallengeValues ==
    ASSUME NEW auth, NEW offer
    PROVE  LET values == FromChallenge(auth, offer)
           IN  /\ {"nonce", "realm"} \subseteq DOMAIN values
               /\ DOMAIN values \subseteq {"nonce", "realm", "qop", "clientNonce", "nonceCount"}
               /\ values["realm"] = 1
               /\ "nonceCount" \in DOMAIN values => values["nonceCount"] = 1
               /\ "clientNonce" \in DOMAIN values => values["clientNonce"] = 1
               /\ "qop" \in DOMAIN values => values["qop"] # 0
               /\ ("qop" \in DOMAIN values \/ Get(auth, "qop") # 0) =>
                        "clientNonce" \in DOMAIN values /\ "nonceCount" \in DOMAIN values
BY DEF FromChallenge

LEMMA ChallengeGets ==
    ASSUME NEW auth, NEW offer
    PROVE  LET new == SetAll(auth, FromChallenge(auth, offer))
           IN  /\ Get(new, "realm") # 0
               /\ \A key : key \notin {"nonce", "realm", "qop", "clientNonce", "nonceCount"} =>
                        Get(new, key) = Get(auth, key)
               /\ Get(new, "qop") # 0 => Get(new, "clientNonce") # 0 /\ Get(new, "nonceCount") # 0
<1> DEFINE values == FromChallenge(auth, offer)
           new == SetAll(auth, values)
<1>1. /\ {"nonce", "realm"} \subseteq DOMAIN values
      /\ DOMAIN values \subseteq {"nonce", "realm", "qop", "clientNonce", "nonceCount"}
      /\ values["realm"] = 1
      /\ "nonceCount" \in DOMAIN values => values["nonceCount"] = 1
      /\ "clientNonce" \in DOMAIN values => values["clientNonce"] = 1
      /\ "qop" \in DOMAIN values => values["qop"] # 0
      /\ ("qop" \in DOMAIN values \/ Get(auth, "qop") # 0) =>
                "clientNonce" \in DOMAIN values /\ "nonceCount" \in DOMAIN values
    BY ChallengeValues
<1> HIDE DEF values
<1>2. \A key : Get(new, key) =
                IF \/ key \notin DOMAIN values
                   \/ key \in DOMAIN auth /\ ~auth[key].system /\ auth[key].value # 0
                THEN Get(auth, key) ELSE values[key]
    BY SetsGet
<1> HIDE DEF new
<1>3. \A key \in DOMAIN values : Get(new, key) = values[key] \/ Get(new, key) # 0
    BY <1>2 DEF Get
<1>4. Get(new, "realm") # 0
    BY <1>1, <1>3
<1>5. ASSUME Get(new, "qop") # 0
      PROVE  Get(new, "clientNonce") # 0 /\ Get(new, "nonceCount") # 0
    <2>1. "qop" \in DOMAIN values \/ Get(auth, "qop") # 0
        BY <1>2, <1>5
    <2> QED
        BY <1>1, <1>3, <2>1
<1>6. ASSUME NEW key, key \notin {"nonce", "realm", "qop", "clientNonce", "nonceCount"}
      PROVE  Get(new, key) = Get(auth, key)
    BY <1>1, <1>2, <1>6
<1> QED
    BY <1>4, <1>5, <1>6 DEF new, values

(* What the last signing added is all that was added.                       *)
SignedInv ==
    stack # << >> /\ Live =>
        /\ template.type = "digest" /\ Added(Top.request.header) # {} =>
                Get(original, "realm") # 0 /\ Get(original, "username") # 0
        /\ template.type = "digest" /\ Top.stage = "sign" =>
                Get(original, "nonce") # 0 /\ Get(original, "realm") # 0
        /\ (/\ Top.stage \in {"send", "sent"}
            /\ template.type = "ntlm" \/ Get(original, "nonce") # 0) =>
                \A added \in Added(Top.request.header) : added.value[1] = Len(stack)

LEMMA TopNeat ==
    ASSUME KeptInv, BearInv, LiveInv, stack # << >>, Live
    PROVE  Neat(template.type, Top.request)
<1>1. Neat(Top.type, Top.request)
    BY TopBears DEF Bears
<1>2. Top.type = template.type
    BY DEF LiveInv
<1> QED
    BY <1>1, <1>2

LEMMA SignedStep ==
    ASSUME KeptInv, BearInv, LiveInv, SignedInv, Replays(template.type), Advances
    PROVE  SignedInv'
<1>0. template.type = "digest" \/ template.type = "ntlm"
    BY DEF Replays
<1>1. CASE UNCHANGED vars
    BY <1>1 DEF vars, SignedInv, Live, Top
<1>2. CASE Begins
    <2>1. Added(template.request.header) = {}
        BY TemplatesAssumption DEF KeptInv, Added, Entries
    <2> QED
        BY <1>2, <2>1 DEF Begins, SignedInv
<1>3. CASE Loading \/ Sending \/ Halting
    <2>1. /\ stack # << >> /\ Live /\ template' = template /\ original' = original
          /\ Len(stack') = Len(stack) /\ Top'.request.header = Top.request.header
          /\ Top'.stage # "sign"
          /\ Top'.stage \in {"send", "sent"} => Top.stage \in {"send", "sent"}
        BY <1>3 DEF Loading, Sending, Halting, SameRequest, OnTop, Same, SameEntries, Live
    <2> QED
        BY <2>1 DEF SignedInv
<1>4. CASE Preparing
    <2>1. /\ stack # << >> /\ Live /\ template' = template /\ Top.stage = "auth"
          /\ Len(stack') = Len(stack) /\ Top'.request.header = Top.request.header
        BY <1>4 DEF Preparing, SameRequest, OnTop, SameEntries, Live
    <2>2. PICK outcome \in Pre(template.type, original) :
            /\ original' = outcome.auth
            /\ Top'.stage = IF outcome.result = "go" THEN "sign" ELSE "send"
        BY <1>4 DEF Preparing
    <2>3. CASE template.type = "digest"
        <3>1. /\ original' = original
              /\ Top'.stage = IF Get(original, "nonce") # 0 /\ Get(original, "realm") # 0
                              THEN "sign" ELSE "send"
            BY <2>2, <2>3, DigestPreSets
        <3> QED
            BY <2>1, <2>3, <3>1 DEF SignedInv
    <2>4. CASE template.type = "ntlm"
        <3>1. PICK a : outcome \in Go(a, TRUE)
            BY <2>4 DEF Pre, NtlmPre
        <3>2. outcome.result = "go"
            BY <3>1 DEF Go, Outcome
        <3> QED
            BY <2>1, <2>2, <2>4, <3>2 DEF SignedInv
    <2> QED
        BY <1>0, <2>3, <2>4
<1>5. CASE Signing
    <2>1. /\ stack # << >> /\ Live /\ template' = template /\ Top'.stage = "send"
          /\ Len(stack') = Len(stack) /\ original' = original
        BY <1>5 DEF Signing, OnTop, Same, Live
    <2>2. PICK signature \in Sign(template.type, original, Top.request, Len(stack)) :
            Top'.request = signature.request
        BY <1>5 DEF Signing
    <2>3. Neat(template.type, Top.request)
        BY <2>1, TopNeat
    <2>4. CASE template.type = "digest"
        <3>1. \/ /\ Top'.request = Top.request
                 /\ Get(original, "username") = 0 \/ Get(original, "realm") = 0
              \/ /\ Get(original, "username") # 0 /\ Get(original, "realm") # 0
                 /\ \A added \in Added(Top'.request.header) :
                        added.value = DigestHeader(original, Len(stack))
            BY <2>2, <2>3, <2>4, DigestAdds
        <3>2. DigestHeader(original, Len(stack))[1] = Len(stack)
            BY DEF DigestHeader
        <3> QED
            BY <2>1, <2>4, <3>1, <3>2 DEF SignedInv
    <2>5. CASE template.type = "ntlm"
        <3>1. \A added \in Added(Top'.request.header) : added.value[1] = Len(stack)
            BY <2>2, <2>3, <2>5, NtlmAdds
        <3> QED
            BY <2>1, <2>5, <3>1 DEF SignedInv
    <2> QED
        BY <1>0, <2>4, <2>5
<1>6. CASE Responding
    <2>1. /\ stack # << >> /\ Live /\ template' = template /\ Top'.stage = "started"
          /\ Top'.request.header = Top.request.header
        BY <1>6 DEF Responding, SameRequest, OnTop, SameEntries, Live
    <2>2. PICK response, outcome : /\ outcome \in Post(template.type, original, response)
                                   /\ original' = outcome.auth
        BY <1>6 DEF Responding
    <2>3. ASSUME template.type = "digest", Get(original, "realm") # 0, Get(original, "username") # 0
          PROVE  Get(original', "realm") # 0 /\ Get(original', "username") # 0
        <3>1. \/ original' = original
              \/ original' = IncreaseNonceCount(original)
              \/ \E offer : original' = SetAll(original, FromChallenge(original, offer))
            BY <2>2, <2>3, DigestPostSets
        <3> QED
            BY <2>3, <3>1, IncreaseGets, ChallengeGets
    <2> QED
        BY <2>1, <2>3 DEF SignedInv
<1>7. CASE Repeating
    <2>1. /\ stack # << >> /\ Live /\ template' = template /\ Top'.stage = "files"
          /\ Top'.request.header = Top.request.header /\ original' = original
        BY <1>7 DEF Repeating, OnTop, Same, SameEntries, Live
    <2> QED
        BY <2>1 DEF SignedInv
<1>8. CASE Finishing \/ Returning \/ Ends
    BY <1>8 DEF Finishing, Returning, Ends, SignedInv, Live
<1> QED
    BY <1>1, <1>2, <1>3, <1>4, <1>5, <1>6, <1>7, <1>8 DEF Advances

(***************************************************************************)
(* The handshake of ntlm                                                    *)
(***************************************************************************)
(* Setting the parameter takes effect.                                      *)
Free(auth, key) == key \in DOMAIN auth => auth[key].system \/ auth[key].value = 0

Over == Get(original, "state") = INITIALIZED /\ Get(original, "ntlmHeader") = 0

NtlmInv ==
    /\ Free(original, "state") /\ Free(original, "ntlmHeader")
    /\ Get(original, "state") \in 0 .. 3
    /\ Get(original, "disableRetryRequest") # 0 =>
            Get(original, "state") \in {0, INITIALIZED} /\ Get(original, "ntlmHeader") = 0
    /\ stack = << >> /\ rounds > 0 => fault = "failed" \/ Over
    /\ stack # << >> =>
        /\ Top.stage = "done" => fault = "failed" \/ Over
        /\ Top.stage \in {"files", "auth", "sign", "send", "sent"} =>
                Len(stack) \in 1 .. 3 /\ (Len(stack) > 1 => Get(original, "state") >= Len(stack))
        /\ Top.stage \in {"sign", "send", "sent"} => Get(original, "state") # 0
        /\ Top.stage = "started" =>
                IF Top.replay THEN Len(stack) \in 1 .. 2 /\ Get(original, "state") > Len(stack)
                ELSE Over

LEMMA NtlmSets ==
    ASSUME NEW auth, Free(auth, "state"), Free(auth, "ntlmHeader"), NEW state, NEW header
    PROVE  LET new == NtlmState(auth, state, header)
           IN  /\ Free(new, "state") /\ Free(new, "ntlmHeader")
               /\ Get(new, "state") = state /\ Get(new, "ntlmHeader") = header
               /\ Get(new, "disableRetryRequest") = Get(auth, "disableRetryRequest")
<1> DEFINE values == [key \in {"state", "ntlmHeader"} |-> IF key = "state" THEN state ELSE header]
           new == SetAll(auth, values)
<1>1. /\ DOMAIN values = {"state", "ntlmHeader"} /\ values["state"] = state
      /\ values["ntlmHeader"] = header
    OBVIOUS
<1> HIDE DEF values
<1>2. \A key : Get(new, key) =
                IF \/ key \notin DOMAIN values
                   \/ key \in DOMAIN auth /\ ~auth[key].system /\ auth[key].value # 0
                THEN Get(auth, key) ELSE values[key]
    BY SetsGet
<1>3. new["state"] = System(state) /\ new["ntlmHeader"] = System(header)
    BY <1>1 DEF SetAll, Free
<1> HIDE DEF new
<1>4. Free(new, "state") /\ Free(new, "ntlmHeader")
    BY <1>3 DEF Free, System
<1>5. /\ Get(new, "state") = state /\ Get(new, "ntlmHeader") = header
      /\ Get(new, "disableRetryRequest") = Get(auth, "disableRetryRequest")
    BY <1>1, <1>2 DEF Free
<1> QED
    BY <1>4, <1>5 DEF new, values, NtlmState

LEMMA NtlmPostSets ==
    ASSUME NEW auth, NEW response, NEW outcome \in Post("ntlm", auth, response)
    PROVE  \/ /\ outcome.result # "replay" /\ outcome.auth = auth
              /\ Get(auth, "disableRetryRequest") # 0
           \/ /\ outcome.result # "replay" /\ outcome.auth = NtlmState(auth, INITIALIZED, 0)
           \/ /\ outcome.result = "replay" /\ Get(auth, "state") = INITIALIZED
              /\ Get(auth, "disableRetryRequest") = 0
              /\ outcome.auth = NtlmState(auth, T1_MSG_CREATED, NegotiateMessage)
           \/ /\ outcome.result = "replay" /\ Get(auth, "state") = T1_MSG_CREATED
              /\ Get(auth, "disableRetryRequest") = 0
              /\ outcome.auth = NtlmState(auth, T3_MSG_CREATED, AuthenticateMessage)
<1>1. \/ outcome = Outcome("success", auth) /\ Get(auth, "disableRetryRequest") # 0
      \/ outcome = Outcome("success", NtlmState(auth, INITIALIZED, 0))
      \/ outcome = Outcome("error", NtlmState(auth, INITIALIZED, 0))
      \/ /\ outcome = Outcome("replay", NtlmState(auth, T1_MSG_CREATED, NegotiateMessage))
         /\ Get(auth, "state") = INITIALIZED /\ Get(auth, "disableRetryRequest") = 0
      \/ /\ outcome = Outcome("replay", NtlmState(auth, T3_MSG_CREATED, AuthenticateMessage))
         /\ Get(auth, "state") = T1_MSG_CREATED /\ Get(auth, "disableRetryRequest") = 0
    BY DEF Post, NtlmPost
<1>2. \A result, a : Outcome(result, a).result = result /\ Outcome(result, a).auth = a
    BY DEF Outcome
<1> QED
    BY <1>1, <1>2

LEMMA NtlmStep ==
    ASSUME NtlmInv, KeptInv, LiveInv, template.type = "ntlm", MaxReplay >= 2, Advances
    PROVE  NtlmInv'
<1>0. /\ MaxReplay \in Nat
      /\ stack # << >> => Len(stack) \in Nat
      /\ INITIALIZED = 1 /\ T1_MSG_CREATED = 2 /\ T3_MSG_CREATED = 3
    BY BoundsAssumption, TopKept DEF INITIALIZED, T1_MSG_CREATED, T3_MSG_CREATED
<1>1. CASE UNCHANGED vars
    BY <1>1 DEF vars, NtlmInv, Over, Top
<1>2. CASE Begins
    BY <1>2 DEF Begins, NtlmInv, Over
<1>3. CASE Loading \/ Sending \/ Halting \/ Returning
    BY <1>3 DEF Loading, Sending, Halting, Returning, SameRequest, OnTop, Same, NtlmInv, Over
<1>4. CASE Signing
    BY <1>4 DEF Signing, OnTop, Same, NtlmInv, Over
<1>5. CASE Preparing
    <2>1. /\ stack # << >> /\ stack' # << >> /\ Top.stage = "auth" /\ Len(stack') = Len(stack)
        BY <1>5 DEF Preparing, SameRequest, OnTop
    <2>2. PICK outcome \in Pre("ntlm", original) :
            /\ original' = outcome.auth
            /\ Top'.stage = IF outcome.result = "go" THEN "sign" ELSE "send"
        BY <1>5 DEF Preparing
    <2> DEFINE auth == IF Get(original, "state") = 0 THEN NtlmState(original, INITIALIZED, 0)
                       ELSE original
    <2>3. outcome = Outcome("go", auth)
        BY DEF Pre, NtlmPre, Go
    <2> HIDE DEF auth
    <2>4. outcome.auth = auth /\ outcome.result = "go"
        BY <2>3 DEF Outcome
    <2>5. /\ Top'.stage = "sign"
          /\ original' = IF Get(original, "state") = 0 THEN NtlmState(original, INITIALIZED, 0)
                         ELSE original
        BY <2>2, <2>4 DEF auth
    <2>6. CASE Get(original, "state") = 0
        <3>1. /\ Free(original', "state") /\ Free(original', "ntlmHeader")
              /\ Get(original', "state") = INITIALIZED /\ Get(original', "ntlmHeader") = 0
            BY <2>5, <2>6, NtlmSets DEF NtlmInv
        <3>2. Len(stack) = 1
            BY <1>0, <2>1, <2>6 DEF NtlmInv
        <3> QED
            BY <1>0, <2>1, <2>5, <3>1, <3>2 DEF NtlmInv
    <2>7. CASE Get(original, "state") # 0
        BY <2>1, <2>5, <2>7 DEF NtlmInv
    <2> QED
        BY <2>6, <2>7
<1>6. CASE Responding
    <2>1. /\ stack # << >> /\ stack' # << >> /\ Top.stage = "sent" /\ Len(stack') = Len(stack)
          /\ Top'.stage = "started"
        BY <1>6 DEF Responding, SameRequest, OnTop
    <2>2. PICK response, outcome :
            /\ outcome \in Post("ntlm", original, response)
            /\ original' = outcome.auth /\ Top'.replay = (outcome.result = "replay")
        BY <1>6 DEF Responding
    <2>3. /\ Free(original, "state") /\ Free(original, "ntlmHeader")
          /\ Get(original, "state") \in 1 .. 3 /\ Len(stack) \in 1 .. 3
          /\ Len(stack) > 1 => Get(original, "state") >= Len(stack)
          /\ Get(original, "disableRetryRequest") # 0 =>
                Get(original, "state") \in {0, INITIALIZED} /\ Get(original, "ntlmHeader") = 0
        BY <2>1 DEF NtlmInv
    <2>4. CASE original' = original /\ ~Top'.replay /\ Get(original, "disableRetryRequest") # 0
        BY <1>0, <2>1, <2>3, <2>4 DEF NtlmInv, Over
    <2>5. CASE original' = NtlmState(original, INITIALIZED, 0) /\ ~Top'.replay
        <3>1. /\ Free(original', "state") /\ Free(original', "ntlmHeader")
              /\ Get(original', "state") = INITIALIZED /\ Get(original', "ntlmHeader") = 0
            BY <2>3, <2>5, NtlmSets
        <3> QED
            BY <1>0, <2>1, <2>5, <3>1 DEF NtlmInv, Over
    <2>6. CASE /\ Top'.replay /\ Get(original, "disableRetryRequest") = 0
               /\ \/ /\ original' = NtlmState(original, T1_MSG_CREATED, NegotiateMessage)
                     /\ Get(original, "state") = INITIALIZED
                  \/ /\ original' = NtlmState(original, T3_MSG_CREATED, AuthenticateMessage)
                     /\ Get(original, "state") = T1_MSG_CREATED
        <3>1. /\ Free(original', "state") /\ Free(original', "ntlmHeader")
              /\ Get(original', "disableRetryRequest") = 0
              /\ Get(original', "state") = Get(original, "state") + 1
            BY <1>0, <2>3, <2>6, NtlmSets
        <3>2. Get(original, "state") \in 1 .. 2 /\ Len(stack) \in 1 .. 2
            BY <1>0, <2>3, <2>6
        <3>3. Get(original', "state") > Len(stack) /\ Get(original', "state") \in 0 .. 3
            BY <2>3, <3>1, <3>2
        <3> QED
            BY <2>1, <2>6, <3>1, <3>2, <3>3 DEF NtlmInv
    <2> QED
        BY <2>2, <2>4, <2>5, <2>6, NtlmPostSets
<1>7. CASE Finishing
    <2>1. /\ stack # << >> /\ stack' # << >> /\ Top'.stage = "done" /\ original' = original
          /\ \/ fault' = "failed"
             \/ Top.stage = "started" /\ ~Top.replay /\ fault' = fault
             \/ Top.stage = "started" /\ Top.replay /\ Len(stack) - 1 >= MaxReplay
        BY <1>7 DEF Finishing, SameRequest, OnTop
    <2>2. ASSUME Top.stage = "started"
          PROVE  (Top.replay /\ Len(stack) - 1 < MaxReplay) \/ (~Top.replay /\ Over)
        BY <1>0, <2>1, <2>2 DEF NtlmInv
    <2>3. fault' = "failed" \/ Over
        BY <1>0, <2>1, <2>2
    <2> QED
        BY <2>1, <2>3 DEF NtlmInv, Over
<1>8. CASE Repeating
    <2>1. /\ stack # << >> /\ stack' # << >> /\ Top'.stage = "files" /\ original' = original
          /\ Len(stack') = Len(stack) + 1 /\ Top.stage = "started" /\ Top.replay
        BY <1>8 DEF Repeating, OnTop, Same
    <2>2. Len(stack) \in 1 .. 2 /\ Get(original, "state") > Len(stack)
        BY <2>1 DEF NtlmInv
    <2>3. Len(stack') \in 1 .. 3 /\ Get(original, "state") >= Len(stack')
        BY <2>1, <2>2 DEF NtlmInv
    <2> QED
        BY <2>1, <2>3 DEF NtlmInv
<1>9. CASE Ends
    BY <1>9 DEF Ends, Same, NtlmInv, Over
<1> QED
    BY <1>1, <1>2, <1>3, <1>4, <1>5, <1>6, <1>7, <1>8, <1>9 DEF Advances

(***************************************************************************)
(* The count of digest                                                      *)
(***************************************************************************)
Settled(auth) ==
    \A key \in {"nonce", "realm", "qop", "clientNonce", "nonceCount"} : Get(auth, key) # 0

(* The nonce and count that a request signed now carries.                   *)
Uses == {<<Get(original, "nonce"), Get(original, "nonceCount")>>}

DigestInv ==
    /\ Free(original, "nonce") /\ Free(original, "nonceCount")
    /\ Get(original, "algorithm") # Md5Sess
    /\ Get(original, "nonceCount") \in Nat
    /\ Get(original, "disableRetryRequest") # 0 => Get(original, "nonce") = 0
    /\ Get(original, "nonce") # 0 /\ Get(original, "qop") # 0 => Settled(original)
    /\ accepted # {} => Settled(original)
    /\ \A use \in accepted :
            use[1] = Get(original, "nonce") /\ use[2] \in Nat /\ use[2] < Get(original, "nonceCount")
    /\ stack # << >> /\ Live =>
            IF Top.stage \in {"send", "sent"}
            THEN NonceUses(Top) # {} => NonceUses(Top) = Uses /\ Settled(original)
            ELSE (Top.stage = "started" => Top.replay) => NonceUses(Top) = {}

LEMMA SameUses ==
    ASSUME NEW b, NEW c, SameEntries(c.request, b.request)
    PROVE  NonceUses(c) = NonceUses(b)
BY DEF NonceUses, SameEntries, Entries

(* Only what was added to the headers has a nonce.                          *)
LEMMA UsesAdded ==
    ASSUME NEW type, NEW c, Neat(type, c.request), NEW use \in NonceUses(c)
    PROVE  \E added \in Added(c.request.header) :
                use = <<added.value[2], added.value[3]>> /\ added.value[3] # 0
<1>1. PICK entry \in Entries(c.request) :
        /\ Len(entry.value) = 3 /\ entry.value[3] # 0
        /\ use = <<entry.value[2], entry.value[3]>>
    BY DEF NonceUses
<1>2. entry \in c.request.header
    BY <1>1 DEF Neat, Entries
<1>3. entry.value # << >>
    BY <1>1
<1> QED
    BY <1>1, <1>2, <1>3 DEF Added

LEMMA PlainUses ==
    ASSUME KeptInv, NEW c, c.request = template.request
    PROVE  NonceUses(c) = {}
<1>1. \A entry \in Entries(template.request) : entry.value = << >>
    BY TemplatesAssumption DEF KeptInv
<1>2. Len(<< >>) # 3
    OBVIOUS
<1> QED
    BY <1>1, <1>2 DEF NonceUses

LEMMA IncreaseSets ==
    ASSUME NEW auth, Free(auth, "nonce"), Free(auth, "nonceCount"), Get(auth, "nonceCount") \in Nat
    PROVE  LET new == IncreaseNonceCount(auth)
           IN  /\ Free(new, "nonce") /\ Free(new, "nonceCount")
               /\ Get(new, "nonceCount") = Get(auth, "nonceCount") + 1
<1> DEFINE values == [k \in {"nonceCount"} |-> Get(auth, "nonceCount") + 1]
           new == SetAll(auth, values)
<1>1. DOMAIN values = {"nonceCount"} /\ values["nonceCount"] = Get(auth, "nonceCount") + 1
    OBVIOUS
<1> HIDE DEF values
<1>2. /\ DOMAIN new = DOMAIN auth \cup {"nonceCount"}
      /\ new["nonceCount"] = System(values["nonceCount"])
      /\ "nonce" \in DOMAIN auth => new["nonce"] = auth["nonce"]
    BY <1>1 DEF SetAll, Free
<1> HIDE DEF new
<1>3. Free(new, "nonce") /\ Free(new, "nonceCount") /\ Get(new, "nonceCount") = Get(auth, "nonceCount") + 1
    BY <1>1, <1>2 DEF Free, System, Get
<1> QED
    BY <1>3 DEF new, values, IncreaseNonceCount, Set

LEMMA ChallengeSets ==
    ASSUME NEW auth, Free(auth, "nonce"), Free(auth, "nonceCount"), Get(auth, "nonceCount") \in Nat,
           NEW offer
    PROVE  LET new == SetAll(auth, FromChallenge(auth, offer))
           IN  /\ Free(new, "nonce") /\ Free(new, "nonceCount")
               /\ Get(new, "nonceCount") \in Nat
<1> DEFINE values == FromChallenge(auth, offer)
           new == SetAll(auth, values)
<1>1. /\ "nonce" \in DOMAIN values
      /\ "nonceCount" \in DOMAIN values => values["nonceCount"] = 1
    BY ChallengeValues
<1> HIDE DEF values
<1>2. /\ DOMAIN new = DOMAIN auth \cup DOMAIN values
      /\ new["nonce"] = System(values["nonce"])
      /\ "nonceCount" \in DOMAIN values => new["nonceCount"] = System(values["nonceCount"])
      /\ "nonceCount" \in DOMAIN auth /\ "nonceCount" \notin DOMAIN values =>
            new["nonceCount"] = auth["nonceCount"]
    BY <1>1 DEF SetAll, Free
<1> HIDE DEF new
<1>3. Free(new, "nonce") /\ Free(new, "nonceCount")
    BY <1>1, <1>2 DEF Free, System
<1>4. Get(new, "nonceCount") \in Nat
    BY <1>1, <1>2 DEF System, Get
<1> QED
    BY <1>3, <1>4 DEF new, values

(* Once all is known no challenge is looked at any more.                    *)
LEMMA SettledKnown ==
    ASSUME NEW auth, Settled(auth), NEW offer
    PROVE  Known(auth, offer)
BY ChallengeValues DEF Settled, Known

LEMMA DigestStep ==
    ASSUME DigestInv, KeptInv, BearInv, LiveInv, SignedInv, template.type = "digest", Advances
    PROVE  DigestInv'
<1>1. CASE UNCHANGED vars
    BY <1>1 DEF vars, DigestInv, Live, Top, Uses, NonceUses
(* Where neither the auth nor what the server accepted changes.             *)
<1>2. ASSUME original' = original, accepted' = accepted,
             stack' # << >> /\ Live' =>
                IF Top'.stage \in {"send", "sent"}
                THEN NonceUses(Top') # {} => NonceUses(Top') = Uses /\ Settled(original)
                ELSE (Top'.stage = "started" => Top'.replay) => NonceUses(Top') = {}
      PROVE  DigestInv'
    <2>1. Uses' = Uses
        BY <1>2 DEF Uses
    <2>2. NonceUses(Top)' = NonceUses(Top')
        BY DEF NonceUses
    <2> QED
        BY <1>2, <2>1, <2>2 DEF DigestInv
<1>3. CASE Begins
    <2>1. NonceUses(Top') = {}
        BY <1>3, PlainUses DEF Begins
    <2> QED
        BY <1>2, <1>3, <2>1 DEF Begins
<1>4. CASE Loading \/ Sending \/ Halting
    <2>1. /\ stack # << >> /\ Live /\ original' = original /\ accepted' = accepted
          /\ SameEntries(Top'.request, Top.request)
          /\ Top'.stage \in {"send", "sent"} <=> Top.stage \in {"send", "sent"}
          /\ Top.stage = "started" => Top'.stage = "started" /\ Top'.replay = Top.replay
        BY <1>4 DEF Loading, Sending, Halting, SameRequest, OnTop, Same, Live
    <2>2. NonceUses(Top') = NonceUses(Top)
        BY <2>1, SameUses
    <2>3. IF Top.stage \in {"send", "sent"}
          THEN NonceUses(Top) # {} => NonceUses(Top) = Uses /\ Settled(original)
          ELSE (Top.stage = "started" => Top.replay) => NonceUses(Top) = {}
        BY <2>1 DEF DigestInv
    <2>4. CASE Top.stage \in {"send", "sent"}
        BY <1>2, <2>1, <2>2, <2>3, <2>4
    <2>5. CASE Top.stage \notin {"send", "sent"}
        BY <1>2, <2>1, <2>2, <2>3, <2>5
    <2> QED
        BY <2>4, <2>5
<1>5. CASE Preparing
    <2>1. /\ stack # << >> /\ Live /\ Top.stage = "auth" /\ accepted' = accepted
          /\ SameEntries(Top'.request, Top.request)
        BY <1>5 DEF Preparing, SameRequest, OnTop, Live
    <2>2. PICK outcome \in Pre("digest", original) :
            /\ original' = outcome.auth
            /\ Top'.stage = IF outcome.result = "go" THEN "sign" ELSE "send"
        BY <1>5 DEF Preparing
    <2>3. original' = original
        BY <2>2, DigestPreSets
    <2>4. NonceUses(Top') = {}
        BY <2>1, SameUses DEF DigestInv
    <2> QED
        BY <1>2, <2>1, <2>3, <2>4
<1>6. CASE Signing
    <2>1. /\ stack # << >> /\ Live /\ stack' # << >> /\ Top.stage = "sign" /\ Top'.stage = "send"
          /\ original' = original /\ accepted' = accepted
        BY <1>6 DEF Signing, OnTop, Same, Live
    <2>2. PICK signature \in Sign("digest", original, Top.request, Len(stack)) :
            Top'.request = signature.request
        BY <1>6 DEF Signing
    <2>3. Neat("digest", Top.request)
        BY <2>1, TopNeat
    <2>4. Neat("digest", Top'.request)
        BY <2>2, <2>3, SignNeat
    <2>5. Get(original, "nonce") # 0 /\ Get(original, "realm") # 0
        BY <2>1 DEF SignedInv
    <2>6. CASE Top'.request = Top.request
        <3>1. SameEntries(Top'.request, Top.request)
            BY <2>3, <2>6 DEF SameEntries, Neat
        <3>2. NonceUses(Top') = {}
            BY <2>1, <3>1, SameUses DEF DigestInv
        <3> QED
            BY <1>2, <2>1, <3>2
    <2>7. CASE \A added \in Added(Top'.request.header) :
                    added.value = DigestHeader(original, Len(stack))
        <3>1. ASSUME NEW use \in NonceUses(Top')
              PROVE  use = <<Get(original, "nonce"), Get(original, "nonceCount")>> /\ Get(original, "qop") # 0
            <4>1. PICK added \in Added(Top'.request.header) :
                    use = <<added.value[2], added.value[3]>> /\ added.value[3] # 0
                BY <2>4, <3>1, UsesAdded
            <4>2. added.value = DigestHeader(original, Len(stack))
                BY <2>7
            <4>3. /\ DigestHeader(original, Len(stack))[2] = Get(original, "nonce")
                  /\ DigestHeader(original, Len(stack))[3] =
                        IF Get(original, "qop") # 0 THEN Get(original, "nonceCount") ELSE 0
                BY DEF DigestHeader, DigestInv
            <4> QED
                BY <4>1, <4>2, <4>3
        <3>2. NonceUses(Top') # {} => NonceUses(Top') = Uses /\ Settled(original)
            BY <2>5, <3>1 DEF Uses, DigestInv
        <3> QED
            BY <1>2, <2>1, <3>2
    <2> QED
        BY <2>2, <2>3, <2>6, <2>7, DigestAdds
<1>7. CASE Responding
    <2>1. /\ stack # << >> /\ Live /\ Top.stage = "sent" /\ Top'.stage = "started"
          /\ SameEntries(Top'.request, Top.request)
        BY <1>7 DEF Responding, SameRequest, OnTop, Live
    <2>2. PICK response :
            /\ accepted' = IF response.code = 200 THEN accepted \cup NonceUses(Top) ELSE accepted
            /\ \E outcome \in Post("digest", original, response) :
                    original' = outcome.auth /\ Top'.replay = (outcome.result = "replay")
        BY <1>7 DEF Responding
    <2>3. PICK outcome \in Post("digest", original, response) :
            original' = outcome.auth /\ Top'.replay = (outcome.result = "replay")
        BY <2>2
    <2>4. /\ NonceUses(Top)' = NonceUses(Top)
          /\ NonceUses(Top) # {} => NonceUses(Top) = Uses /\ Settled(original)
        <3>1. NonceUses(Top)' = NonceUses(Top')
            BY DEF NonceUses
        <3>2. NonceUses(Top') = NonceUses(Top)
            BY <2>1, SameUses
        <3> QED
            BY <2>1, <3>1, <3>2 DEF DigestInv
    <2>5. CASE /\ outcome.result # "replay" /\ outcome.auth = original
               /\ Get(original, "disableRetryRequest") # 0 \/ response.code # 200
        <3>1. accepted' = accepted
            BY <2>2, <2>4, <2>5 DEF DigestInv, Settled
        <3> QED
            BY <2>1, <2>3, <2>5, <3>1 DEF DigestInv
    <2>6. CASE /\ outcome.result # "replay" /\ outcome.auth = IncreaseNonceCount(original)
               /\ Get(original, "disableRetryRequest") = 0
        <3>1. /\ Free(original', "nonce") /\ Free(original', "nonceCount")
              /\ Get(original', "nonceCount") = Get(original, "nonceCount") + 1
            BY <2>3, <2>6, IncreaseSets DEF DigestInv
        <3>2. \A key : key # "nonceCount" => Get(original', key) = Get(original, key)
            BY <2>3, <2>6, IncreaseGets
        <3>3. Get(original, "nonceCount") \in Nat /\ Get(original', "nonceCount") \in Nat
            BY <3>1 DEF DigestInv
        <3>4. Settled(original) => Settled(original')
            BY <3>1, <3>2, <3>3 DEF Settled
        <3>5. ASSUME NEW use \in accepted'
              PROVE  /\ use[1] = Get(original', "nonce") /\ use[2] \in Nat
                     /\ use[2] < Get(original', "nonceCount")
            <4>1. CASE use \in accepted
                BY <3>1, <3>2, <3>3, <4>1 DEF DigestInv
            <4>2. CASE use \in NonceUses(Top)
                <5>1. use = <<Get(original, "nonce"), Get(original, "nonceCount")>>
                    BY <2>4, <4>2 DEF Uses
                <5> QED
                    BY <3>1, <3>2, <3>3, <5>1
            <4> QED
                BY <2>2, <3>5, <4>1, <4>2
        <3>6. accepted' # {} => Settled(original')
            BY <2>2, <2>4, <3>4 DEF DigestInv
        <3>7. Get(original', "nonce") # 0 /\ Get(original', "qop") # 0 => Settled(original')
            BY <3>2, <3>4 DEF DigestInv
        <3>8. /\ Get(original', "algorithm") # Md5Sess
              /\ Get(original', "disableRetryRequest") = 0
            BY <2>6, <3>2 DEF DigestInv
        <3>9. ~Top'.replay
            BY <2>3, <2>6
        <3> QED
            BY <2>1, <3>1, <3>3, <3>5, <3>6, <3>7, <3>8, <3>9 DEF DigestInv
    <2>7. CASE /\ outcome.result = "replay" /\ Get(original, "disableRetryRequest") = 0
               /\ response.code # 200
               /\ \E offer : ~Known(original, offer)
                             /\ outcome.auth = SetAll(original, FromChallenge(original, offer))
        <3>1. PICK offer : /\ ~Known(original, offer)
                           /\ original' = SetAll(original, FromChallenge(original, offer))
            BY <2>3, <2>7
        <3>2. ~Settled(original)
            BY <3>1, SettledKnown
        <3>3. accepted' = {} /\ NonceUses(Top)' = {}
            BY <2>2, <2>4, <2>7, <3>2 DEF DigestInv
        <3>4. /\ Free(original', "nonce") /\ Free(original', "nonceCount")
              /\ Get(original', "nonceCount") \in Nat
            BY <3>1, ChallengeSets DEF DigestInv
        <3>5. /\ Get(original', "realm") # 0
              /\ Get(original', "qop") # 0 =>
                    Get(original', "clientNonce") # 0 /\ Get(original', "nonceCount") # 0
            BY <3>1, ChallengeGets
        <3>6. /\ Get(original', "algorithm") = Get(original, "algorithm")
              /\ Get(original', "disableRetryRequest") = Get(original, "disableRetryRequest")
            BY <3>1, ChallengeGets
        <3>7. Get(original', "nonce") # 0 /\ Get(original', "qop") # 0 => Settled(original')
            BY <3>5 DEF Settled
        <3>8. /\ Get(original', "algorithm") # Md5Sess
              /\ Get(original', "disableRetryRequest") = 0
            BY <2>7, <3>6 DEF DigestInv
        <3> QED
            BY <2>1, <3>3, <3>4, <3>7, <3>8 DEF DigestInv
    <2> QED
        BY <2>5, <2>6, <2>7, DigestPostSets
<1>8. CASE Repeating
    <2>1. /\ stack # << >> /\ Live /\ Top.stage = "started" /\ Top.replay /\ Top'.stage = "files"
          /\ original' = original /\ accepted' = accepted
          /\ SameEntries(Top'.request, Top.request)
        BY <1>8 DEF Repeating, OnTop, Same, Live
    <2>2. NonceUses(Top') = {}
        BY <2>1, SameUses DEF DigestInv
    <2> QED
        BY <1>2, <2>1, <2>2
<1>9. CASE Finishing \/ Returning
    <2>1. original' = original /\ accepted' = accepted /\ ~Live'
        BY <1>9 DEF Finishing, Returning, Same, Live
    <2> QED
        BY <1>2, <2>1
<1>10. CASE Ends
    BY <1>2, <1>10 DEF Ends, Same
<1> QED
    BY <1>1, <1>3, <1>4, <1>5, <1>6, <1>7, <1>8, <1>9, <1>10 DEF Advances

(***************************************************************************)
(* The credentials of a request                                             *)
(***************************************************************************)
(* The user has given no state of a handshake and no count of a nonce, and  *)
(* has not chosen md5-sess, which counts without a qop as well.             *)
Ordinary(item) ==
    /\ item.type = "ntlm" => Get(item.auth, "state") = 0 /\ Get(item.auth, "ntlmHeader") = 0
    /\ item.type = "digest" => /\ Get(item.auth, "nonceCount") = 0
                               /\ Get(item.auth, "algorithm") # Md5Sess

Counted == Ordinary(template) /\ template.type = "digest" /\ "nonce" \notin DOMAIN template.auth

CredInv ==
    /\ KeptInv /\ BearInv
    /\ Replays(template.type) => ChainInv /\ LiveInv /\ SignedInv
    /\ MaxReplay >= 2 /\ Ordinary(template) /\ template.type = "ntlm" => NtlmInv
    /\ Counted => DigestInv

LEMMA InitCred == Init => CredInv
<1> SUFFICES ASSUME Init PROVE CredInv
    OBVIOUS
<1>1. /\ template \in Templates /\ original = template.auth /\ stack = << >>
      /\ rounds = 0 /\ accepted = {}
    BY DEF Init
<1>2. KeptInv
    BY InitKept
<1>3. BearInv
    <2>1. \A k \in 1 .. Len(stack) : FALSE
        BY <1>1
    <2> QED
        BY <2>1 DEF BearInv
<1>4. original \in [DOMAIN original -> [value : Nat, system : {FALSE}]]
    BY <1>1, TemplatesAssumption
<1>5. LiveInv
    BY <1>1, <1>4 DEF LiveInv, IsFunction
<1>6. SignedInv
    BY <1>1 DEF SignedInv
<1>7. Replays(template.type) => ChainInv
    BY InitChain DEF Replays, IsChain
<1>8. \A key : Get(original, key) = 0 => Free(original, key)
    BY DEF Get, Free
<1>9. ASSUME template.type = "ntlm", Ordinary(template) PROVE NtlmInv
    <2>1. Get(original, "state") = 0 /\ Get(original, "ntlmHeader") = 0
        BY <1>1, <1>9 DEF Ordinary
    <2> QED
        BY <1>1, <1>8, <2>1 DEF NtlmInv
<1>10. ASSUME Counted PROVE DigestInv
    <2>1. /\ Get(original, "nonceCount") = 0 /\ Get(original, "algorithm") # Md5Sess
          /\ Get(original, "nonce") = 0
        BY <1>1, <1>10 DEF Counted, Ordinary, Get
    <2> QED
        BY <1>1, <1>8, <2>1 DEF DigestInv
<1> QED
    BY <1>2, <1>3, <1>5, <1>6, <1>7, <1>9, <1>10 DEF CredInv

LEMMA NextCred == CredInv /\ [Next]_vars => CredInv'
<1> SUFFICES ASSUME CredInv, [Next]_vars PROVE CredInv'
    OBVIOUS
<1>1. template' = template
    BY TemplateKept
<1>2. KeptInv /\ BearInv /\ KeptInv' /\ BearInv'
    BY NextKept, BearStep DEF CredInv
<1>3. ASSUME Replays(template.type)
      PROVE  /\ ChainInv /\ LiveInv /\ SignedInv /\ Advances
             /\ ChainInv' /\ LiveInv' /\ SignedInv'
    <2>1. ChainInv /\ LiveInv /\ SignedInv /\ ChainInv'
        BY <1>3, NextChain DEF CredInv
    <2>2. LiveInv' /\ Advances
        BY <1>2, <1>3, <2>1, LiveStep
    <2>3. SignedInv'
        BY <1>2, <1>3, <2>1, <2>2, SignedStep
    <2> QED
        BY <2>1, <2>2, <2>3
<1>4. ASSUME MaxReplay >= 2, Ordinary(template), template.type = "ntlm" PROVE NtlmInv'
    <2>1. Replays(template.type) /\ NtlmInv
        BY <1>4 DEF Replays, CredInv
    <2> QED
        BY <1>2, <1>3, <1>4, <2>1, NtlmStep
<1>5. ASSUME Counted PROVE DigestInv'
    <2>1. Replays(template.type) /\ DigestInv /\ template.type = "digest"
        BY <1>5 DEF Replays, CredInv, Counted
    <2> QED
        BY <1>2, <1>3, <2>1, DigestStep
<1>6. Counted' <=> Counted
    BY <1>1 DEF Counted, Ordinary
<1>7. Ordinary(template)' <=> Ordinary(template)
    BY <1>1 DEF Ordinary
<1> QED
    BY <1>1, <1>2, <1>3, <1>4, <1>5, <1>6, <1>7 DEF CredInv

LEMMA CredIsOne == CredInv => OneCredential
<1> SUFFICES ASSUME CredInv, stack # << >>, Top.stage \in {"send", "sent"}
             PROVE  /\ Alone(Top.request.header, Top.type # "oauth1")
                    /\ Alone(Top.request.query, FALSE)
                    /\ Alone(Top.request.form, FALSE)
                    /\ (Top.type = "ntlm" \/ (Top.type = "digest" /\ Get(Top.auth, "nonce") # 0)) =>
                          \A added \in Added(Top.request.header) : added.value[1] = Len(stack)
    BY DEF OneCredential
<1>1. Top.type = TypeOf(template, Top.home) /\ Neat(Top.type, Top.request)
    BY TopBears DEF CredInv, Bears
<1>2. ASSUME NEW entries, NEW caseless, Single(entries, caseless) PROVE Alone(entries, caseless)
    BY <1>2 DEF Single, Alone
<1>3. /\ Single(Top.request.header, Top.type # "oauth1")
      /\ Single(Top.request.query, FALSE) /\ Single(Top.request.form, FALSE)
    BY <1>1 DEF Neat
<1>4. ASSUME Top.type = "ntlm" \/ (Top.type = "digest" /\ Get(Top.auth, "nonce") # 0),
             NEW added \in Added(Top.request.header)
      PROVE  added.value[1] = Len(stack)
    <2>1. Top.type = template.type /\ Replays(template.type)
        BY <1>1, <1>4 DEF TypeOf, Replays
    <2>2. Live /\ Top.auth = original /\ SignedInv
        BY <2>1 DEF CredInv, LiveInv, Live
    <2> QED
        BY <1>4, <2>1, <2>2 DEF SignedInv
<1>5. Alone(Top.request.header, Top.type # "oauth1")
    BY <1>2, <1>3
<1>6. Alone(Top.request.query, FALSE) /\ Alone(Top.request.form, FALSE)
    BY <1>2, <1>3
<1> QED
    BY <1>4, <1>5, <1>6

LEMMA CredIsOver ==
    CredInv => (MaxReplay >= 2 /\ Ordinary(template) => HandshakeEnds)
BY DEF CredInv, HandshakeEnds, NtlmInv, Over

LEMMA CredIsFresh == CredInv => (Ordinary(template) => NonceCountFresh)
<1> SUFFICES ASSUME CredInv, Ordinary(template), stack # << >>, Top.stage = "sent",
                    "nonce" \notin DOMAIN template.auth
             PROVE  NonceUses(Top) \cap accepted = {}
    BY DEF NonceCountFresh
<1>1. Top.type = TypeOf(template, Top.home) /\ Neat(Top.type, Top.request)
    BY TopBears DEF CredInv, Bears
<1>2. CASE Top.type = "digest"
    <2>1. Counted
        BY <1>1, <1>2 DEF Counted, TypeOf
    <2>2. DigestInv /\ Live
        BY <2>1 DEF CredInv, Live
    <2>3. NonceUses(Top) # {} => NonceUses(Top) = Uses
        BY <2>2 DEF DigestInv
    <2>4. ASSUME NEW use \in accepted
          PROVE  use # <<Get(original, "nonce"), Get(original, "nonceCount")>>
        BY <2>2 DEF DigestInv
    <2> QED
        BY <2>3, <2>4 DEF Uses
<1>3. CASE Top.type # "digest"
    <2>1. \A entry \in Entries(Top.request) : Len(entry.value) # 3
        BY <1>1, <1>3 DEF Neat, Entries
    <2>2. NonceUses(Top) = {}
        BY <2>1 DEF NonceUses
    <2> QED
        BY <2>2
<1> QED
    BY <1>2, <1>3

(* A request carries one credential, the last one made, of whatever handler *)
(* and however often it was replayed: what the handlers remove from the     *)
(* request before they add (removeHeader and its like in lib/authorizer)    *)
(* is enough.                                                               *)
THEOREM CredentialIsOne == Spec => []OneCredential
<1>1. CredInv => OneCredential
    BY CredIsOne
<1> QED
    BY <1>1, InitCred, NextCred, PTL DEF Spec

(* The credentials of a request are the last ones made for it and the only  *)
(* ones, no nonce and count that the server accepted is used again, and the *)
(* handshake of ntlm is over when the item is: of an item whose auth has no *)
(* such state of the user's, when the limit on replays allows the two that  *)
(* a handshake takes (lib/authorizer/digest.js, ntlm.js).                   *)
THEOREM CredentialsAreOwn ==
    Spec => [](MaxReplay >= 2 /\ Ordinary(template) => Credentials)
<1>1. CredInv => (MaxReplay >= 2 /\ Ordinary(template) => Credentials)
    BY CredIsOne, CredIsOver, CredIsFresh DEF Credentials
<1> QED
    BY <1>1, InitCred, NextCred, PTL DEF Spec
=============================================================================
