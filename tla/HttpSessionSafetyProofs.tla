---------------------- MODULE HttpSessionSafetyProofs ----------------------
(***************************************************************************)
(* The rest of the inductive invariant of HttpSession, about what is       *)
(* written, the exceptions and the answers, and the properties that follow *)
(* from it, for any requests, handlers and buffer sizes.                   *)
(***************************************************************************)
EXTENDS HttpSessionProofs

\* What no step changes, or takes back.
LEMMA Lasting ==
    ASSUME TypeInv, [Next]_vars
    PROVE  /\ script' = script
           /\ hung => hung'
           /\ given # "ok" => given' # "ok"
           /\ Frozen => Frozen'
  <1>1. CASE HeadPending \/ ReadHead
    <2>1. UNCHANGED <<script, room, hung, given>>
      BY <1>1, HeadEffect, Zenon
    <2> QED BY <2>1 DEF Frozen
  <1>2. CASE BodyPending \/ ReadBody
    <2>1. UNCHANGED <<script, room, hung, given>>
      BY <1>2, BodyEffect, Zenon
    <2> QED BY <2>1 DEF Frozen
  <1>3. CASE ReadFails \/ WriteSome \/ WriteFails
    BY <1>3 DEF ReadFails, WriteSome, WriteFails, Frozen, TypeInv, socketVars
  <1>4. CASE Route \/ After \/ Catch \/ Shutdown
    BY <1>4 DEF Route, After, Catch, Shutdown, Frozen, socketVars
  <1>5. CASE Handler
    <2>1. UNCHANGED <<script, room, hung, given>>
      BY <1>5, Zenon DEF Handler, HandlerReads, HandlerWrites, HandlerYields, HandlerThrows, HandlerCatches,
                  HandlerUnwinds, HandlerReturns, socketVars
    <2> QED BY <2>1 DEF Frozen
  <1>6. CASE Loop
    BY <1>6 DEF Loop, Start, Resume, WakeUp, ResumeWithError, Errors, Frozen, socketVars
  <1>7. CASE Peer
    BY <1>7 DEF Peer, PeerSends, PeerReads, PeerHangsUp, Frozen
  <1>8. CASE UNCHANGED vars
    BY <1>8 DEF vars, Frozen, socketVars
  <1> QED BY <1>1, <1>2, <1>3, <1>4, <1>5, <1>6, <1>7, <1>8, Zenon DEF Next, Coroutine, Ended

-----------------------------------------------------------------------------
(* What is written, and when an exception is propagating *)

LEMMA ControlStep ==
    ASSUME Inv, [Next]_vars, TypeInv'
    PROVE  ControlInv'
  <1>0. TypeInv /\ ControlInv /\ RequestInv
    BY DEF Inv
  <1>1. current \in Nat /\ (served' = served => current' = current) /\ script' = script
    BY <1>0, PlaceOnWire, Lasting DEF current
  <1> USE <1>0, <1>1 DEF Place, ReadsHead, HasRequest, Suspended, Writing
  <1>2. CASE HeadPending
    BY <1>2, HeadEffect, Zenon DEF ControlInv, handlerVars
  <1>3. CASE ReadHead
    BY <1>3, HeadEffect, Zenon DEF ControlInv, handlerVars
  <1>4. CASE ReadFails
    BY <1>4, Zenon DEF ReadFails, ControlInv, TypeInv, ThrowFrom, GiveUp, handlerVars, socketVars, parserVars
  <1>5. CASE BodyPending
    BY <1>5, BodyEffect, Zenon DEF ControlInv
  <1>6. CASE ReadBody
    BY <1>6, BodyEffect, Zenon DEF ControlInv
  <1>7. CASE WriteSome
    BY <1>7, Zenon DEF WriteSome, ControlInv, TypeInv, Goto, handlerVars, socketVars, parserVars
  <1>8. CASE WriteFails
    BY <1>8, ZenonT(40) DEF WriteFails, ControlInv, TypeInv, ThrowFrom, handlerVars, socketVars, parserVars
  <1>9. CASE Route
    <2>1. Writing' => piece' \in Pieces /\ piece'.n = current /\ piece'.kind = "error" /\ ~piece'.keep /\ back' = "break"
      <3> DEFINE p == [n |-> current, kind |-> "error", keep |-> FALSE, cause |-> "unclaimed"]
      <3>1. p \in Pieces /\ p.n = current /\ p.kind = "error" /\ ~p.keep
        BY PieceIs, Zenon DEF Causes
      <3>2. Writing' => piece' = p /\ back' = "break"
        BY <1>9 DEF Route, Goto, Write
      <3> HIDE DEF p
      <3> QED BY <3>1, <3>2, Zenon
    <2> QED BY <1>9, <2>1, Zenon DEF Route, ControlInv, TypeInv, Goto, Write, socketVars, parserVars
  <1>10. CASE After
    BY <1>10 DEF After, ControlInv, TypeInv, Goto, handlerVars, socketVars, parserVars
  <1>11. CASE Catch
    <2>1. Writing' => piece' \in Pieces /\ piece'.n = current /\ piece'.kind = "error" /\ ~piece'.keep /\ back' = "shutdown"
      <3>1. error \in Causes
        BY DEF TypeInv, Causes
      <3> DEFINE p == [n |-> current, kind |-> "error", keep |-> FALSE, cause |-> error]
      <3>2. p \in Pieces /\ p.n = current /\ p.kind = "error" /\ ~p.keep
        BY <3>1, PieceIs, Zenon
      <3>3. Writing' => piece' = p /\ back' = "shutdown"
        BY SMTT(40), Z3T(40), <1>11 DEF Catch, Goto, Write
      <3> HIDE DEF p
      <3> QED BY <3>2, <3>3, Zenon
    <2> QED BY <1>11, <2>1, ZenonT(40) DEF Catch, ControlInv, TypeInv, Goto, Write, socketVars, parserVars, handlerVars
  <1>12. CASE Shutdown
    BY <1>12 DEF Shutdown, ControlInv, TypeInv, Goto, handlerVars, socketVars, parserVars
  <1>13. CASE HandlerReads
    <2>1. Writing' => piece' \in Pieces /\ piece'.n = current /\ piece'.kind = "continue"
      <3> DEFINE p == Answer("continue", FALSE)
      <3>1. p \in Pieces /\ p.n = current /\ p.kind = "continue"
        BY PieceIs, Zenon DEF Answer, Causes
      <3> HIDE DEF p
      <3>2. Writing' => piece' = p
        BY <1>13, Thrown, Zenon DEF HandlerReads, Goto, Write, p
      <3> QED BY <3>1, <3>2
    <2>2. Writing' /\ back' = "handler" => hasRead' = "done" /\ script[current].expect /\ script[current].body = <<>>
      BY <1>13, Thrown, Zenon DEF HandlerReads, Goto, Write, RequestInv
    <2>3. Writing' => back' \in {"handler", "body"}
      BY <1>13, Thrown, Zenon DEF HandlerReads, Goto, Write
    <2> QED BY <1>13, <2>1, <2>2, <2>3, Zenon DEF HandlerReads, ThrowFrom, ControlInv, TypeInv, Goto, Write, socketVars, parserVars
  <1>14. CASE HandlerWrites
    <2>1. m_keep_alive' \in BOOLEAN
      BY Zenon DEF TypeInv
    <2>2. /\ piece' \in Pieces /\ piece'.n = current /\ pc' = "write" /\ back' = "handler"
          /\ \/ wrote = "no" /\ piece'.kind = "head" /\ piece'.keep = m_keep_alive'
             \/ wrote = "head" /\ piece'.kind = "body"
      <3> DEFINE h == Answer("head", m_keep_alive')
                 b == Answer("body", FALSE)
      <3>1. h \in Pieces /\ h.n = current /\ h.kind = "head" /\ h.keep = m_keep_alive'
        BY <2>1, PieceIs, Zenon DEF Answer, Causes
      <3>2. b \in Pieces /\ b.n = current /\ b.kind = "body"
        BY PieceIs, Zenon DEF Answer, Causes
      <3> QED BY <1>14, <3>1, <3>2, Zenon DEF HandlerWrites, Write
    <2> QED BY <1>14, <2>2 DEF HandlerWrites, ControlInv, TypeInv, socketVars, parserVars, handlerVars
  <1>15. CASE HandlerYields
    BY <1>15 DEF HandlerYields, ControlInv, TypeInv, YieldAt, handlerVars, socketVars, parserVars
  <1>16. CASE HandlerThrows
    BY <1>16 DEF HandlerThrows, ControlInv, TypeInv, ThrowFrom, handlerVars, socketVars, parserVars
  <1>17. CASE HandlerCatches
    BY <1>17, Zenon DEF HandlerCatches, ControlInv, TypeInv, Goto, handlerVars, socketVars, parserVars
  <1>18. CASE HandlerUnwinds
    BY <1>18, Zenon DEF HandlerUnwinds, ControlInv, TypeInv, Goto, handlerVars, socketVars, parserVars
  <1>19. CASE HandlerReturns
    BY <1>19, Zenon DEF HandlerReturns, ControlInv, TypeInv, Goto, handlerVars, socketVars, parserVars
  <1>20. CASE Start
    BY <1>20, Zenon DEF Start, ControlInv, TypeInv, Goto, handlerVars, socketVars, parserVars
  <1>21. CASE Resume
    BY <1>21, Zenon DEF Resume, ControlInv, TypeInv, Goto, handlerVars, socketVars, parserVars
  <1>22. CASE WakeUp
    BY <1>22, Zenon DEF WakeUp, ControlInv, TypeInv, Goto, handlerVars, socketVars, parserVars
  <1>23. CASE ResumeWithError
    BY SMTT(40), Z3T(40), <1>23 DEF ResumeWithError, ControlInv, TypeInv, ThrowFrom, Goto, GiveUp, handlerVars, socketVars, parserVars
  <1>24. CASE PeerSends
    BY SMTT(40), Z3T(40), <1>24 DEF PeerSends, ControlInv, TypeInv, handlerVars, socketVars, parserVars
  <1>25. CASE PeerReads
    BY SMTT(40), Z3T(40), <1>25 DEF PeerReads, ControlInv, TypeInv, handlerVars, socketVars, parserVars
  <1>26. CASE PeerHangsUp
    BY SMTT(40), Z3T(40), <1>26 DEF PeerHangsUp, ControlInv, TypeInv, handlerVars, socketVars, parserVars
  <1>27. CASE UNCHANGED vars
    BY <1>27, Zenon DEF ControlInv, vars, socketVars, parserVars, handlerVars
  <1> QED BY SMTT(40), Z3T(40), <1>2, <1>3, <1>4, <1>5, <1>6, <1>7, <1>8, <1>9, <1>10, <1>11, <1>12, <1>13, <1>14, <1>15, <1>16, <1>17, <1>18, <1>19, <1>20, <1>21, <1>22, <1>23, <1>24, <1>25, <1>26, <1>27
       DEF Next, Coroutine, Handler, Loop, Peer, Ended


-----------------------------------------------------------------------------
(* The errors that are owed an answer *)

\* A response stays where it is in out.
LEMMA StillAnswered ==
    ASSUME out' = out, served' = served
    PROVE  Answered' <=> Answered
  BY DEF Answered, Begins, current

LEMMA NowAnswered ==
    ASSUME out \in Seq(Pieces), piece \in Pieces, out' = Append(out, piece), served' = served
    PROVE  /\ Answered => Answered'
           /\ Begins(piece) /\ piece.n = current => Answered'
  <1>1. /\ DOMAIN out' = 1 .. Len(out) + 1 /\ DOMAIN out = 1 .. Len(out) /\ Len(out) \in Nat
        /\ out'[Len(out) + 1] = piece /\ \A i \in DOMAIN out : out'[i] = out[i]
    OBVIOUS
  <1>2. current' = current
    BY Zenon DEF current
  <1>3. Answered => Answered'
    BY <1>1, <1>2 DEF Answered, Begins
  <1>4. ASSUME Begins(piece), piece.n = current PROVE Answered'
    <2>1. Len(out) + 1 \in DOMAIN out' /\ Begins(out'[Len(out) + 1]) /\ out'[Len(out) + 1].n = current'
      BY <1>1, <1>2, <1>4
    <2> QED BY <2>1, Zenon DEF Answered, Begins
  <1> QED BY <1>3, <1>4, Zenon

\* Bytes are pending, or make up a head, only after a read.
LEMMA PendingWasRead ==
    ASSUME TypeInv, InStep, m_pending # <<>>
    PROVE  taken > 0
  <1>1. Consumed \in Nat /\ taken \in Nat
    BY ConsumedIsNat, PlaceOnWire DEF TypeInv
  <1>2. ASSUME taken = 0 PROVE FALSE
    <2>1. m_pending = SubSeq(Wire, Consumed + 1, taken) /\ Wire \in Seq(Bytes)
      BY PlaceOnWire, Zenon DEF InStep
    <2>2. SubSeq(Wire, Consumed + 1, taken) = <<>>
      BY <1>1, <1>2, <2>1
    <2> QED BY <2>1, <2>2, Zenon
  <1> QED BY SMTT(40), Z3T(40), <1>1, <1>2

LEMMA RouteWasRead == TypeInv /\ RequestInv /\ pc = "route" => taken > 0
  <1> SUFFICES ASSUME TypeInv, RequestInv, pc = "route" PROVE taken > 0
    OBVIOUS
  <1>1. InStep /\ current <= Len(script) /\ req.head = HeadOf(script, current)
    BY Zenon DEF RequestInv, HasRequest, Place, Suspended
  <1>2. Len(req.head) = 3
    BY <1>1, CurrentOnWire, Zenon
  <1>3. Len(Upto(served)) \in Nat /\ taken \in Nat /\ Len(req.body) \in Nat
    BY PlaceOnWire DEF TypeInv, Parsed
  <1>4. Len(Upto(served)) + Len(req.head) + Len(req.body) <= taken
    BY <1>1, Zenon DEF InStep, Consumed
  <1> DEFINE u == Len(Upto(served))
             b == Len(req.body)
  <1> HIDE DEF u, b
  <1>5. u \in Nat /\ b \in Nat /\ u + 3 + b <= taken
    BY <1>2, <1>3, <1>4, Zenon DEF u, b
  <1> QED BY <1>3, <1>5

LEMMA RouteHasRead ==
    ASSUME TypeInv', RequestInv' PROVE pc' = "route" => taken' > 0
  <1>1. (TypeInv /\ RequestInv /\ pc = "route" => taken > 0)'
    BY RouteWasRead, PTL
  <1> QED BY <1>1

LEMMA OwedStep ==
    ASSUME Inv, [Next]_vars, TypeInv', RequestInv'
    PROVE  OwedInv'
  <1>0. TypeInv /\ HeadInv /\ RequestInv /\ ControlInv /\ OwedInv
    BY DEF Inv
  <1>1. /\ script' = script
        /\ hung => hung'
        /\ given # "ok" => given' # "ok"
    BY <1>0, Lasting, Zenon
  <1>2. served \in Nat /\ (served = 0 => current = 1)
    BY SMTT(40), Z3T(40), <1>0, PlaceOnWire DEF current
  <1> USE <1>0, <1>1 DEF Place, ReadsHead, HasRequest, Suspended, Writing
  <1>3. CASE HeadPending
    <2>1. /\ Answered' <=> Answered
          /\ m_can_write_errror' = m_can_write_errror \/ m_can_write_errror' = TRUE
          /\ taken' = taken \/ m_can_write_errror' = TRUE
          /\ pc' = "catch" => m_can_write_errror' = TRUE \/ m_pending # <<>>
      BY <1>3, HeadEffect, StillAnswered, Zenon
    <2>2. pc' = "route" => taken' > 0
      BY RouteHasRead
    <2>3. m_pending # <<>> => taken > 0
      BY SMTT(40), Z3T(40), <1>3, HeadEffect, PendingWasRead DEF HeadInv
    <2> QED BY SMTT(40), Z3T(40), <1>3, <2>1, <2>2, <2>3, HeadEffect DEF OwedInv, ControlInv, TypeInv, handlerVars
  <1>4. CASE ReadHead
    <2>1. /\ Answered' <=> Answered
          /\ m_can_write_errror' = m_can_write_errror \/ m_can_write_errror' = TRUE
          /\ taken' = taken \/ m_can_write_errror' = TRUE
          /\ pc' = "catch" => m_can_write_errror' = TRUE \/ m_pending # <<>>
      BY <1>4, HeadEffect, StillAnswered, Zenon
    <2>2. pc' = "route" => taken' > 0
      BY RouteHasRead
    <2>3. m_pending # <<>> => taken > 0
      BY <1>4, HeadEffect, PendingWasRead, Zenon DEF HeadInv
    <2> QED BY SMTT(40), Z3T(40), <1>4, <2>1, <2>2, <2>3, HeadEffect DEF OwedInv, ControlInv, TypeInv, handlerVars
  <1>5. CASE ReadFails
    <2>1. Answered' <=> Answered
      BY <1>5, StillAnswered, Zenon DEF ReadFails
    <2> QED BY <1>5, <2>1, Zenon DEF ReadFails, ThrowFrom, GiveUp, OwedInv, ControlInv, TypeInv, socketVars, handlerVars
  <1>6. CASE BodyPending
    <2>1. Answered' <=> Answered
      BY <1>6, BodyEffect, StillAnswered
    <2> QED BY <1>6, <2>1, BodyEffect, Zenon DEF OwedInv, ControlInv, RequestInv
  <1>7. CASE ReadBody
    <2>1. Answered' <=> Answered
      BY <1>7, BodyEffect, StillAnswered
    <2> QED BY <1>7, <2>1, BodyEffect, Zenon DEF OwedInv, ControlInv, RequestInv
  <1>8. CASE WriteSome
    <2>1. CASE room
      <3>1. /\ Answered => Answered'
            /\ Begins(piece) /\ piece.n = current => Answered'
        BY <1>8, <2>1, NowAnswered, Zenon DEF WriteSome, ControlInv, TypeInv
      <3>2. Begins(piece) => Answered'
        BY <1>8, <3>1, Zenon DEF WriteSome, ControlInv
      <3>3. piece.kind \in {"head", "error"} => Answered'
        BY <3>2, Zenon DEF Begins
      <3> QED BY <1>8, <1>2, <2>1, <3>1, <3>3, Zenon DEF WriteSome, Goto, OwedInv, ControlInv, TypeInv
    <2>2. CASE ~room
      <3>1. Answered' <=> Answered
        BY <1>8, <2>2, StillAnswered, Zenon DEF WriteSome
      <3> QED BY <1>8, <2>2, <3>1, Zenon DEF WriteSome, Goto, OwedInv
    <2> QED BY <2>1, <2>2, Zenon
  <1>9. CASE WriteFails
    <2>1. Answered' <=> Answered
      BY <1>9, StillAnswered, Zenon DEF WriteFails
    <2> QED BY <1>9, <2>1, Zenon DEF WriteFails, ThrowFrom, OwedInv, ControlInv, TypeInv, socketVars, handlerVars
  <1>10. CASE Route
    <2>1. Answered' <=> Answered
      BY <1>10, StillAnswered, Zenon DEF Route
    <2> QED BY <1>10, <2>1, Zenon DEF Route, Goto, Write, OwedInv, ControlInv, TypeInv, socketVars, handlerVars
  <1>11. CASE After
    <2>1. served' # 0 /\ hasRead' # "failed" /\ ~HasRequest'
      BY <1>11, <1>2 DEF After, Goto, ControlInv, handlerVars
    <2> QED BY <2>1, Zenon DEF OwedInv
  <1>12. CASE Catch
    <2>1. Answered' <=> Answered
      BY <1>12, StillAnswered, Zenon DEF Catch
    <2> QED BY <1>12, <2>1, Zenon DEF Catch, Goto, Write, OwedInv, ControlInv, TypeInv, socketVars, handlerVars
  <1>13. CASE Shutdown
    <2>1. Answered' <=> Answered
      BY <1>13, StillAnswered, Zenon DEF Shutdown
    <2> QED BY <1>13, <2>1, Zenon DEF Shutdown, Goto, OwedInv, ControlInv, TypeInv, socketVars, handlerVars
  <1>14. CASE HandlerReads
    <2>1. Answered' <=> Answered
      BY <1>14, StillAnswered DEF HandlerReads
    <2> QED BY <1>14, <2>1, Zenon DEF HandlerReads, ThrowFrom, Goto, Write, OwedInv, ControlInv, TypeInv, socketVars, handlerVars
  <1>15. CASE HandlerWrites
    <2>1. Answered' <=> Answered
      BY <1>15, StillAnswered DEF HandlerWrites
    <2> QED BY <1>15, <2>1, Zenon DEF HandlerWrites, Write, OwedInv, ControlInv, TypeInv, socketVars, handlerVars
  <1>16. CASE HandlerYields
    <2>1. Answered' <=> Answered
      BY <1>16, StillAnswered, Zenon DEF HandlerYields
    <2> QED BY <1>16, <2>1, Zenon DEF HandlerYields, YieldAt, OwedInv, ControlInv, TypeInv, socketVars, handlerVars
  <1>17. CASE HandlerThrows
    <2>1. Answered' <=> Answered
      BY <1>17, StillAnswered, Zenon DEF HandlerThrows
    <2> QED BY <1>17, <2>1, Zenon DEF HandlerThrows, ThrowFrom, OwedInv, ControlInv, TypeInv, socketVars, handlerVars
  <1>18. CASE HandlerCatches
    <2>1. Answered' <=> Answered
      BY <1>18, StillAnswered, Zenon DEF HandlerCatches
    <2> QED BY <1>18, <2>1, Zenon DEF HandlerCatches, Goto, OwedInv, ControlInv, TypeInv, socketVars, handlerVars
  <1>19. CASE HandlerUnwinds
    <2>1. Answered' <=> Answered
      BY <1>19, StillAnswered, Zenon DEF HandlerUnwinds
    <2> QED BY <1>19, <2>1, Zenon DEF HandlerUnwinds, Goto, OwedInv, ControlInv, TypeInv, socketVars, handlerVars
  <1>20. CASE HandlerReturns
    <2>1. Answered' <=> Answered
      BY <1>20, StillAnswered, Zenon DEF HandlerReturns
    <2> QED BY <1>20, <2>1, Zenon DEF HandlerReturns, Goto, OwedInv, ControlInv, TypeInv, socketVars, handlerVars
  <1>21. CASE Start
    <2>1. Answered' <=> Answered
      BY <1>21, StillAnswered, Zenon DEF Start
    <2> QED BY <1>21, <2>1, Zenon DEF Start, Goto, OwedInv, ControlInv, TypeInv, socketVars, handlerVars
  <1>22. CASE Resume
    <2>1. Answered' <=> Answered
      BY <1>22, StillAnswered, Zenon DEF Resume
    <2> QED BY <1>22, <2>1, ZenonT(40) DEF Resume, Goto, OwedInv, ControlInv, TypeInv, socketVars, handlerVars
  <1>23. CASE WakeUp
    <2>1. Answered' <=> Answered
      BY <1>23, StillAnswered, Zenon DEF WakeUp
    <2> QED BY <1>23, <2>1, Zenon DEF WakeUp, Goto, OwedInv, ControlInv, TypeInv, socketVars, handlerVars
  <1>24. CASE ResumeWithError
    <2>1. Answered' <=> Answered
      BY <1>24, StillAnswered, Zenon DEF ResumeWithError
    <2> QED BY <1>24, <2>1, Zenon DEF ResumeWithError, ThrowFrom, Goto, GiveUp, Errors, OwedInv, ControlInv, TypeInv, socketVars, handlerVars
  <1>25. CASE PeerSends
    <2>1. Answered' <=> Answered
      BY <1>25, StillAnswered, Zenon DEF PeerSends
    <2> QED BY SMTT(20), <1>25, <2>1 DEF PeerSends, OwedInv, ControlInv, TypeInv, socketVars, handlerVars
  <1>26. CASE PeerReads
    <2>1. Answered' <=> Answered
      BY <1>26, StillAnswered, Zenon DEF PeerReads
    <2> QED BY <1>26, <2>1 DEF PeerReads, OwedInv, ControlInv, TypeInv, socketVars, handlerVars
  <1>27. CASE PeerHangsUp
    <2>1. Answered' <=> Answered
      BY <1>27, StillAnswered, Zenon DEF PeerHangsUp
    <2> QED BY <1>27, <2>1, Zenon DEF PeerHangsUp, OwedInv, ControlInv, TypeInv, socketVars, handlerVars
  <1>28. CASE UNCHANGED vars
    <2>1. Answered' <=> Answered
      BY <1>28, StillAnswered, Zenon DEF vars
    <2> QED BY <1>28, <2>1, Zenon DEF OwedInv, vars, socketVars, parserVars, handlerVars
  <1> QED BY Zenon, <1>3, <1>4, <1>5, <1>6, <1>7, <1>8, <1>9, <1>10, <1>11, <1>12, <1>13, <1>14, <1>15, <1>16, <1>17, <1>18, <1>19, <1>20, <1>21, <1>22, <1>23, <1>24, <1>25, <1>26, <1>27, <1>28
       DEF Next, Coroutine, Handler, Loop, Peer, Ended


-----------------------------------------------------------------------------
(* The responses *)

LEMMA SameOrder == ASSUME out' = out PROVE OneAnswerEach => OneAnswerEach'
  BY DEF OneAnswerEach, Begins

\* Nothing is written, and the current request stays the same.
LEMMA SameAnswers ==
    ASSUME out' = out, served' = served, Frozen => Frozen'
    PROVE  /\ OneAnswerEach => OneAnswerEach'
           /\ MayBegin => MayBegin'
           /\ m_keep_alive' = m_keep_alive /\ wrote' = wrote /\ HasBegun => HasBegun'
           /\ LastCloses => LastCloses'
  <1>1. current' = current
    BY DEF current
  <1>2. OneAnswerEach => OneAnswerEach'
    BY SameOrder, Zenon
  <1>3. \A i : (IsLast(i)' <=> IsLast(i)) /\ (IsComplete(i)' <=> IsComplete(i))
    BY Zenon DEF IsLast, IsComplete, Begins
  <1>4. MayBegin => MayBegin'
    BY <1>3, Zenon DEF MayBegin, Begins
  <1>5. m_keep_alive' = m_keep_alive /\ wrote' = wrote /\ HasBegun => HasBegun'
    BY <1>1, <1>3, Zenon DEF HasBegun
  <1>6. LastCloses => LastCloses'
    BY <1>3, Zenon DEF LastCloses
  <1> QED BY <1>2, <1>4, <1>5, <1>6, Zenon

\* What comes before the last beginning of a response is complete, and of an
\* earlier request.
LEMMA OneAfterTheOther ==
    ASSUME out \in Seq(Pieces), OneAnswerEach, NEW i \in DOMAIN out, Begins(out[i]), ~IsLast(i)
    PROVE  IsComplete(i)
  <1>1. DOMAIN out = 1 .. Len(out) /\ Len(out) \in Nat
    OBVIOUS
  <1>2. PICK j \in i + 1 .. Len(out) : Begins(out[j])
    BY DEF IsLast
  <1>3. j \in DOMAIN out /\ i < j
    BY <1>1
  <1>4. out[i].kind = "head" => \E k \in i + 1 .. j - 1 : out[k].kind = "body" /\ out[k].n = out[i].n
    BY <1>2, <1>3, Zenon DEF OneAnswerEach
  <1>5. \A k \in i + 1 .. j - 1 : k \in i + 1 .. Len(out)
    BY <1>1, <1>3
  <1> QED BY <1>4, <1>5, Zenon DEF IsComplete

\* One more piece is accepted by the socket.
LEMMA OnePieceMore ==
    ASSUME out \in Seq(Pieces), piece \in Pieces, out' = Append(out, piece)
    PROVE  /\ Len(out) \in Nat /\ DOMAIN out = 1 .. Len(out) /\ DOMAIN out' = 1 .. Len(out) + 1
           /\ Len(out') = Len(out) + 1 /\ out'[Len(out) + 1] = piece
           /\ \A i \in DOMAIN out : out'[i] = out[i] /\ out[i] \in Pieces
           /\ \A i \in DOMAIN out : IsComplete(i) => IsComplete(i)'
           /\ ~Begins(piece) => \A i \in DOMAIN out : IsLast(i) <=> IsLast(i)'
           /\ Begins(piece) => \A k : k = Len(out) + 1 => IsLast(k)'
  <1>1. /\ Len(out) \in Nat /\ DOMAIN out = 1 .. Len(out) /\ DOMAIN out' = 1 .. Len(out) + 1
        /\ Len(out') = Len(out) + 1 /\ out'[Len(out) + 1] = piece
        /\ \A i \in DOMAIN out : out'[i] = out[i] /\ out[i] \in Pieces
    OBVIOUS
  <1>2. ASSUME NEW i \in DOMAIN out, IsComplete(i) PROVE IsComplete(i)'
    <2>1. \A k \in i + 1 .. Len(out) : k \in i + 1 .. Len(out') /\ k \in DOMAIN out
      BY <1>1
    <2> QED BY <1>1, <1>2, <2>1, Zenon DEF IsComplete
  <1>3. ASSUME NEW i \in DOMAIN out, ~Begins(piece) PROVE IsLast(i) <=> IsLast(i)'
    <2>1. \A k \in i + 1 .. Len(out') : (k \in i + 1 .. Len(out) /\ k \in DOMAIN out) \/ k = Len(out) + 1
      BY <1>1
    <2>2. \A k \in i + 1 .. Len(out) : k \in i + 1 .. Len(out') /\ k \in DOMAIN out
      BY <1>1
    <2> QED BY <1>1, <1>3, <2>1, <2>2, Zenon DEF IsLast, Begins
  <1>4. ASSUME Begins(piece), NEW k, k = Len(out) + 1 PROVE IsLast(k)'
    <2>1. k + 1 .. Len(out') = {} /\ out'[k] = piece
      BY <1>1, <1>4
    <2> QED BY <1>4, <2>1, Zenon DEF IsLast, Begins
  <1> QED BY <1>1, <1>2, <1>3, <1>4, Zenon

\* A 100 response or the body of a response.
LEMMA GoesOn ==
    ASSUME out \in Seq(Pieces), piece \in Pieces, out' = Append(out, piece), served' = served, ~Begins(piece)
    PROVE  /\ OneAnswerEach => OneAnswerEach'
           /\ MayBegin /\ ~Frozen => MayBegin'
           /\ HasBegun /\ m_keep_alive' = m_keep_alive
              /\ (wrote' = "all" => wrote = "all" \/ (piece.kind = "body" /\ piece.n = current)) => HasBegun'
  <1>1. /\ Len(out) \in Nat /\ DOMAIN out = 1 .. Len(out) /\ DOMAIN out' = 1 .. Len(out) + 1
        /\ Len(out') = Len(out) + 1 /\ out'[Len(out) + 1] = piece
        /\ \A i \in DOMAIN out : out'[i] = out[i]
    BY OnePieceMore, Zenon
  <1>2. \A i \in DOMAIN out : IsComplete(i) => IsComplete(i)'
    BY OnePieceMore, Zenon
  <1>3. \A i \in DOMAIN out : IsLast(i) <=> IsLast(i)'
    BY OnePieceMore, Zenon
  <1>4. \A i \in DOMAIN out' : Begins(out'[i]) => i \in DOMAIN out /\ Begins(out[i])
    BY <1>1
  <1>5. current' = current
    BY Zenon DEF current
  <1>6. ASSUME OneAnswerEach PROVE OneAnswerEach'
    <2>1. SUFFICES ASSUME NEW i \in DOMAIN out', NEW j \in DOMAIN out', i < j, Begins(out'[i]), Begins(out'[j])
                   PROVE  /\ out'[i].n < out'[j].n
                          /\ out'[i].kind = "head" =>
                                 \E k \in i + 1 .. j - 1 : out'[k].kind = "body" /\ out'[k].n = out'[i].n
      BY ZenonT(40) DEF OneAnswerEach, Begins
    <2>2. /\ i \in DOMAIN out /\ j \in DOMAIN out /\ Begins(out[i]) /\ Begins(out[j])
          /\ out'[i] = out[i] /\ out'[j] = out[j]
      BY <1>1, <1>4, <2>1, Zenon
    <2>3. \A k \in i + 1 .. j - 1 : out'[k] = out[k]
      BY <1>1, <2>2
    <2>4. /\ out[i].n < out[j].n
          /\ out[i].kind = "head" => \E k \in i + 1 .. j - 1 : out[k].kind = "body" /\ out[k].n = out[i].n
      BY <1>6, <2>1, <2>2, Zenon DEF OneAnswerEach
    <2> QED BY <2>2, <2>3, <2>4, Zenon
  <1>7. ASSUME MayBegin, ~Frozen PROVE MayBegin'
    <2>1. ASSUME NEW i \in DOMAIN out', Begins(out'[i]) PROVE out'[i].n <= served
      BY <1>1, <1>4, <1>7, <2>1, Zenon DEF MayBegin
    <2>2. ASSUME NEW i \in DOMAIN out', IsLast(i)' PROVE IsComplete(i)'
      <3>1. Begins(out'[i])
        BY <2>2, Zenon DEF IsLast, Begins
      <3>2. i \in DOMAIN out /\ IsLast(i)
        BY <1>3, <1>4, <2>2, <3>1, Zenon
      <3> QED BY <1>2, <1>7, <3>2, Zenon DEF MayBegin
    <2> QED BY <2>1, <2>2, Zenon DEF MayBegin, Begins
  <1>8. ASSUME HasBegun, m_keep_alive' = m_keep_alive,
               wrote' = "all" => wrote = "all" \/ (piece.kind = "body" /\ piece.n = current)
        PROVE  HasBegun'
    <2>1. PICK i \in DOMAIN out : /\ IsLast(i) /\ out[i].n = current /\ out[i].kind = "head"
                                  /\ out[i].keep = m_keep_alive
                                  /\ wrote = "all" => IsComplete(i)
      BY <1>8, Zenon DEF HasBegun
    <2>2. i \in DOMAIN out' /\ IsLast(i)' /\ out'[i] = out[i]
      BY <1>1, <1>3, <2>1
    <2>3. ASSUME piece.kind = "body", piece.n = current PROVE IsComplete(i)'
      <3>1. Len(out) + 1 \in i + 1 .. Len(out')
        BY <1>1
      <3> QED BY <1>1, <2>1, <2>2, <2>3, <3>1, Zenon DEF IsComplete
    <2>4. wrote' = "all" => IsComplete(i)'
      BY <1>2, <1>8, <2>1, <2>3, Zenon
    <2> QED BY <1>5, <1>8, <2>1, <2>2, <2>4, Zenon DEF HasBegun
  <1> QED BY <1>6, <1>7, <1>8, Zenon

\* The head of a response, or an error response.
LEMMA Started ==
    ASSUME out \in Seq(Pieces), piece \in Pieces, out' = Append(out, piece), served' = served, served \in Nat,
           Begins(piece), piece.n = current
    PROVE  /\ OneAnswerEach /\ MayBegin /\ ~Frozen => OneAnswerEach'
           /\ piece.kind = "head" /\ piece.keep = m_keep_alive' /\ wrote' # "all" => HasBegun'
           /\ ~piece.keep => LastCloses'
  <1>1. /\ Len(out) \in Nat /\ DOMAIN out = 1 .. Len(out) /\ DOMAIN out' = 1 .. Len(out) + 1
        /\ Len(out') = Len(out) + 1 /\ out'[Len(out) + 1] = piece
        /\ \A i \in DOMAIN out : out'[i] = out[i]
    BY OnePieceMore, Zenon
  <1>2. \A i \in DOMAIN out : out[i] \in Pieces
    BY OnePieceMore, Zenon
  <1>3. current' = current /\ current = served + 1
    BY Zenon DEF current
  <1>4. ASSUME OneAnswerEach, MayBegin, ~Frozen PROVE OneAnswerEach'
    <2>1. SUFFICES ASSUME NEW i \in DOMAIN out', NEW j \in DOMAIN out', i < j, Begins(out'[i]), Begins(out'[j])
                   PROVE  /\ out'[i].n < out'[j].n
                          /\ out'[i].kind = "head" =>
                                 \E k \in i + 1 .. j - 1 : out'[k].kind = "body" /\ out'[k].n = out'[i].n
      BY ZenonT(40) DEF OneAnswerEach, Begins
    <2>2. i \in DOMAIN out /\ out'[i] = out[i] /\ Begins(out[i]) /\ \A k \in i + 1 .. j - 1 : out'[k] = out[k]
      BY <1>1, <2>1
    <2>3. CASE j \in DOMAIN out
      <3>1. /\ out[i].n < out[j].n
            /\ out[i].kind = "head" => \E k \in i + 1 .. j - 1 : out[k].kind = "body" /\ out[k].n = out[i].n
        BY <1>1, <1>4, <2>1, <2>2, <2>3, Zenon DEF OneAnswerEach
      <3> QED BY <1>1, <2>2, <2>3, <3>1, Zenon
    <2>4. CASE j = Len(out) + 1
      <3>1. out[i].n <= served /\ out[i].n \in Nat
        BY <1>2, <1>4, <2>2, Zenon DEF MayBegin, Pieces
      <3>2. out'[i].n < out'[j].n
        BY SMTT(40), Z3T(40), <1>1, <1>3, <2>2, <2>4, <3>1
      <3>3. IsComplete(i)
        BY <1>4, <2>2, OneAfterTheOther, Zenon DEF MayBegin
      <3>4. j - 1 = Len(out)
        BY SMTT(40), Z3T(40), <1>1, <2>4
      <3> QED BY <2>2, <3>2, <3>3, <3>4, Zenon DEF IsComplete
    <2> QED BY SMTT(40), Z3T(40), <1>1, <2>3, <2>4
  <1>5. PICK new \in DOMAIN out' : IsLast(new)' /\ out'[new] = piece
    BY <1>1, OnePieceMore
  <1>6. ASSUME piece.kind = "head", piece.keep = m_keep_alive', wrote' # "all" PROVE HasBegun'
    BY <1>1, <1>5, <1>3, <1>6, Zenon DEF HasBegun
  <1>7. ASSUME ~piece.keep PROVE LastCloses'
    BY <1>1, <1>5, <1>7, Zenon DEF LastCloses
  <1> QED BY <1>4, <1>6, <1>7, Zenon

\* The response to the request that is done is the last one, and complete
\* unless no more can be written.
LEMMA NextMayBegin ==
    ASSUME out \in Seq(Pieces), served \in Nat, OneAnswerEach, HasBegun, out' = out, served' = served + 1,
           Frozen => Frozen', wrote = "all" \/ Frozen
    PROVE  MayBegin'
  <1>1. PICK i \in DOMAIN out : /\ IsLast(i) /\ out[i].n = current
                                /\ wrote = "all" => IsComplete(i)
    BY Zenon DEF HasBegun
  <1>2. DOMAIN out = 1 .. Len(out) /\ Len(out) \in Nat /\ \A j \in DOMAIN out : out[j] \in Pieces
    OBVIOUS
  <1>3. ASSUME NEW j \in DOMAIN out, Begins(out[j]) PROVE out[j].n <= served + 1 /\ (IsLast(j) => j = i)
    <2>1. j > i => FALSE
      BY SMTT(40), Z3T(40), <1>1, <1>2, <1>3 DEF IsLast
    <2>2. j < i => out[j].n < out[i].n /\ ~IsLast(j)
      BY <1>1, <1>2, <1>3 DEF OneAnswerEach, IsLast
    <2>3. out[j].n \in Nat
      BY <1>2, Zenon DEF Pieces
    <2> QED BY SMTT(40), Z3T(40), <1>1, <1>2, <2>1, <2>2, <2>3 DEF current
  <1>4. \A j \in DOMAIN out : IsLast(j) => Begins(out[j])
    BY Zenon DEF IsLast
  <1>5. Frozen \/ \A j \in DOMAIN out : IsLast(j) => IsComplete(j)
    BY <1>1, <1>3, <1>4, Zenon
  <1>6. \A j : (IsLast(j)' <=> IsLast(j)) /\ (IsComplete(j)' <=> IsComplete(j))
    BY Zenon DEF IsLast, IsComplete, Begins
  <1> QED BY <1>3, <1>5, <1>6, Zenon DEF MayBegin, Begins

\* Of steps that write nothing the invariant needs to know where the coroutine
\* goes only.
AnswersKept ==
    /\ OneAnswerEach => OneAnswerEach'
    /\ MayBegin => MayBegin'
    /\ m_keep_alive' = m_keep_alive /\ wrote' = wrote /\ HasBegun => HasBegun'
    /\ LastCloses => LastCloses'

LEMMA AnswersStep ==
    ASSUME Inv, [Next]_vars
    PROVE  AnswersInv'
  <1>0. TypeInv /\ RequestInv /\ ControlInv /\ AnswersInv
    BY Zenon DEF Inv
  <1>1. /\ script' = script
        /\ hung => hung'
        /\ given # "ok" => given' # "ok"
        /\ Frozen => Frozen'
    BY <1>0, Lasting, Zenon
  <1>2. SUFFICES ASSUME Disciplined PROVE AnswersInv'
    BY <1>1, Zenon DEF AnswersInv, Disciplined
  <1>3. served \in Nat /\ (served' = served => current' = current)
    BY <1>0, PlaceOnWire DEF current
  <1>4. HasRequest => /\ script[current].orderly
                      /\ script[current].catches \cap {"refused", "status"} = {}
    <2>1. HasRequest => current \in DOMAIN script
      BY SMTT(40), Z3T(40), <1>0, CurrentOnWire DEF RequestInv
    <2> QED BY <1>2, <2>1, Zenon DEF Disciplined
  <1>5. /\ pc = "yield" => back \in {"headers", "handler", "body"}
        /\ Writing => back \in {"handler", "body", "break", "shutdown"}
        /\ wrote \in {"no", "head", "all"} /\ hasRead \in {"no", "done", "failed", "caught"}
    BY <1>0, Zenon DEF TypeInv
  <1>6. out' = out /\ served' = served => AnswersKept
    BY <1>1, SameAnswers, Zenon DEF AnswersKept
  <1> USE <1>1, <1>2, <1>4, <1>5, <1>6 DEF Place, ReadsHead, HasRequest, Suspended, Writing, AnswersKept
  <1>7. CASE HeadPending
    BY <1>0, <1>7, HeadEffect, Zenon DEF AnswersInv, ControlInv, handlerVars
  <1>8. CASE ReadHead
    BY <1>0, <1>8, HeadEffect, Zenon DEF AnswersInv, ControlInv, handlerVars
  <1>9. CASE ReadFails
    BY <1>0, <1>9, Zenon DEF ReadFails, ThrowFrom, GiveUp, AnswersInv, socketVars, parserVars, handlerVars
  <1>10. CASE BodyPending
    <2>1. hasRead = "no"
      BY <1>0, <1>10, BodyEffect, Zenon DEF RequestInv
    <2> QED BY <1>0, <1>10, <2>1, BodyEffect, Zenon DEF AnswersInv, ControlInv
  <1>11. CASE ReadBody
    <2>1. hasRead = "no"
      BY <1>0, <1>11, BodyEffect, Zenon DEF RequestInv
    <2> QED BY <1>0, <1>11, <2>1, BodyEffect, Zenon DEF AnswersInv, ControlInv
  <1>12. CASE WriteSome
    <2>1. CASE room
      <3>1. out \in Seq(Pieces) /\ piece \in Pieces /\ out' = Append(out, piece) /\ served' = served /\ piece.n = current
        BY <1>0, <1>12, <2>1, Zenon DEF WriteSome, TypeInv, ControlInv
      <3>2. ~Frozen
        BY <2>1, Zenon DEF Frozen
      <3>3. CASE ~Begins(piece)
        <4>1. /\ OneAnswerEach => OneAnswerEach'
              /\ MayBegin => MayBegin'
              /\ HasBegun /\ m_keep_alive' = m_keep_alive
                 /\ (wrote' = "all" => wrote = "all" \/ (piece.kind = "body" /\ piece.n = current)) => HasBegun'
          BY <3>1, <3>2, <3>3, GoesOn, Zenon
        <4>2. piece.kind \in {"continue", "body"} /\ back \in {"handler", "body"}
          BY <1>0, <1>12, <3>1, <3>3, Zenon DEF Begins, ControlInv, Pieces, WriteSome
        <4> QED BY <1>0, <1>12, <2>1, <3>1, <3>2, <4>1, <4>2, Zenon DEF WriteSome, Goto, AnswersInv, ControlInv, parserVars
      <3>4. CASE Begins(piece)
        <4>1. /\ OneAnswerEach /\ MayBegin => OneAnswerEach'
              /\ piece.kind = "head" /\ piece.keep = m_keep_alive' /\ wrote' # "all" => HasBegun'
              /\ ~piece.keep => LastCloses'
          BY <1>3, <3>1, <3>2, <3>4, Started, Zenon
        <4>2. piece.kind \in {"head", "error"}
          BY <3>4, Zenon DEF Begins
        <4> QED BY <1>0, <1>12, <2>1, <3>1, <3>2, <4>1, <4>2, Zenon DEF WriteSome, Goto, AnswersInv, ControlInv, parserVars
      <3> QED BY <3>3, <3>4, Zenon
    <2>2. CASE ~room
      BY <1>0, <1>12, <2>2, Zenon DEF WriteSome, Goto, AnswersInv, ControlInv, parserVars
    <2> QED BY <2>1, <2>2, Zenon
  <1>13. CASE WriteFails
    BY <1>0, <1>13, Zenon DEF WriteFails, ThrowFrom, Frozen, AnswersInv, ControlInv, socketVars, parserVars, handlerVars
  <1>14. CASE Route
    BY <1>0, <1>14, Zenon DEF Route, Goto, Write, AnswersInv, socketVars, parserVars, handlerVars
  <1>15. CASE After
    <2>1. /\ OneAnswerEach /\ HasBegun /\ wrote # "no" /\ hasRead \in {"done", "caught"}
          /\ wrote = "head" => given # "ok" \/ Frozen
          /\ hasRead = "caught" => ~m_keep_alive \/ m_remaining = 0 \/ given # "ok" \/ Frozen
      BY <1>0, <1>15, Zenon DEF After, AnswersInv, ControlInv
    <2>2. out' = out /\ served' = served + 1 /\ given' = given /\ hung' = hung /\ error' = error /\ out \in Seq(Pieces)
      BY <1>0, <1>15, Zenon DEF After, socketVars, TypeInv
    <2>3. OneAnswerEach'
      BY <2>1, <2>2, SameOrder, Zenon
    <2>4. pc' \in {"headers", "shutdown"} /\ (pc' = "headers" <=> given = "ok" /\ Reusable)
      BY <1>15, Zenon DEF After, Goto
    <2>5. pc' = "headers" => MayBegin'
      BY <1>3, <2>1, <2>2, <2>4, NextMayBegin, Zenon
    <2>6. ASSUME pc' = "shutdown", given' = "ok", ~hung' PROVE LastCloses'
      <3>1. ~Reusable /\ ~Frozen
        BY <2>2, <2>4, <2>6, Zenon DEF Frozen
      <3>2. ~m_keep_alive
        BY <1>0, <1>15, <2>1, <2>2, <2>6, <3>1, Zenon DEF After, Reusable, RequestInv
      <3>3. LastCloses
        BY <2>1, <3>2, Zenon DEF HasBegun, LastCloses
      <3> QED BY <2>2, <3>3, Zenon DEF LastCloses, IsLast, Begins
    <2> QED BY <2>3, <2>4, <2>5, <2>6, Zenon DEF AnswersInv
  <1>16. CASE Catch
    BY <1>0, <1>16, Zenon DEF Catch, Goto, Write, AnswersInv, ControlInv, socketVars, parserVars, handlerVars
  <1>17. CASE Shutdown
    BY <1>0, <1>17, Zenon DEF Shutdown, Goto, AnswersInv, socketVars, parserVars, handlerVars
  <1>18. CASE HandlerReads
    BY SMTT(40), Z3T(40), <1>0, <1>18 DEF HandlerReads, ThrowFrom, Goto, Write, Answer, AnswersInv, socketVars, parserVars, handlerVars
  <1>19. CASE HandlerWrites
    BY <1>0, <1>19, Zenon DEF HandlerWrites, Write, Answer, AnswersInv, socketVars, parserVars, handlerVars
  <1>20. CASE HandlerYields
    BY <1>0, <1>20, Zenon DEF HandlerYields, YieldAt, AnswersInv, socketVars, parserVars, handlerVars
  <1>21. CASE HandlerThrows
    BY <1>0, <1>21, Zenon DEF HandlerThrows, ThrowFrom, AnswersInv, socketVars, parserVars, handlerVars
  <1>22. CASE HandlerCatches
    BY <1>0, <1>22, Zenon DEF HandlerCatches, Goto, AnswersInv, socketVars, parserVars, handlerVars
  <1>23. CASE HandlerUnwinds
    BY <1>0, <1>23, Zenon DEF HandlerUnwinds, Goto, AnswersInv, socketVars, parserVars, handlerVars
  <1>24. CASE HandlerReturns
    BY <1>0, <1>24, Zenon DEF HandlerReturns, Goto, AnswersInv, socketVars, parserVars, handlerVars
  <1>25. CASE Start
    BY <1>0, <1>25, Zenon DEF Start, Goto, AnswersInv, socketVars, parserVars, handlerVars
  <1>26. CASE Resume
    BY <1>0, <1>26, Zenon DEF Resume, Goto, AnswersInv, socketVars, parserVars, handlerVars
  <1>27. CASE WakeUp
    BY <1>0, <1>27, Zenon DEF WakeUp, Goto, AnswersInv, socketVars, parserVars, handlerVars
  <1>28. CASE ResumeWithError
    BY <1>0, <1>28, Zenon DEF ResumeWithError, ThrowFrom, Goto, GiveUp, Errors, AnswersInv, socketVars, parserVars, handlerVars
  <1>29. CASE PeerSends
    BY <1>0, <1>29, Zenon DEF PeerSends, AnswersInv, socketVars, parserVars, handlerVars
  <1>30. CASE PeerReads
    BY <1>0, <1>30, Zenon DEF PeerReads, AnswersInv, socketVars, parserVars, handlerVars
  <1>31. CASE PeerHangsUp
    BY <1>0, <1>31, Zenon DEF PeerHangsUp, AnswersInv, socketVars, parserVars, handlerVars
  <1>32. CASE UNCHANGED vars
    BY <1>0, <1>32, Zenon DEF AnswersInv, vars, socketVars, parserVars, handlerVars
  <1> QED BY Zenon, <1>7, <1>8, <1>9, <1>10, <1>11, <1>12, <1>13, <1>14, <1>15, <1>16, <1>17, <1>18, <1>19, <1>20, <1>21, <1>22, <1>23, <1>24, <1>25, <1>26, <1>27, <1>28, <1>29, <1>30, <1>31, <1>32
       DEF Next, Coroutine, Handler, Loop, Peer, Ended

-----------------------------------------------------------------------------
(* The theorems *)

LEMMA InitInv == Init => Inv
  <1> SUFFICES ASSUME Init PROVE Inv
    OBVIOUS
  <1> USE DEF Init
  <1>1. script \in Seq(Requests) /\ Len(script) \in Nat /\ 0 \in 0 .. Len(script)
    BY HttpSessionAssumption
  <1>2. Wire \in Seq(Bytes) /\ Len(Wire) \in Nat /\ Len(Upto(0)) = 0
    <2>1. Wire \in Seq(Bytes) /\ Len(Upto(0)) = 0
      BY ONLY <1>1, WireShape, Zenon
    <2> QED BY <2>1
  <1>3. <<>> \in Seq(Bytes) /\ <<>> \in Seq(Pieces) /\ Len(out) = 0
    OBVIOUS
  <1>4. req \in Parsed
    BY <1>3, ParsedIs, Zenon DEF NoRequest
  <1>5. /\ Place = "start" /\ ReadsHead /\ ~HasRequest /\ ~Writing
    BY DEF Place, Suspended, ReadsHead, HasRequest, Writing
  <1>6. TypeInv
    <2>1. arrived \in 0 .. Len(Wire) /\ taken \in 0 .. arrived /\ served \in 0 .. Len(script)
      BY SMTT(40), Z3T(40), <1>1, <1>2
    <2>2. yields \in 0 .. MaxYields /\ m_remaining \in Nat
      BY HttpSessionAssumption
    <2>3. m_pending \in Seq(Bytes) /\ out \in Seq(Pieces)
      BY <1>3, Zenon
    <2> QED BY <1>4, <1>5, <2>1, <2>2, <2>3, Zenon DEF TypeInv
  <1>7. HeadInv
    <2>1. req.head = <<>> /\ req.body = <<>> /\ req.state = "uninitialized"
      BY Zenon DEF NoRequest
    <2>2. Consumed = 0
      BY SMTT(40), Z3T(40), <1>2, <2>1 DEF Consumed
    <2>3. InStep
      BY <1>2, <2>2 DEF InStep
    <2> QED BY <2>1, <2>3, Zenon DEF HeadInv
  <1>8. RequestInv /\ ControlInv
    BY <1>5, Zenon DEF RequestInv, ControlInv
  <1>9. OwedInv
    BY SMTT(40), Z3T(40), <1>5 DEF OwedInv
  <1>10. AnswersInv
    BY <1>3, <1>5 DEF AnswersInv, OneAnswerEach, MayBegin
  <1> QED BY <1>6, <1>7, <1>8, <1>9, <1>10, Zenon DEF Inv

\* The inductive invariant: what the parser has consumed and what is pending,
\* where an exception goes, what is still owed an answer, and how the
\* responses follow one another, in read_headers, read and io_loop, for any
\* requests, handlers, pieces in which the bytes arrive, and buffer size.
THEOREM SessionKeepsInv == Spec => []Inv
  <1>1. Inv /\ [Next]_vars => Inv'
    <2> SUFFICES ASSUME Inv, [Next]_vars PROVE Inv'
      OBVIOUS
    <2>1. TypeInv' /\ HeadInv' /\ RequestInv'
      BY ParserStep, Zenon
    <2>2. ControlInv' /\ OwedInv' /\ AnswersInv'
      BY <2>1, ControlStep, OwedStep, AnswersStep, Zenon
    <2> QED BY <2>1, <2>2, Zenon DEF Inv
  <1> QED BY <1>1, InitInv, PTL DEF Spec

\* Every variable of the session keeps its type, the positions in the stream
\* stay in order, and no more requests are served than were sent.
THEOREM SessionTypes == Spec => []TypeOK
  <1>1. Inv => TypeOK
    BY Zenon DEF Inv, TypeInv, TypeOK
  <1> QED BY <1>1, SessionKeepsInv, PTL

\* A piece of the wire that is known byte by byte.
LEMMA IsPiece ==
    ASSUME NEW S, NEW w \in Seq(S), NEW q \in Nat, NEW d \in Seq(S), q + Len(d) <= Len(w), IsAt(w, q, d)
    PROVE  d = SubSeq(w, q + 1, q + Len(d))
  <1> DEFINE e == SubSeq(w, q + 1, q + Len(d))
             n == Len(d)
  <1>0. n \in Nat /\ q + n \in Nat /\ q <= q + n /\ (q + n) - q = n /\ \A i \in 1 .. n : d[i] = w[q + i]
    BY DEF IsAt
  <1>1. e \in Seq(S) /\ Len(e) = n /\ \A i \in 1 .. n : e[i] = w[q + i]
    BY <1>0, PieceShape
  <1> HIDE DEF e
  <1>2. Len(e) = Len(d) /\ \A i \in 1 .. Len(d) : e[i] = d[i]
    BY <1>0, <1>1, Zenon
  <1>3. d = e
    BY <1>1, <1>2, SameSeq, Zenon
  <1> QED BY <1>3, Zenon DEF e

\* u, h and b follow one another on the wire.
InARow(w, u, h, b) ==
    /\ u = SubSeq(w, 1, Len(u)) /\ IsAt(w, Len(u), h) /\ IsAt(w, Len(u) + Len(h), b)
    /\ Len(u) + Len(h) + Len(b) <= Len(w)

LEMMA Assembled ==
    ASSUME NEW S, NEW w \in Seq(S), NEW u \in Seq(S), NEW h \in Seq(S), NEW b \in Seq(S), InARow(w, u, h, b)
    PROVE  u \o h \o b = SubSeq(w, 1, Len(u) + Len(h) + Len(b))
  <1> DEFINE x == Len(u)
             y == x + Len(h)
             z == y + Len(b)
  <1>1. x \in Nat /\ y \in Nat /\ z \in Nat /\ 0 <= x /\ x <= y /\ y <= z /\ z <= Len(w) /\ Len(w) \in Nat
    BY DEF InARow
  <1>2. h = SubSeq(w, x + 1, y) /\ b = SubSeq(w, y + 1, z)
    BY SMTT(40), Z3T(40), <1>1, IsPiece DEF InARow
  <1>3. u = SubSeq(w, 0 + 1, x)
    BY DEF InARow
  <1> HIDE DEF x, y, z
  <1>4. u \o h = SubSeq(w, 0 + 1, y)
    <2>1. SubSeq(w, 0 + 1, x) \o SubSeq(w, x + 1, y) = SubSeq(w, 0 + 1, y)
      BY <1>1, PieceJoin
    <2> QED BY <1>2, <1>3, <2>1, Zenon
  <1>5. (u \o h) \o b = SubSeq(w, 0 + 1, z)
    <2>1. SubSeq(w, 0 + 1, y) \o SubSeq(w, y + 1, z) = SubSeq(w, 0 + 1, z)
      BY SMTT(40), Z3T(40), <1>1, PieceJoin
    <2> QED BY <1>2, <1>4, <2>1, Zenon
  <1> QED BY <1>5 DEF x, y, z

\* What the parser has consumed is the beginning of what was sent.
LEMMA ConsumedBytes ==
    ASSUME Inv, ReadsHead \/ HasRequest, InStep
    PROVE  Upto(served) \o req.head \o req.body = SubSeq(Wire, 1, Consumed)
  <1>0. TypeInv /\ HeadInv /\ RequestInv
    BY Zenon DEF Inv
  <1>1. /\ Wire \in Seq(Bytes) /\ Upto(served) \in Seq(Bytes) /\ Upto(served) = SubSeq(Wire, 1, Len(Upto(served)))
        /\ Len(Wire) \in Nat /\ Len(Upto(served)) \in Nat
    BY <1>0, PlaceOnWire, WireShape, Zenon
  <1>2. req.head \in Seq(Bytes) /\ req.body \in Seq(Bytes)
    BY <1>0 DEF TypeInv, Parsed
  <1>3. Len(Upto(served)) + Len(req.head) + Len(req.body) <= Len(Wire)
    <2>1. Consumed \in Nat /\ Consumed <= taken /\ taken \in Nat /\ arrived \in Nat /\ taken <= arrived /\ arrived <= Len(Wire)
      BY SMTT(40), Z3T(40), <1>0, <1>1, ConsumedIsNat DEF InStep, TypeInv
    <2>2. Consumed <= Len(Wire)
      BY <1>1, <2>1
    <2> QED BY <2>2, Zenon DEF Consumed
  <1>4. IsAt(Wire, Len(Upto(served)), req.head) /\ IsAt(Wire, Len(Upto(served)) + Len(req.head), req.body)
    <2>1. CASE ReadsHead
      <3>1. req.body = <<>>
        BY <1>0, <2>1, Zenon DEF HeadInv
      <3>2. IsAt(Wire, Len(Upto(served)), req.head)
        <4>1. CASE req.head = <<>>
          BY <4>1 DEF IsAt
        <4>2. CASE current <= Len(script) /\ req.head = SubSeq(HeadOf(script, current), 1, 2)
          <5>1. /\ HeadOf(script, current) \in Seq(Bytes) /\ Len(HeadOf(script, current)) = 3
                /\ \A i \in 1 .. 3 : Wire[Len(Upto(served)) + i] = HeadOf(script, current)[i]
            BY <1>0, <4>2, CurrentOnWire, Zenon
          <5> DEFINE h == HeadOf(script, current)
          <5> HIDE DEF h
          <5>2. Len(req.head) = 2 /\ req.head[1] = h[1] /\ req.head[2] = h[2]
            BY <4>2, <5>1 DEF h
          <5>3. \A i \in 1 .. Len(req.head) : i \in 1 .. 3 /\ req.head[i] = h[i]
            BY <5>2
          <5> QED BY <5>1, <5>3, Zenon DEF IsAt, h
        <4> QED BY <1>0, <2>1, <4>1, <4>2, Zenon DEF HeadInv
      <3>3. IsAt(Wire, Len(Upto(served)) + Len(req.head), req.body)
        BY <3>1 DEF IsAt
      <3> QED BY <3>2, <3>3, Zenon
    <2>2. CASE HasRequest
      <3>1. /\ current <= Len(script) /\ req.head = HeadOf(script, current) /\ m_remaining \in Nat
            /\ m_remaining <= Len(script[current].body)
            /\ req.body = SubSeq(BodyOf(script, current), 1, Len(script[current].body) - m_remaining)
        BY <1>0, <2>2, Zenon DEF RequestInv, TypeInv
      <3>2. /\ Len(req.head) = 3
            /\ BodyOf(script, current) \in Seq(Bytes)
            /\ Len(BodyOf(script, current)) = Len(script[current].body) /\ Len(script[current].body) \in Nat
            /\ \A i \in 1 .. 3 : Wire[Len(Upto(served)) + i] = HeadOf(script, current)[i]
            /\ \A i \in 1 .. Len(script[current].body) :
                  Wire[Len(Upto(served)) + 3 + i] = BodyOf(script, current)[i]
        BY <1>0, <3>1, CurrentOnWire, Zenon
      <3>3. IsAt(Wire, Len(Upto(served)), req.head)
        BY <3>1, <3>2, Zenon DEF IsAt
      <3>4. \A i \in 1 .. Len(req.body) : i \in 1 .. Len(script[current].body) /\ req.body[i] = BodyOf(script, current)[i]
        <4> DEFINE B == BodyOf(script, current)
                   n == Len(script[current].body)
        <4>1. B \in Seq(Bytes) /\ Len(B) = n /\ n \in Nat /\ req.body = SubSeq(B, 1, n - m_remaining)
              /\ m_remaining \in Nat /\ m_remaining <= n
          BY <3>1, <3>2, Zenon
        <4> HIDE DEF B, n
        <4>2. \A i \in 1 .. Len(req.body) : i \in 1 .. n /\ req.body[i] = B[i]
          BY <4>1
        <4> QED BY <4>2, Zenon DEF B, n
      <3>5. IsAt(Wire, Len(Upto(served)) + Len(req.head), req.body)
        BY <3>2, <3>4, Zenon DEF IsAt
      <3> QED BY SMTT(40), Z3T(40), <3>3, <3>5
    <2> QED BY <2>1, <2>2, Zenon
  <1>5. Upto(served) \o req.head \o req.body
          = SubSeq(Wire, 1, Len(Upto(served)) + Len(req.head) + Len(req.body))
    <2> DEFINE w == Wire
               u == Upto(served)
               h == req.head
               b == req.body
    <2>1. /\ w \in Seq(Bytes) /\ u \in Seq(Bytes) /\ h \in Seq(Bytes) /\ b \in Seq(Bytes)
          /\ InARow(w, u, h, b)
      BY <1>1, <1>2, <1>3, <1>4, Zenon DEF InARow
    <2> HIDE DEF w, u, h, b
    <2>2. u \o h \o b = SubSeq(w, 1, Len(u) + Len(h) + Len(b))
      BY ONLY SMTT(40), Z3T(40), <2>1, Assembled
    <2> QED BY <2>2, Zenon DEF w, u, h, b
  <1> QED BY <1>5, Zenon DEF Consumed

\* What the parser has consumed and what is pending are together the bytes
\* that were read, in order, for as long as the connection may be reused: the
\* loops of read_headers and read and what they leave in m_pending lose and
\* repeat nothing, in whatever pieces the bytes arrive.
THEOREM ParsesEveryByteOnce == Spec => []NoByteLost
  <1>1. Inv => NoByteLost
    <2> SUFFICES ASSUME Inv, hasRead \notin {"failed", "caught"},
                        pc \in {"headers", "read_head", "route", "handler", "body", "read_body", "yield", "after"}
                 PROVE  Upto(served) \o req.head \o req.body \o m_pending = SubSeq(Wire, 1, taken)
      BY Zenon DEF NoByteLost
    <2>0. TypeInv /\ HeadInv /\ RequestInv
      BY DEF Inv
    <2>1. ReadsHead \/ HasRequest
      BY <2>0 DEF TypeInv, ReadsHead, HasRequest, Place, Suspended
    <2>2. InStep
      BY <2>0, <2>1, Zenon DEF HeadInv, RequestInv
    <2>3. Upto(served) \o req.head \o req.body = SubSeq(Wire, 1, Consumed)
      BY <2>1, <2>2, ConsumedBytes, Zenon
    <2>4. /\ m_pending = SubSeq(Wire, Consumed + 1, taken) /\ Consumed <= taken /\ Consumed \in Nat
          /\ taken \in Nat /\ taken <= Len(Wire) /\ Wire \in Seq(Bytes)
      BY SMTT(40), Z3T(40), <2>0, <2>2, ConsumedIsNat, PlaceOnWire DEF InStep, TypeInv
    <2>5. SubSeq(Wire, 0 + 1, Consumed) \o SubSeq(Wire, Consumed + 1, taken) = SubSeq(Wire, 0 + 1, taken)
      BY <2>4, PieceJoin
    <2> QED BY <2>3, <2>4, <2>5
  <1> QED BY <1>1, SessionKeepsInv, PTL

\* A handler is given the request that the peer sent in its place, with a
\* beginning of its body, and the whole of it once it is completed: the check
\* of req.state() after the handler ends every connection on which the next
\* head could be taken from an unread body.
THEOREM GivesRequestsIntact == Spec => []RequestIntact
  <1>1. Inv => RequestIntact
    <2> SUFFICES ASSUME Inv, pc \in {"route", "handler", "body", "read_body", "after"}
                 PROVE  /\ req.head = HeadOf(script, current)
                        /\ \E k \in 0 .. Len(script[current].body) : req.body = SubSeq(BodyOf(script, current), 1, k)
                        /\ req.state = "completed" => req.body = BodyOf(script, current)
      BY DEF RequestIntact
    <2> DEFINE B == BodyOf(script, current)
               n == Len(script[current].body)
    <2>1. TypeInv /\ RequestInv /\ HasRequest
      BY DEF Inv, HasRequest, Place, Suspended
    <2>2. /\ current <= Len(script) /\ req.head = HeadOf(script, current) /\ m_remaining \in Nat
          /\ m_remaining <= n /\ req.body = SubSeq(B, 1, n - m_remaining)
          /\ req.state = "completed" => m_remaining = 0
      BY <2>1, Zenon DEF RequestInv, TypeInv
    <2>3. B \in Seq(Bytes) /\ Len(B) = n /\ n \in Nat
      BY <2>1, <2>2, CurrentOnWire, Zenon
    <2> HIDE DEF B, n
    <2>4. n - m_remaining \in 0 .. n /\ SubSeq(B, 1, n) = B
      BY <2>2, <2>3
    <2>5. m_remaining = 0 => n - m_remaining = n
      BY SMTT(40), Z3T(40), <2>2, <2>3
    <2> QED BY <2>2, <2>4, <2>5, Zenon DEF B, n
  <1> QED BY <1>1, SessionKeepsInv, PTL

\* If every handler reads its request before it answers, a response begins
\* only after the one before it is complete, and answers a later request:
\* m_can_write_errror keeps an exception from adding a second response or one
\* in the middle of another.
THEOREM AnswersOnce == Spec => []OneAnswerIfReadFirst
  <1>1. Inv => OneAnswerIfReadFirst
    BY Zenon DEF Inv, AnswersInv, OneAnswerIfReadFirst
  <1> QED BY <1>1, SessionKeepsInv, PTL

\* When every handler reads its request before it answers and does not answer
\* after a 417 (Disciplined), a connection that the server closes although
\* nobody failed was announced to close by the last response: the
\* keep_alive_guard of read drops a keep alive only before it is advertised.
THEOREM ClosesAsAnnouncedIfReadFirst == Spec => []KeepAliveHonestIfReadFirst
  <1>1. Inv => KeepAliveHonestIfReadFirst
    BY Zenon DEF Inv, AnswersInv, KeepAliveHonestIfReadFirst, KeepAliveHonest, LastCloses, IsLast
  <1> QED BY <1>1, SessionKeepsInv, PTL

\* An error of the first request of a connection, or of a body that read()
\* refuses, is answered by the catch clauses of io_loop before the connection
\* is closed.
THEOREM AnswersFreshErrors == Spec => []FreshErrorIsAnswered
  <1>1. Inv => FreshErrorIsAnswered
    BY DEF Inv, OwedInv, FreshErrorIsAnswered, ErrorIsAnswered, Answered, ReadsHead, HasRequest, Place,
           Suspended, Writing
  <1> QED BY <1>1, SessionKeepsInv, PTL

=============================================================================
