------------------------- MODULE ReplayWindowProofs -------------------------
(***************************************************************************)
(* What sliding a replay window does, for every window size.               *)
(***************************************************************************)
EXTENDS ReplayWindow, TLAPS

\* The bits of a window that shows the indexes S below high, and the highest
\* index once index has been seen.
Below(high, S) == { d \in Bits : high - d \in S }
Top(high, index) == IF index > high THEN index ELSE high

\* A window slides exactly: after index is accepted, bit d is set iff the
\* packet d below the new highest index was consumed.
LEMMA SlideExact ==
    ASSUME NEW S \in SUBSET Nat, NEW high \in Nat, NEW index \in Nat,
           \A i \in S : i <= high,
           Fresh(Below(high, S), high, index)
    PROVE  /\ Slide(Below(high, S), high, index)
                  = Below(Top(high, index), S \cup {index})
           /\ index \notin S
           /\ \A i \in S \cup {index} : i <= Top(high, index)
<1> DEFINE win == Below(high, S)
           top == Top(high, index)
<1>1. CASE index > high
  <2>1. top = index /\ index \notin S /\ \A i \in S \cup {index} : i <= top
    BY <1>1 DEF Top
  <2>2. ASSUME NEW d \in Bits, index - d \in S
        PROVE  d \in ShiftWindow(win, index - high)
    <3>1. d \in Int /\ d >= 0 /\ d < Window /\ Window \in Int
      BY WindowAssumption DEF Bits
    <3> DEFINE e == d - (index - high)
    <3>2. index - d <= high
      BY <2>2
    <3>3. e \in Bits /\ high - e = index - d
      BY <1>1, <3>1, <3>2 DEF Bits
    <3>4. e \in win /\ d = e + (index - high)
      BY <2>2, <3>1, <3>3 DEF Below
    <3>5. QED
      BY <3>4 DEF ShiftWindow
  <2>3. ASSUME NEW d \in ShiftWindow(win, index - high)
        PROVE  d \in Bits /\ index - d \in S
    <3>1. PICK e \in win : d = e + (index - high)
      BY DEF ShiftWindow
    <3>2. e \in Int /\ high - e \in S
      BY WindowAssumption DEF Below, Bits
    <3>3. index - d = high - e
      BY <3>1, <3>2
    <3>4. QED
      BY <3>2, <3>3 DEF ShiftWindow
  <2>4. ASSUME NEW d \in Bits
        PROVE  index - d \in {index} <=> d = 0
    BY WindowAssumption DEF Bits
  <2>5. 0 \in Bits
    BY WindowAssumption DEF Bits
  <2>6. ShiftWindow(win, index - high) \cup {0} = Below(index, S \cup {index})
    BY <2>2, <2>3, <2>4, <2>5 DEF Below
  <2>7. Slide(win, high, index) = ShiftWindow(win, index - high) \cup {0}
    BY <1>1 DEF Slide
  <2>8. QED
    BY <2>1, <2>6, <2>7
<1>2. CASE ~(index > high)
  <2>1. top = high /\ \A i \in S \cup {index} : i <= top
    BY <1>2 DEF Top
  <2>2. high - index \in Bits /\ high - index \notin win
    BY <1>2, WindowAssumption DEF Fresh, Bits
  <2>3. ASSUME NEW d \in Bits
        PROVE  high - d \in {index} <=> d = high - index
    BY WindowAssumption DEF Bits
  <2>4. index \notin S
    <3>1. high - (high - index) = index
      OBVIOUS
    <3>2. QED
      BY <2>2, <3>1 DEF Below
  <2>5. win \cup {high - index} = Below(high, S \cup {index})
    BY <2>2, <2>3 DEF Below
  <2>6. Slide(win, high, index) = win \cup {high - index}
    BY <1>2 DEF Slide
  <2>7. QED
    BY <2>1, <2>4, <2>5, <2>6
<1>3. QED
  BY <1>1, <1>2
=============================================================================
