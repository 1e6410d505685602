------------------------- MODULE PeripheralDriverProofs -------------------------
(***************************************************************************)
(* Theorems about PeripheralDriver, for every set of the drivers.          *)
(***************************************************************************)
EXTENDS PeripheralDriver, TLAPS

-----------------------------------------------------------------------------
(* The operations *)

P == Program[driver]

\* The operations differ in their names and their channels.
LEMMA Operations ==
  /\ \A c : /\ Drain(c).op = "drain" /\ Start(c).op = "start" /\ Await(c).op = "await"
            /\ Drain(c).chans = {c} /\ Start(c).chans = {c} /\ Await(c).chans = {c}
  /\ \A v : Abort(v).op = "abort" /\ Abort(v).chans = Both(v)
  /\ TimersOn.op = "timers_on" /\ TimersOff.op = "timers_off" /\ Compare.op = "compare"
BY DEF Drain, Start, Await, Abort, TimersOn, TimersOff, Compare

\* An operation on one channel tells which.
LEMMA OneChannel ==
  \A c, e : /\ Drain(c) = Drain(e) => c = e
            /\ Start(c) = Start(e) => c = e
            /\ Await(c) = Await(e) => c = e
BY DEF Drain, Start, Await

\* A channel is known by its device and its direction, an abort by its device.
LEMMA Channels ==
  /\ \A v, r : Chan(v, r).dev = v /\ Chan(v, r).dir = r
  /\ \A v, w : Abort(v) = Abort(w) => v = w
<1>1. \A v, r : Chan(v, r).dev = v /\ Chan(v, r).dir = r
  BY DEF Chan
<1>2. ASSUME NEW v, NEW w, Abort(v) = Abort(w) PROVE v = w
  <2>1. Both(v) = Both(w)
    BY <1>2, Operations
  <2>2. Chan(v, "rx") \in Both(v)
    BY DEF Both
  <2>3. Chan(v, "rx") = Chan(w, "rx") \/ Chan(v, "rx") = Chan(w, "tx")
    BY <2>1, <2>2 DEF Both
  <2> QED BY <2>3, <1>1
<1> QED BY <1>1, <1>2

-----------------------------------------------------------------------------
(* The programs are well made *)

\* What is at place n of the program.
Drains(n, c) == P[n] = Drain(c)
Starts(n, c) == P[n] = Start(c)
Awaits(n, c) == P[n] = Await(c)
Aborts(n, v) == P[n] = Abort(v)

Kinds ==
  \A n \in DOMAIN P :
    \/ \E c \in Started(driver) : P[n] = Start(c) \/ P[n] = Abort(c.dev)
    \/ \E c \in Awaited(driver) : P[n] = Drain(c) \/ P[n] = Await(c)
    \/ P[n] \in {TimersOn, TimersOff, Compare}

\* The comparison, and nothing else, is the last operation.
Final ==
  /\ Len(P) \in Nat \ {0} /\ DOMAIN P = 1..Len(P)
  /\ \A n \in DOMAIN P : P[n] = Compare <=> n = Len(P)

\* A call starts and awaits a channel once ...
Once ==
  \A c : \A n, m \in DOMAIN P : /\ Starts(n, c) /\ Starts(m, c) => n = m
                                /\ Awaits(n, c) /\ Awaits(m, c) => n = m

\* ... first the one and then the other, ...
StartedFirst ==
  \A c \in Awaited(driver) : \E n, m \in DOMAIN P : n < m /\ Starts(n, c) /\ Awaits(m, c)

\* ... and, where it drains, drains all before.
DrainedFirst ==
  driver \notin {"ADC", "TIM"} =>
    \A c \in Awaited(driver) :
      /\ \E n \in DOMAIN P : Drains(n, c)
      /\ \A n, m \in DOMAIN P : Drains(n, c) /\ (Starts(m, c) \/ Awaits(m, c)) => n < m

\* Channel c is reset before place n and not started between.
ResetAt(c, n) ==
  \E a \in DOMAIN P : /\ a < n /\ Aborts(a, c.dev)
                      /\ \A m \in DOMAIN P : a < m /\ m < n => ~Starts(m, c)

\* Before a start whatever could make the HAL busy is reset or, without aborts, waited for.
Readied ==
  \A n \in DOMAIN P : \A c, e \in Started(driver) :
    (Starts(n, c) /\ e.dev = c.dev /\ (driver = "UART" => e.dir = c.dir)) =>
      \/ ResetAt(e, n)
      \/ /\ driver \notin {"UART", "SPI"} /\ e \in Awaited(driver)
         /\ \A m \in DOMAIN P :
              m < n /\ Starts(m, e) => \E k \in DOMAIN P : k < n /\ Awaits(k, e)

\* The UART starts a receiver before its sender, and waits as soon as the sender is started.
LinkedLast ==
  driver = "UART" =>
    \A n \in DOMAIN P : \A c \in Started(driver) :
      Starts(n, c) =>
        IF c \in Awaited(driver) THEN \E e \in Ends(c) : ResetAt(e, n)
        ELSE \A e \in Ends(c) \cap Awaited(driver) : n + 1 \in DOMAIN P /\ Awaits(n + 1, e)

\* What an abort resets was waited for, if this call has started it.
AbortedIdle ==
  \A n \in DOMAIN P : \A c \in Awaited(driver) :
    Aborts(n, c.dev) =>
      \A m \in DOMAIN P : m < n /\ Starts(m, c) => \E k \in DOMAIN P : k < n /\ Awaits(k, c)

\* Only the timer driver has timers; those switched on are switched off, and at once after the wait.
TimersPaired ==
  /\ \A n \in DOMAIN P : P[n] = TimersOn => \E m \in DOMAIN P : n < m /\ P[m] = TimersOff
  /\ \A n \in DOMAIN P : P[n] \in {TimersOn, TimersOff} => driver = "TIM"
  /\ driver = "TIM" =>
       \A n \in DOMAIN P : \A c \in Awaited(driver) :
         Awaits(n, c) => n + 1 \in DOMAIN P /\ P[n + 1] = TimersOff

\* What runs on DMA streams is awaited, and the streams are those of its device.
Streamed ==
  \A c \in Started(driver) : /\ Streams(c) # {} => c \in Awaited(driver)
                             /\ \A s \in Streams(c) : s.dev = c.dev

\* The channels of an abort are those of its device.
ByDevice == \A c \in Started(driver) : c \in Both(c.dev)

WellMade ==
  /\ Kinds /\ Final /\ Once /\ StartedFirst /\ DrainedFirst /\ Readied /\ LinkedLast
  /\ AbortedIdle /\ TimersPaired /\ Streamed /\ ByDevice

\* UART_Test_Perform is well made.
LEMMA UartWellMade ==
  ASSUME driver = "UART" PROVE WellMade
<1> DEFINE rx4 == Chan("uart4", "rx")  tx4 == Chan("uart4", "tx")
           rx5 == Chan("uart5", "rx")  tx5 == Chan("uart5", "tx")
<1>1. /\ rx4.dev = "uart4" /\ rx4.dir = "rx" /\ tx4.dev = "uart4" /\ tx4.dir = "tx"
      /\ rx5.dev = "uart5" /\ rx5.dir = "rx" /\ tx5.dev = "uart5" /\ tx5.dir = "tx"
  BY Channels
<1> HIDE DEF rx4, tx4, rx5, tx5
<1>2. /\ DOMAIN P = 1..13 /\ Len(P) = 13 /\ P[1] = Drain(rx4) /\ P[2] = Drain(rx5)
      /\ P[3] = Abort("uart4") /\ P[4] = Abort("uart5") /\ P[5] = Start(rx5)
      /\ P[6] = Start(tx4) /\ P[7] = Await(rx5) /\ P[8] = Abort("uart4")
      /\ P[9] = Abort("uart5") /\ P[10] = Start(rx4) /\ P[11] = Start(tx5)
      /\ P[12] = Await(rx4) /\ P[13] = Compare
  BY DEF P, Program, UART_Test_Perform, rx4, tx4, rx5, tx5
<1>3. \A n \in 1..13 :
        /\ P[n].op = "start" <=> n \in {5, 6, 10, 11}
        /\ P[n].op = "await" <=> n \in {7, 12}
        /\ P[n].op = "drain" <=> n \in {1, 2}
  BY <1>2, Operations
<1>4. Started(driver) = {rx4, tx4, rx5, tx5} /\ Awaited(driver) = {rx4, rx5}
  <2>1. {n \in DOMAIN P : P[n].op = "start"} = {5, 6, 10, 11}
    BY <1>2, <1>3
  <2>2. {n \in DOMAIN P : P[n].op = "await"} = {7, 12}
    BY <1>2, <1>3
  <2>3. Started(driver) = {rx4, tx4, rx5, tx5}
    BY <1>2, <2>1, Operations DEF Started, Uses, P
  <2>4. Awaited(driver) = {rx4, rx5}
    BY <1>2, <2>2, Operations DEF Awaited, Uses, P
  <2> QED BY <2>3, <2>4
<1>5. ASSUME NEW n \in 1..13, NEW c, Starts(n, c)
      PROVE  \/ n = 5 /\ c = rx5
             \/ n = 6 /\ c = tx4
             \/ n = 10 /\ c = rx4
             \/ n = 11 /\ c = tx5
  <2>1. n \in {5, 6, 10, 11}
    BY <1>5, <1>3, Operations DEF Starts
  <2> QED BY <1>2, <1>5, <2>1, OneChannel DEF Starts
<1>6. ASSUME NEW n \in 1..13, NEW c, Awaits(n, c)
      PROVE  \/ n = 7 /\ c = rx5
             \/ n = 12 /\ c = rx4
  <2>1. n \in {7, 12}
    BY <1>6, <1>3, Operations DEF Awaits
  <2> QED BY <1>2, <1>6, <2>1, OneChannel DEF Awaits
<1>7. ASSUME NEW n \in 1..13, NEW c, Drains(n, c)
      PROVE  \/ n = 1 /\ c = rx4
             \/ n = 2 /\ c = rx5
  <2>1. n \in {1, 2}
    BY <1>7, <1>3, Operations DEF Drains
  <2> QED BY <1>2, <1>7, <2>1, OneChannel DEF Drains
<1>8. Kinds
  BY <1>1, <1>2, <1>4 DEF Kinds
<1>9. Final
  BY <1>2, Operations DEF Final
<1>10. Once
  BY <1>1, <1>2, <1>5, <1>6 DEF Once
<1>11. StartedFirst
  BY <1>1, <1>2, <1>4 DEF StartedFirst, Starts, Awaits
<1>12. DrainedFirst
  BY <1>1, <1>2, <1>4, <1>5, <1>6, <1>7 DEF DrainedFirst, Drains
<1>13. Readied
  BY <1>1, <1>2, <1>4, <1>5, <1>6 DEF Readied, ResetAt, Aborts, Awaits
<1>14. LinkedLast
  BY <1>1, <1>2, <1>4, <1>5, <1>6 DEF LinkedLast, ResetAt, Aborts, Awaits, Ends
<1>15. TimersPaired
  BY <1>2, Operations DEF TimersPaired
<1>16. ByDevice
  BY <1>1, <1>4 DEF ByDevice, Both, rx4, tx4, rx5, tx5
<1>17. \A n \in 1..13 : P[n].op = "abort" <=> n \in {3, 4, 8, 9}
  BY <1>2, Operations
<1>18. AbortedIdle
  <2> SUFFICES ASSUME NEW n \in 1..13, NEW c \in Awaited(driver), Aborts(n, c.dev),
                      NEW m \in 1..13, m < n, Starts(m, c)
               PROVE  \E k \in 1..13 : k < n /\ Awaits(k, c)
    BY <1>2 DEF AbortedIdle
  <2>1. n \in {3, 4, 8, 9}
    BY <1>17, Operations DEF Aborts
  <2> QED BY <1>1, <1>2, <1>4, <1>5, <2>1 DEF Awaits
<1>19. Streamed
  BY <1>1, <1>4, Channels DEF Streamed, Streams, Both
<1> QED BY <1>8, <1>9, <1>10, <1>11, <1>12, <1>13, <1>14, <1>15, <1>16, <1>18, <1>19
        DEF WellMade

\* SPI_Test_Perform is well made.
LEMMA SpiWellMade ==
  ASSUME driver = "SPI" PROVE WellMade
<1> DEFINE rx1 == Chan("spi1", "rx")  tx1 == Chan("spi1", "tx")
           rx4 == Chan("spi4", "rx")  tx4 == Chan("spi4", "tx")
<1>1. /\ rx1.dev = "spi1" /\ rx1.dir = "rx" /\ tx1.dev = "spi1" /\ tx1.dir = "tx"
      /\ rx4.dev = "spi4" /\ rx4.dir = "rx" /\ tx4.dev = "spi4" /\ tx4.dir = "tx"
  BY Channels
<1> HIDE DEF rx1, tx1, rx4, tx4
<1>2. /\ DOMAIN P = 1..17 /\ Len(P) = 17 /\ P[1] = Drain(tx1) /\ P[2] = Drain(rx4)
      /\ P[3] = Drain(tx4) /\ P[4] = Drain(rx1) /\ P[5] = Abort("spi1")
      /\ P[6] = Abort("spi4") /\ P[7] = Start(rx4) /\ P[8] = Start(tx1) /\ P[9] = Await(tx1)
      /\ P[10] = Await(rx4) /\ P[11] = Abort("spi1") /\ P[12] = Abort("spi4")
      /\ P[13] = Start(tx4) /\ P[14] = Start(rx1) /\ P[15] = Await(tx4)
      /\ P[16] = Await(rx1) /\ P[17] = Compare
  BY DEF P, Program, SPI_Test_Perform, rx1, tx1, rx4, tx4
<1>3. \A n \in 1..17 :
        /\ P[n].op = "start" <=> n \in {7, 8, 13, 14}
        /\ P[n].op = "await" <=> n \in {9, 10, 15, 16}
        /\ P[n].op = "drain" <=> n \in {1, 2, 3, 4}
  BY <1>2, Operations
<1>4. Started(driver) = {rx1, tx1, rx4, tx4} /\ Awaited(driver) = {rx1, tx1, rx4, tx4}
  <2>1. {n \in DOMAIN P : P[n].op = "start"} = {7, 8, 13, 14}
    BY <1>2, <1>3
  <2>2. {n \in DOMAIN P : P[n].op = "await"} = {9, 10, 15, 16}
    BY <1>2, <1>3
  <2>3. Started(driver) = {rx1, tx1, rx4, tx4}
    BY <1>2, <2>1, Operations DEF Started, Uses, P
  <2>4. Awaited(driver) = {rx1, tx1, rx4, tx4}
    BY <1>2, <2>2, Operations DEF Awaited, Uses, P
  <2> QED BY <2>3, <2>4
<1>5. ASSUME NEW n \in 1..17, NEW c, Starts(n, c)
      PROVE  \/ n = 7 /\ c = rx4
             \/ n = 8 /\ c = tx1
             \/ n = 13 /\ c = tx4
             \/ n = 14 /\ c = rx1
  <2>1. n \in {7, 8, 13, 14}
    BY <1>5, <1>3, Operations DEF Starts
  <2> QED BY <1>2, <1>5, <2>1, OneChannel DEF Starts
<1>6. ASSUME NEW n \in 1..17, NEW c, Awaits(n, c)
      PROVE  \/ n = 9 /\ c = tx1
             \/ n = 10 /\ c = rx4
             \/ n = 15 /\ c = tx4
             \/ n = 16 /\ c = rx1
  <2>1. n \in {9, 10, 15, 16}
    BY <1>6, <1>3, Operations DEF Awaits
  <2> QED BY <1>2, <1>6, <2>1, OneChannel DEF Awaits
<1>7. ASSUME NEW n \in 1..17, NEW c, Drains(n, c)
      PROVE  \/ n = 1 /\ c = tx1
             \/ n = 2 /\ c = rx4
             \/ n = 3 /\ c = tx4
             \/ n = 4 /\ c = rx1
  <2>1. n \in {1, 2, 3, 4}
    BY <1>7, <1>3, Operations DEF Drains
  <2> QED BY <1>2, <1>7, <2>1, OneChannel DEF Drains
<1>8. Kinds
  BY <1>1, <1>2, <1>4 DEF Kinds
<1>9. Final
  BY <1>2, Operations DEF Final
<1>10. Once
  BY <1>1, <1>2, <1>5, <1>6 DEF Once
<1>11. StartedFirst
  BY <1>1, <1>2, <1>4 DEF StartedFirst, Starts, Awaits
<1>12. DrainedFirst
  BY <1>1, <1>2, <1>4, <1>5, <1>6, <1>7 DEF DrainedFirst, Drains
<1>13. Readied
  BY <1>1, <1>2, <1>4, <1>5, <1>6 DEF Readied, ResetAt, Aborts, Awaits
<1>14. LinkedLast
  BY DEF LinkedLast
<1>15. TimersPaired
  BY <1>2, Operations DEF TimersPaired
<1>16. ByDevice
  BY <1>1, <1>4 DEF ByDevice, Both, rx1, tx1, rx4, tx4
<1>17. \A n \in 1..17 : P[n].op = "abort" <=> n \in {5, 6, 11, 12}
  BY <1>2, Operations
<1>18. AbortedIdle
  <2> SUFFICES ASSUME NEW n \in 1..17, NEW c \in Awaited(driver), Aborts(n, c.dev),
                      NEW m \in 1..17, m < n, Starts(m, c)
               PROVE  \E k \in 1..17 : k < n /\ Awaits(k, c)
    BY <1>2 DEF AbortedIdle
  <2>1. n \in {5, 6, 11, 12}
    BY <1>17, Operations DEF Aborts
  <2> QED BY <1>1, <1>2, <1>5, <2>1 DEF Awaits
<1>19. Streamed
  BY <1>1, <1>4, Channels DEF Streamed, Streams, Both
<1> QED BY <1>8, <1>9, <1>10, <1>11, <1>12, <1>13, <1>14, <1>15, <1>16, <1>18, <1>19
        DEF WellMade

\* I2C_Test_Perform is well made.
LEMMA I2cWellMade ==
  ASSUME driver = "I2C" PROVE WellMade
<1> DEFINE rx1 == Chan("i2c1", "rx")  tx1 == Chan("i2c1", "tx")
           rx2 == Chan("i2c2", "rx")  tx2 == Chan("i2c2", "tx")
<1>1. /\ rx1.dev = "i2c1" /\ rx1.dir = "rx" /\ tx1.dev = "i2c1" /\ tx1.dir = "tx"
      /\ rx2.dev = "i2c2" /\ rx2.dir = "rx" /\ tx2.dev = "i2c2" /\ tx2.dir = "tx"
  BY Channels
<1> HIDE DEF rx1, tx1, rx2, tx2
<1>2. /\ DOMAIN P = 1..13 /\ Len(P) = 13 /\ P[1] = Drain(tx1) /\ P[2] = Drain(rx1)
      /\ P[3] = Drain(tx2) /\ P[4] = Drain(rx2) /\ P[5] = Start(rx2) /\ P[6] = Start(tx1)
      /\ P[7] = Await(tx1) /\ P[8] = Await(rx2) /\ P[9] = Start(rx1) /\ P[10] = Start(tx2)
      /\ P[11] = Await(tx2) /\ P[12] = Await(rx1) /\ P[13] = Compare
  BY DEF P, Program, I2C_Test_Perform, rx1, tx1, rx2, tx2
<1>3. \A n \in 1..13 :
        /\ P[n].op = "start" <=> n \in {5, 6, 9, 10}
        /\ P[n].op = "await" <=> n \in {7, 8, 11, 12}
        /\ P[n].op = "drain" <=> n \in {1, 2, 3, 4}
  BY <1>2, Operations
<1>4. Started(driver) = {rx1, tx1, rx2, tx2} /\ Awaited(driver) = {rx1, tx1, rx2, tx2}
  <2>1. {n \in DOMAIN P : P[n].op = "start"} = {5, 6, 9, 10}
    BY <1>2, <1>3
  <2>2. {n \in DOMAIN P : P[n].op = "await"} = {7, 8, 11, 12}
    BY <1>2, <1>3
  <2>3. Started(driver) = {rx1, tx1, rx2, tx2}
    BY <1>2, <2>1, Operations DEF Started, Uses, P
  <2>4. Awaited(driver) = {rx1, tx1, rx2, tx2}
    BY <1>2, <2>2, Operations DEF Awaited, Uses, P
  <2> QED BY <2>3, <2>4
<1>5. ASSUME NEW n \in 1..13, NEW c, Starts(n, c)
      PROVE  \/ n = 5 /\ c = rx2
             \/ n = 6 /\ c = tx1
             \/ n = 9 /\ c = rx1
             \/ n = 10 /\ c = tx2
  <2>1. n \in {5, 6, 9, 10}
    BY <1>5, <1>3, Operations DEF Starts
  <2> QED BY <1>2, <1>5, <2>1, OneChannel DEF Starts
<1>6. ASSUME NEW n \in 1..13, NEW c, Awaits(n, c)
      PROVE  \/ n = 7 /\ c = tx1
             \/ n = 8 /\ c = rx2
             \/ n = 11 /\ c = tx2
             \/ n = 12 /\ c = rx1
  <2>1. n \in {7, 8, 11, 12}
    BY <1>6, <1>3, Operations DEF Awaits
  <2> QED BY <1>2, <1>6, <2>1, OneChannel DEF Awaits
<1>7. ASSUME NEW n \in 1..13, NEW c, Drains(n, c)
      PROVE  \/ n = 1 /\ c = tx1
             \/ n = 2 /\ c = rx1
             \/ n = 3 /\ c = tx2
             \/ n = 4 /\ c = rx2
  <2>1. n \in {1, 2, 3, 4}
    BY <1>7, <1>3, Operations DEF Drains
  <2> QED BY <1>2, <1>7, <2>1, OneChannel DEF Drains
<1>8. Kinds
  BY <1>1, <1>2, <1>4 DEF Kinds
<1>9. Final
  BY <1>2, Operations DEF Final
<1>10. Once
  BY <1>1, <1>2, <1>5, <1>6 DEF Once
<1>11. StartedFirst
  BY <1>1, <1>2, <1>4 DEF StartedFirst, Starts, Awaits
<1>12. DrainedFirst
  BY <1>1, <1>2, <1>4, <1>5, <1>6, <1>7 DEF DrainedFirst, Drains
<1>13. Readied
  BY <1>1, <1>2, <1>4, <1>5, <1>6 DEF Readied, ResetAt, Aborts, Awaits
<1>14. LinkedLast
  BY DEF LinkedLast
<1>15. TimersPaired
  BY <1>2, Operations DEF TimersPaired
<1>16. ByDevice
  BY <1>1, <1>4 DEF ByDevice, Both, rx1, tx1, rx2, tx2
<1>17. \A n \in 1..13 : P[n].op # "abort"
  BY <1>2, Operations
<1>18. AbortedIdle
  BY <1>2, <1>17, Operations DEF AbortedIdle, Aborts
<1>19. Streamed
  BY <1>1, <1>4, Channels DEF Streamed, Streams, Both
<1> QED BY <1>8, <1>9, <1>10, <1>11, <1>12, <1>13, <1>14, <1>15, <1>16, <1>18, <1>19
        DEF WellMade

\* ADC_Test_Perform is well made.
LEMMA AdcWellMade ==
  ASSUME driver = "ADC" PROVE WellMade
<1> DEFINE conversion == Chan("adc1", "rx")
<1>1. /\ conversion.dev = "adc1" /\ conversion.dir = "rx"
  BY Channels
<1> HIDE DEF conversion
<1>2. /\ DOMAIN P = 1..3 /\ Len(P) = 3 /\ P[1] = Start(conversion)
      /\ P[2] = Await(conversion) /\ P[3] = Compare
  BY DEF P, Program, ADC_Test_Perform, conversion
<1>3. \A n \in 1..3 :
        /\ P[n].op = "start" <=> n \in {1}
        /\ P[n].op = "await" <=> n \in {2}
        /\ P[n].op # "drain"
  BY <1>2, Operations
<1>4. Started(driver) = {conversion} /\ Awaited(driver) = {conversion}
  <2>1. {n \in DOMAIN P : P[n].op = "start"} = {1}
    BY <1>2, <1>3
  <2>2. {n \in DOMAIN P : P[n].op = "await"} = {2}
    BY <1>2, <1>3
  <2>3. Started(driver) = {conversion}
    BY <1>2, <2>1, Operations DEF Started, Uses, P
  <2>4. Awaited(driver) = {conversion}
    BY <1>2, <2>2, Operations DEF Awaited, Uses, P
  <2> QED BY <2>3, <2>4
<1>5. ASSUME NEW n \in 1..3, NEW c, Starts(n, c)
      PROVE  n = 1 /\ c = conversion
  <2>1. n \in {1}
    BY <1>5, <1>3, Operations DEF Starts
  <2> QED BY <1>2, <1>5, <2>1, OneChannel DEF Starts
<1>6. ASSUME NEW n \in 1..3, NEW c, Awaits(n, c)
      PROVE  n = 2 /\ c = conversion
  <2>1. n \in {2}
    BY <1>6, <1>3, Operations DEF Awaits
  <2> QED BY <1>2, <1>6, <2>1, OneChannel DEF Awaits
<1>7. Kinds
  BY <1>1, <1>2, <1>4 DEF Kinds
<1>8. Final
  BY <1>2, Operations DEF Final
<1>9. Once
  BY <1>2, <1>5, <1>6 DEF Once
<1>10. StartedFirst
  BY <1>1, <1>2, <1>4 DEF StartedFirst, Starts, Awaits
<1>11. DrainedFirst
  BY DEF DrainedFirst
<1>12. Readied
  BY <1>1, <1>2, <1>4, <1>5, <1>6 DEF Readied, ResetAt, Aborts, Awaits
<1>13. LinkedLast
  BY DEF LinkedLast
<1>14. TimersPaired
  BY <1>2, Operations DEF TimersPaired
<1>15. ByDevice
  BY <1>1, <1>4 DEF ByDevice, Both, conversion
<1>16. \A n \in 1..3 : P[n].op # "abort"
  BY <1>2, Operations
<1>17. AbortedIdle
  BY <1>2, <1>16, Operations DEF AbortedIdle, Aborts
<1>18. Streamed
  BY <1>1, <1>4, Channels DEF Streamed, Streams, Both
<1> QED BY <1>7, <1>8, <1>9, <1>10, <1>11, <1>12, <1>13, <1>14, <1>15, <1>17, <1>18
        DEF WellMade

\* TIM_Test_Perform is well made.
LEMMA TimWellMade ==
  ASSUME driver = "TIM" PROVE WellMade
<1> DEFINE sampling == Chan("tim6_dma", "rx")
<1>1. /\ sampling.dev = "tim6_dma" /\ sampling.dir = "rx"
  BY Channels
<1> HIDE DEF sampling
<1>2. /\ DOMAIN P = 1..5 /\ Len(P) = 5 /\ P[1] = TimersOn /\ P[2] = Start(sampling)
      /\ P[3] = Await(sampling) /\ P[4] = TimersOff /\ P[5] = Compare
  BY DEF P, Program, TIM_Test_Perform, sampling
<1>3. \A n \in 1..5 :
        /\ P[n].op = "start" <=> n \in {2}
        /\ P[n].op = "await" <=> n \in {3}
        /\ P[n].op # "drain"
  BY <1>2, Operations
<1>4. Started(driver) = {sampling} /\ Awaited(driver) = {sampling}
  <2>1. {n \in DOMAIN P : P[n].op = "start"} = {2}
    BY <1>2, <1>3
  <2>2. {n \in DOMAIN P : P[n].op = "await"} = {3}
    BY <1>2, <1>3
  <2>3. Started(driver) = {sampling}
    BY <1>2, <2>1, Operations DEF Started, Uses, P
  <2>4. Awaited(driver) = {sampling}
    BY <1>2, <2>2, Operations DEF Awaited, Uses, P
  <2> QED BY <2>3, <2>4
<1>5. ASSUME NEW n \in 1..5, NEW c, Starts(n, c)
      PROVE  n = 2 /\ c = sampling
  <2>1. n \in {2}
    BY <1>5, <1>3, Operations DEF Starts
  <2> QED BY <1>2, <1>5, <2>1, OneChannel DEF Starts
<1>6. ASSUME NEW n \in 1..5, NEW c, Awaits(n, c)
      PROVE  n = 3 /\ c = sampling
  <2>1. n \in {3}
    BY <1>6, <1>3, Operations DEF Awaits
  <2> QED BY <1>2, <1>6, <2>1, OneChannel DEF Awaits
<1>7. Kinds
  BY <1>1, <1>2, <1>4 DEF Kinds
<1>8. Final
  BY <1>2, Operations DEF Final
<1>9. Once
  BY <1>2, <1>5, <1>6 DEF Once
<1>10. StartedFirst
  BY <1>1, <1>2, <1>4 DEF StartedFirst, Starts, Awaits
<1>11. DrainedFirst
  BY DEF DrainedFirst
<1>12. Readied
  BY <1>1, <1>2, <1>4, <1>5, <1>6 DEF Readied, ResetAt, Aborts, Awaits
<1>13. LinkedLast
  BY DEF LinkedLast
<1>14. TimersPaired
  BY <1>1, <1>2, <1>6, Operations DEF TimersPaired
<1>15. ByDevice
  BY <1>1, <1>4 DEF ByDevice, Both, sampling
<1>16. \A n \in 1..5 : P[n].op # "abort"
  BY <1>2, Operations
<1>17. AbortedIdle
  BY <1>2, <1>16, Operations DEF AbortedIdle, Aborts
<1>18. Streamed
  BY <1>1, <1>4, Channels DEF Streamed, Streams, Both
<1> QED BY <1>7, <1>8, <1>9, <1>10, <1>11, <1>12, <1>13, <1>14, <1>15, <1>17, <1>18
        DEF WellMade

\* Each program is well made.
LEMMA ProgramWellMade == driver \in Driver => WellMade
BY DriverAssumption, UartWellMade, SpiWellMade, I2cWellMade, AdcWellMade, TimWellMade

-----------------------------------------------------------------------------
(* The inductive invariant *)

\* What the running call has behind it; between calls, nothing.
HasStarted(c) == \E n \in DOMAIN P : n < pc /\ Starts(n, c)
HasAwaited(c) == \E n \in DOMAIN P : n < pc /\ Awaits(n, c)
HasReset(c) == ResetAt(c, pc)

\* What is still to come.
ToDrain(c) == \E n \in DOMAIN P : pc <= n /\ Drains(n, c)
ToStop == \E n \in DOMAIN P : pc <= n /\ P[n] = TimersOff

\* Started by the call and not yet waited for.
Outstanding(c) == HasStarted(c) /\ ~HasAwaited(c)

\* A call that runs has no result yet, but for the timer driver about to stop its timers after a
\* timeout. It has started what its program says; what has completed is over, as it is started once.
HistoryInv ==
  /\ pc # 0 => /\ result = "none" \/ (result = "timeout" /\ disturbed /\ P[pc] = TimersOff)
               /\ \A c \in Started(driver) : c \in mine <=> HasStarted(c)
  /\ \A c \in done : transfer[c] = "none"

\* After its drain a semaphore tells of a transfer of this call.
DrainedInv ==
  (pc # 0 /\ driver \notin {"ADC", "TIM"} /\ ~late) =>
    \A c \in Awaited(driver) : (~ToDrain(c) /\ token[c] = 1) \/ HasAwaited(c) => c \in done

\* As long as no call was refused or timed out, what is not outstanding is clean.
UndisturbedInv ==
  ~disturbed =>
    /\ ~halted /\ hung = {}
    /\ \A c \in Awaited(driver) :
         /\ token[c] = 1 => transfer[c] = "none" /\ c \in done
         /\ ~Outstanding(c) => token[c] = 0 /\ transfer[c] = "none"
         /\ HasAwaited(c) => c \in done

\* An abort could not stop a stream of the device.
Hung(v) == \E s \in hung : s.dev = v

\* What is reset and not started is idle, but where a stream of the device has hung not always ready.
ResetInv ==
  \A c \in Started(driver) :
    HasReset(c) => ~Live(c) /\ (transfer[c] = "none" \/ Hung(c.dev))

\* The UART can complete a transfer whose semaphore is full only while it waits for it, and
\* only after an old transfer was late.
HaltInv ==
  /\ driver \in {"UART", "SPI"} /\ halted => late
  /\ driver = "UART" =>
       \A c \in Awaited(driver) :
         transfer[c] = "running" /\ token[c] = 1 => late /\ pc \in DOMAIN P /\ Awaits(pc, c)

\* The timers that run are stopped further on.
TimersInv == timersOn => driver = "TIM" /\ ToStop /\ (pc = 0 => result = "refused")

IInv ==
  /\ TypeOK /\ HistoryInv /\ DrainedInv /\ UndisturbedInv /\ ResetInv /\ HaltInv /\ TimersInv
  /\ SuccessIsEarned

-----------------------------------------------------------------------------
(* Where the task is *)

\* The operation the task is at is the one the guard names, and no other.
LEMMA AtOperation ==
  ASSUME TypeOK, WellMade, pc # 0
  PROVE  /\ pc \in DOMAIN P /\ pc \in Nat /\ pc <= Len(P) /\ Step = P[pc]
         /\ \A c : Starts(pc, c) =>
              /\ c \in Started(driver) /\ Step.op = "start" /\ Step.chans = {c}
         /\ \A c : Awaits(pc, c) => Step.op = "await" /\ Step.chans = {c}
         /\ \A c : Drains(pc, c) => Step.op = "drain" /\ Step.chans = {c}
         /\ \A v : Aborts(pc, v) => Step.op = "abort" /\ Step.chans = Both(v)
         /\ Step.op = "start" => \E c : Starts(pc, c)
         /\ Step.op = "await" => \E c : Awaits(pc, c)
         /\ Step.op = "drain" => \E c : Drains(pc, c)
         /\ Step.op = "abort" => \E v : Aborts(pc, v)
         /\ Step.op = "timers_on" <=> P[pc] = TimersOn
         /\ Step.op = "timers_off" <=> P[pc] = TimersOff
         /\ Step.op = "compare" <=> P[pc] = Compare
         /\ P[pc] = Compare <=> pc = Len(P)
<1>1. pc \in DOMAIN P /\ pc \in Nat /\ pc <= Len(P) /\ (P[pc] = Compare <=> pc = Len(P))
  BY DEF TypeOK, WellMade, Final, P
<1>2. Step = P[pc]
  BY DEF Step, P
<1>3. \/ \E c : Starts(pc, c) \/ Awaits(pc, c) \/ Drains(pc, c) \/ Aborts(pc, c)
      \/ P[pc] \in {TimersOn, TimersOff, Compare}
  BY <1>1 DEF WellMade, Kinds, Starts, Awaits, Drains, Aborts
<1>4. /\ \A c : /\ Starts(pc, c) => P[pc].op = "start" /\ P[pc].chans = {c}
                /\ Awaits(pc, c) => P[pc].op = "await" /\ P[pc].chans = {c}
                /\ Drains(pc, c) => P[pc].op = "drain" /\ P[pc].chans = {c}
                /\ Aborts(pc, c) => P[pc].op = "abort" /\ P[pc].chans = Both(c)
      /\ P[pc] = TimersOn => P[pc].op = "timers_on"
      /\ P[pc] = TimersOff => P[pc].op = "timers_off"
      /\ P[pc] = Compare => P[pc].op = "compare"
  BY Operations DEF Starts, Awaits, Drains, Aborts
<1>5. ASSUME NEW c, Starts(pc, c) PROVE c \in Started(driver)
  BY <1>1, <1>4, <1>5 DEF Started, Uses, P
<1> QED BY <1>1, <1>2, <1>3, <1>4, <1>5

\* A channel that is awaited is started, too.
LEMMA AwaitedStarted ==
  ASSUME WellMade PROVE Awaited(driver) \subseteq Started(driver)
<1> SUFFICES ASSUME NEW c \in Awaited(driver) PROVE c \in Started(driver)
  OBVIOUS
<1>1. PICK n \in DOMAIN P : Starts(n, c)
  BY DEF WellMade, StartedFirst
<1>2. P[n].op = "start" /\ P[n].chans = {c}
  BY <1>1, Operations DEF Starts
<1> QED BY <1>1, <1>2 DEF Started, Uses, P

\* The interrupts' view of the drains.
LEMMA DrainedOrNot ==
  ASSUME TypeOK, WellMade, NEW c PROVE Drained(c) <=> pc # 0 /\ ~ToDrain(c)
BY DEF Drained, ToDrain, Drains, TypeOK, WellMade, Final, P

-----------------------------------------------------------------------------
(* What a step does to what lies behind and ahead *)

\* The driver stays, and with it the program and its channels.
SameProgram == P' = P /\ Started(driver)' = Started(driver) /\ Awaited(driver)' = Awaited(driver)

\* No step but the first chooses the driver.
LEMMA DriverStays == driver' = driver => SameProgram
BY DEF SameProgram, P, Started, Awaited, Uses

\* The task goes on to the next operation.
LEMMA Advanced ==
  ASSUME TypeOK, WellMade, pc # 0, pc # Len(P), Advance, driver' = driver
  PROVE  /\ pc' = pc + 1 /\ pc' \in DOMAIN P /\ pc' # 0
         /\ \A c : HasStarted(c)' <=> HasStarted(c) \/ Starts(pc, c)
         /\ \A c : HasAwaited(c)' <=> HasAwaited(c) \/ Awaits(pc, c)
         /\ \A c : ToDrain(c) <=> ToDrain(c)' \/ Drains(pc, c)
         /\ \A c : HasReset(c)' => Aborts(pc, c.dev) \/ (HasReset(c) /\ ~Starts(pc, c))
         /\ ToStop => ToStop' \/ P[pc] = TimersOff
<1>1. SameProgram
  BY DriverStays
<1>2. /\ pc \in DOMAIN P /\ pc \in Nat /\ pc' = pc + 1 /\ pc' \in DOMAIN P /\ pc' # 0
      /\ DOMAIN P \subseteq Nat
  BY AtOperation DEF Advance, WellMade, Final
<1>3. \A n \in DOMAIN P : n < pc' <=> n < pc \/ n = pc
  BY <1>2
<1>4. \A n \in DOMAIN P : pc <= n <=> pc' <= n \/ n = pc
  BY <1>2
<1>5. \A c : HasStarted(c)' <=> HasStarted(c) \/ Starts(pc, c)
  BY <1>1, <1>2, <1>3 DEF SameProgram, HasStarted, Starts
<1>6. \A c : HasAwaited(c)' <=> HasAwaited(c) \/ Awaits(pc, c)
  BY <1>1, <1>2, <1>3 DEF SameProgram, HasAwaited, Awaits
<1>7. \A c : ToDrain(c) <=> ToDrain(c)' \/ Drains(pc, c)
  BY <1>1, <1>2, <1>4 DEF SameProgram, ToDrain, Drains
<1>8. ASSUME NEW c, HasReset(c)' PROVE Aborts(pc, c.dev) \/ (HasReset(c) /\ ~Starts(pc, c))
  BY <1>1, <1>2, <1>3, <1>8 DEF SameProgram, HasReset, ResetAt, Aborts, Starts
<1>9. ToStop => ToStop' \/ P[pc] = TimersOff
  BY <1>1, <1>4 DEF SameProgram, ToStop
<1> QED BY <1>2, <1>5, <1>6, <1>7, <1>8, <1>9

\* The call is over.
LEMMA Left ==
  ASSUME TypeOK, WellMade, pc' = 0, driver' = driver
  PROVE  /\ \A c : ~HasStarted(c)' /\ ~HasAwaited(c)' /\ ~HasReset(c)'
         /\ ToStop => ToStop'
<1>1. SameProgram
  BY DriverStays
<1>2. \A n \in DOMAIN P : n \in Nat /\ ~(n < pc') /\ pc' <= n
  BY DEF WellMade, Final
<1>3. \A c : ~HasStarted(c)' /\ ~HasAwaited(c)'
  BY <1>1, <1>2 DEF SameProgram, HasStarted, HasAwaited
<1>4. \A c : ~HasReset(c)'
  BY <1>1, <1>2 DEF SameProgram, HasReset, ResetAt
<1>5. ToStop => ToStop'
  BY <1>1, <1>2 DEF SameProgram, ToStop
<1> QED BY <1>3, <1>4, <1>5

\* An interrupt leaves the task where it is.
LEMMA Stayed ==
  ASSUME pc' = pc, driver' = driver
  PROVE  /\ \A c : /\ HasStarted(c)' <=> HasStarted(c)
                   /\ HasAwaited(c)' <=> HasAwaited(c)
                   /\ ToDrain(c)' <=> ToDrain(c)
                   /\ HasReset(c)' <=> HasReset(c)
         /\ ToStop' <=> ToStop
         /\ \A n, c : Awaits(n, c)' <=> Awaits(n, c)
<1>1. SameProgram
  BY DriverStays
<1> QED BY <1>1 DEF SameProgram, HasStarted, HasAwaited, ToDrain, HasReset, ResetAt, ToStop,
                    Starts, Awaits, Drains, Aborts

-----------------------------------------------------------------------------
(* Every step keeps the invariant *)

\* Call.
LEMMA CallKeeps == ASSUME IInv, WellMade, Call PROVE IInv'
<1>1. /\ pc = 0 /\ pc' = 1 /\ result' = "none" /\ mine' = {} /\ done' = {} /\ late' = FALSE
      /\ ~halted
      /\ UNCHANGED <<driver, transfer, hung, token, timersOn, halted, disturbed>>
  BY DEF Call
<1>2. SameProgram
  BY <1>1, DriverStays
<1>3. TypeOK /\ HistoryInv /\ UndisturbedInv /\ HaltInv /\ TimersInv
  BY DEF IInv
<1>4. Len(P) \in Nat \ {0} /\ DOMAIN P = 1..Len(P)
  BY DEF WellMade, Final
<1>5. /\ \A c : ~HasStarted(c) /\ ~HasAwaited(c)
      /\ \A c : ~HasStarted(c)' /\ ~HasAwaited(c)' /\ ~HasReset(c)'
      /\ \A c : ToDrain(c)' <=> \E n \in DOMAIN P : Drains(n, c)
      /\ ToStop => ToStop'
  BY <1>1, <1>2, <1>4 DEF SameProgram, HasStarted, HasAwaited, HasReset, ResetAt, ToDrain, ToStop,
                          Drains
<1>6. TypeOK'
  <2>1. pc' \in 0..Len(P)
    BY <1>1, <1>4
  <2> QED BY <1>1, <1>2, <1>3, <2>1 DEF TypeOK, SameProgram, P
<1>7. HistoryInv'
  BY <1>1, <1>2, <1>5 DEF HistoryInv, SameProgram
<1>8. DrainedInv'
  BY <1>1, <1>2, <1>5 DEF DrainedInv, SameProgram, WellMade, DrainedFirst
<1>9. UndisturbedInv'
  BY <1>1, <1>2, <1>3, <1>5 DEF UndisturbedInv, SameProgram, Outstanding
<1>10. ResetInv'
  BY <1>1, <1>2, <1>5 DEF ResetInv, SameProgram
<1>11. HaltInv'
  BY <1>1, <1>2, <1>3, <1>4 DEF HaltInv, SameProgram
<1>12. TimersInv'
  BY <1>1, <1>3, <1>5 DEF TimersInv
<1>13. SuccessIsEarned'
  BY <1>1 DEF SuccessIsEarned
<1> QED BY <1>6, <1>7, <1>8, <1>9, <1>10, <1>11, <1>12, <1>13 DEF IInv

\* DrainSemaphore.
LEMMA DrainKeeps == ASSUME IInv, WellMade, DrainSemaphore PROVE IInv'
<1>1. /\ pc # 0 /\ ~halted /\ Step.op = "drain" /\ Advance
      /\ token' = [c \in DOMAIN token |-> IF c \in Step.chans THEN 0 ELSE token[c]]
      /\ UNCHANGED <<driver, transfer, hung, timersOn, halted, result, mine, done, late, disturbed>>
  BY DEF DrainSemaphore, At
<1>2. SameProgram
  BY <1>1, DriverStays
<1>3. /\ TypeOK /\ HistoryInv /\ DrainedInv /\ UndisturbedInv /\ ResetInv /\ HaltInv /\ TimersInv
      /\ token \in [Awaited(driver) -> {0, 1}]
  BY DEF IInv, TypeOK
<1>4. PICK c0 : Drains(pc, c0) /\ Step.chans = {c0}
  BY <1>1, <1>3, AtOperation
<1>5. /\ \A c : ~Starts(pc, c) /\ ~Awaits(pc, c) /\ ~Aborts(pc, c)
      /\ \A c : Drains(pc, c) <=> c = c0
      /\ pc # Len(P) /\ P[pc] # TimersOff
  BY <1>1, <1>3, <1>4, AtOperation, OneChannel DEF Drains
<1>6. /\ pc' # 0 /\ pc' \in DOMAIN P
      /\ \A c : HasStarted(c)' <=> HasStarted(c)
      /\ \A c : HasAwaited(c)' <=> HasAwaited(c)
      /\ \A c : ToDrain(c) <=> ToDrain(c)' \/ c = c0
      /\ \A c : HasReset(c)' => HasReset(c)
      /\ ToStop => ToStop'
  BY <1>1, <1>3, <1>5, Advanced
<1>7. \A c \in Awaited(driver) : token'[c] = IF c = c0 THEN 0 ELSE token[c]
  BY <1>1, <1>3, <1>4
<1>8. TypeOK'
  BY <1>1, <1>2, <1>3, <1>6 DEF TypeOK, SameProgram, P, WellMade, Final
<1>9. HistoryInv'
  BY <1>1, <1>2, <1>3, <1>5, <1>6 DEF HistoryInv, SameProgram
<1>10. DrainedInv'
  BY <1>1, <1>2, <1>3, <1>6, <1>7 DEF DrainedInv, SameProgram
<1>11. UndisturbedInv'
  BY <1>1, <1>2, <1>3, <1>6, <1>7 DEF UndisturbedInv, SameProgram, Outstanding
<1>12. ResetInv'
  BY <1>1, <1>2, <1>3, <1>6 DEF ResetInv, SameProgram, Live, Hung
<1>13. HaltInv'
  BY <1>1, <1>2, <1>3, <1>5, <1>7 DEF HaltInv, SameProgram
<1>14. TimersInv'
  BY <1>1, <1>3, <1>6 DEF TimersInv
<1>15. SuccessIsEarned'
  BY <1>1, <1>3 DEF SuccessIsEarned, HistoryInv
<1> QED BY <1>8, <1>9, <1>10, <1>11, <1>12, <1>13, <1>14, <1>15 DEF IInv

\* AbortDevice.
LEMMA AbortKeeps == ASSUME IInv, WellMade, AbortDevice PROVE IInv'
<1> DEFINE streams == {s \in Started(driver) : \E c \in Step.chans \cap Started(driver) :
                                               Live(c) /\ s \in Streams(c)}
<1>1. /\ pc # 0 /\ ~halted /\ Step.op = "abort" /\ Advance
      /\ UNCHANGED <<driver, token, timersOn, halted, result, mine, done, late, disturbed>>
  BY DEF AbortDevice, At
<1>2. PICK stuck \in SUBSET streams :
        /\ hung' = hung \cup stuck
        /\ transfer' = [c \in DOMAIN transfer |->
                          IF c \notin Step.chans THEN transfer[c]
                          ELSE IF driver = "UART" /\ stuck # {} /\ transfer[c] # "none"
                          THEN "abandoned" ELSE "none"]
  BY DEF AbortDevice
<1>3. SameProgram
  BY <1>1, DriverStays
<1>4. /\ TypeOK /\ HistoryInv /\ DrainedInv /\ UndisturbedInv /\ ResetInv /\ HaltInv /\ TimersInv
      /\ transfer \in [Started(driver) -> {"none", "armed", "running", "abandoned"}]
      /\ done \subseteq Started(driver) /\ hung \subseteq Started(driver)
  BY DEF IInv, TypeOK
<1>5. PICK v : Aborts(pc, v) /\ Step.chans = Both(v)
  BY <1>1, <1>4, AtOperation
<1>6. /\ \A c : ~Starts(pc, c) /\ ~Awaits(pc, c) /\ ~Drains(pc, c)
      /\ \A w : Aborts(pc, w) <=> w = v
      /\ pc # Len(P) /\ P[pc] # TimersOff /\ pc \in DOMAIN P
  BY <1>1, <1>4, <1>5, AtOperation, Channels DEF Aborts
<1>7. /\ pc' # 0 /\ pc' \in DOMAIN P
      /\ \A c : HasStarted(c)' <=> HasStarted(c)
      /\ \A c : HasAwaited(c)' <=> HasAwaited(c)
      /\ \A c : ToDrain(c) <=> ToDrain(c)'
      /\ \A c : HasReset(c)' => HasReset(c) \/ c.dev = v
      /\ ToStop => ToStop'
  BY <1>1, <1>4, <1>6, Advanced
<1>8. \A c \in Started(driver) : c \in Both(v) <=> c.dev = v
  BY Channels DEF WellMade, ByDevice, Both
<1>9. /\ \A c \in Started(driver) : c.dev # v => transfer'[c] = transfer[c]
      /\ \A c \in Started(driver) :
           c.dev = v => transfer'[c] = "none" \/ (stuck # {} /\ transfer'[c] = "abandoned")
      /\ \A c \in Started(driver) : transfer[c] = "none" => transfer'[c] = "none"
      /\ transfer' \in [Started(driver) -> {"none", "armed", "running", "abandoned"}]
  BY <1>2, <1>4, <1>5, <1>8
<1>10. /\ stuck \subseteq Started(driver) /\ hung \subseteq hung'
       /\ \A s \in stuck : /\ s.dev = v /\ s \in hung'
                           /\ \E c \in Started(driver) :
                                c.dev = v /\ Live(c) /\ c \in Awaited(driver)
  BY <1>2, <1>5, <1>8 DEF WellMade, Streamed
<1>11. Awaited(driver) \subseteq Started(driver)
  BY AwaitedStarted
<1>12. ~disturbed => stuck = {}
  <2> SUFFICES ASSUME ~disturbed, NEW s \in stuck PROVE FALSE
    OBVIOUS
  <2>1. PICK c \in Awaited(driver) : c.dev = v /\ Live(c)
    BY <1>10
  <2>2. ~Outstanding(c)
    BY <1>5, <1>6, <2>1 DEF WellMade, AbortedIdle, Outstanding, HasStarted, HasAwaited
  <2> QED BY <1>4, <2>1, <2>2 DEF UndisturbedInv, Live
<1>13. TypeOK'
  <2>1. hung' \subseteq Started(driver)
    BY <1>2, <1>4, <1>10
  <2> QED BY <1>1, <1>3, <1>4, <1>7, <1>9, <2>1 DEF TypeOK, SameProgram, P, WellMade, Final
<1>14. HistoryInv'
  BY <1>1, <1>3, <1>4, <1>6, <1>7, <1>9 DEF HistoryInv, SameProgram
<1>15. DrainedInv'
  BY <1>1, <1>3, <1>4, <1>7 DEF DrainedInv, SameProgram
<1>16. UndisturbedInv'
  BY <1>1, <1>2, <1>3, <1>4, <1>7, <1>9, <1>11, <1>12
     DEF UndisturbedInv, SameProgram, Outstanding
<1>17. ResetInv'
  <2> SUFFICES ASSUME NEW c \in Started(driver), HasReset(c)'
               PROVE  Live(c)' = FALSE /\ (transfer'[c] = "none" \/ Hung(c.dev)')
    BY <1>3 DEF ResetInv, SameProgram
  <2>1. CASE c.dev = v
    BY <1>9, <1>10, <2>1 DEF Live, Hung
  <2>2. CASE c.dev # v
    BY <1>4, <1>7, <1>9, <1>10, <2>2 DEF ResetInv, Live, Hung
  <2> QED BY <2>1, <2>2
<1>18. HaltInv'
  <2> SUFFICES ASSUME driver = "UART", NEW c \in Awaited(driver), transfer'[c] = "running",
                      token[c] = 1
               PROVE  FALSE
    BY <1>1, <1>3, <1>4 DEF HaltInv, SameProgram
  <2> QED BY <1>4, <1>6, <1>9, <1>11 DEF HaltInv
<1>19. TimersInv'
  BY <1>1, <1>4, <1>7 DEF TimersInv
<1>20. SuccessIsEarned'
  BY <1>1, <1>4 DEF SuccessIsEarned, HistoryInv
<1> QED BY <1>13, <1>14, <1>15, <1>16, <1>17, <1>18, <1>19, <1>20 DEF IInv

\* StartTransfer.
LEMMA StartKeeps ==
  ASSUME IInv, WellMade, NEW c \in Started(driver), StartTransfer(c) PROVE IInv'
<1> DEFINE linked == \A d \in Ends(c) : Live(d)
<1>1. /\ pc # 0 /\ ~halted /\ Step.op = "start" /\ c \in Step.chans /\ ~Busy(c) /\ Advance
      /\ transfer' = [d \in DOMAIN transfer |->
                        IF d = c THEN IF linked THEN "running" ELSE "armed"
                        ELSE IF linked /\ d \in Ends(c) THEN "running" ELSE transfer[d]]
      /\ mine' = mine \cup {c}
      /\ UNCHANGED <<driver, hung, token, timersOn, halted, result, done, late, disturbed>>
  BY DEF StartTransfer, AtChan, At
<1>2. SameProgram
  BY <1>1, DriverStays
<1>3. /\ TypeOK /\ HistoryInv /\ DrainedInv /\ UndisturbedInv /\ ResetInv /\ HaltInv /\ TimersInv
      /\ transfer \in [Started(driver) -> {"none", "armed", "running", "abandoned"}]
      /\ done \subseteq mine /\ mine \subseteq Started(driver)
  BY DEF IInv, TypeOK
<1>4. Starts(pc, c) /\ pc \in DOMAIN P
  BY <1>1, <1>3, AtOperation
<1>5. /\ \A e : ~Awaits(pc, e) /\ ~Drains(pc, e) /\ ~Aborts(pc, e)
      /\ \A e : Starts(pc, e) <=> e = c
      /\ pc # Len(P) /\ P[pc] # TimersOff
  BY <1>1, <1>3, <1>4, AtOperation, OneChannel DEF Starts
<1>6. /\ pc' # 0 /\ pc' \in DOMAIN P /\ pc' = pc + 1
      /\ \A e : HasStarted(e)' <=> HasStarted(e) \/ e = c
      /\ \A e : HasAwaited(e)' <=> HasAwaited(e)
      /\ \A e : ToDrain(e) <=> ToDrain(e)'
      /\ \A e : HasReset(e)' => HasReset(e) /\ e # c
      /\ ToStop => ToStop'
  BY <1>1, <1>3, <1>5, Advanced
<1>7. /\ \A e \in Started(driver) : e # c => transfer'[e] = transfer[e]
                                             \/ (linked /\ e \in Ends(c) /\ transfer'[e] = "running")
      /\ transfer'[c] = IF linked THEN "running" ELSE "armed"
      /\ transfer' \in [Started(driver) -> {"none", "armed", "running", "abandoned"}]
  BY <1>1, <1>3
<1> HIDE DEF linked
<1>8. \A e \in Started(driver) : e # c /\ ~Live(e) => transfer'[e] = transfer[e]
  BY <1>7 DEF linked
<1>9. ~HasStarted(c)
  BY <1>3, <1>4 DEF HasStarted, WellMade, Once, Final, TypeOK
<1>10. ~HasAwaited(c) \/ c \notin Awaited(driver)
  <2> SUFFICES ASSUME c \in Awaited(driver), HasAwaited(c) PROVE FALSE
    OBVIOUS
  <2>1. PICK m \in DOMAIN P : m < pc /\ Awaits(m, c)
    BY DEF HasAwaited
  <2>2. PICK n \in DOMAIN P, k \in DOMAIN P : n < k /\ Starts(n, c) /\ Awaits(k, c)
    BY DEF WellMade, StartedFirst
  <2>3. n = pc /\ k = m
    BY <1>4, <2>1, <2>2 DEF WellMade, Once
  <2> QED BY <2>1, <2>2, <2>3, <1>4 DEF WellMade, Final
<1>11. Awaited(driver) \subseteq Started(driver)
  BY AwaitedStarted
<1>12. c \notin done /\ c \notin mine
  BY <1>1, <1>3, <1>9 DEF HistoryInv
<1>13. TypeOK'
  BY <1>1, <1>2, <1>3, <1>6, <1>7 DEF TypeOK, SameProgram, P, WellMade, Final
<1>14. HistoryInv'
  BY <1>1, <1>2, <1>3, <1>5, <1>6, <1>8, <1>12 DEF HistoryInv, SameProgram, Live
<1>15. DrainedInv'
  BY <1>1, <1>2, <1>3, <1>6 DEF DrainedInv, SameProgram
<1>16. UndisturbedInv'
  <2> SUFFICES ASSUME ~disturbed PROVE UndisturbedInv'
    BY <1>1 DEF UndisturbedInv
  <2>1. ASSUME NEW e \in Awaited(driver)
        PROVE  /\ token[e] = 1 => transfer'[e] = "none" /\ e \in done
               /\ ~Outstanding(e)' => token[e] = 0 /\ transfer'[e] = "none"
               /\ HasAwaited(e)' => e \in done
    <3>1. CASE e = c
      BY <1>3, <1>6, <1>9, <1>10, <3>1 DEF UndisturbedInv, Outstanding
    <3>2. CASE e # c
      BY <1>3, <1>6, <1>8, <1>11, <3>2 DEF UndisturbedInv, Outstanding, Live
    <3> QED BY <3>1, <3>2
  <2> QED BY <1>1, <1>2, <1>3, <2>1 DEF UndisturbedInv, SameProgram
<1>17. ResetInv'
  BY <1>1, <1>2, <1>3, <1>6, <1>8 DEF ResetInv, SameProgram, Live, Hung
<1>18. HaltInv'
  <2>1. ASSUME driver = "UART", NEW e \in Awaited(driver), transfer'[e] = "running", token[e] = 1
        PROVE  late /\ Awaits(pc + 1, e)
    <3>1. ASSUME c \in Awaited(driver) PROVE ~linked
      <4>1. PICK d \in Ends(c) : ResetAt(d, pc)
        BY <1>4, <2>1, <3>1 DEF WellMade, LinkedLast
      <4>2. ~Live(d)
        BY <1>3, <4>1 DEF ResetInv, HasReset, Ends
      <4> QED BY <4>1, <4>2 DEF linked
    <3>2. transfer[e] # "running"
      BY <1>3, <1>5, <2>1 DEF HaltInv
    <3>3. e # c /\ linked /\ e \in Ends(c)
      BY <1>7, <1>11, <2>1, <3>1, <3>2
    <3>4. Awaits(pc + 1, e) /\ pc + 1 \in DOMAIN P
      BY <1>4, <2>1, <3>1, <3>3 DEF WellMade, LinkedLast
    <3>5. ~ToDrain(e)
      BY <1>4, <1>5, <2>1, <3>4 DEF WellMade, DrainedFirst, ToDrain, Final
    <3>6. transfer[e] # "none"
      BY <3>3 DEF linked, Live
    <3> QED BY <1>1, <1>3, <2>1, <3>4, <3>5, <3>6 DEF DrainedInv, HistoryInv
  <2> QED BY <1>1, <1>2, <1>6, <2>1 DEF HaltInv, SameProgram, Awaits
<1>19. TimersInv'
  BY <1>1, <1>3, <1>6 DEF TimersInv
<1>20. SuccessIsEarned'
  BY <1>1, <1>3 DEF SuccessIsEarned, HistoryInv
<1> QED BY <1>13, <1>14, <1>15, <1>16, <1>17, <1>18, <1>19, <1>20 DEF IInv

\* StartRefused.
LEMMA RefusedKeeps == ASSUME IInv, WellMade, StartRefused PROVE IInv'
<1>1. /\ pc # 0 /\ ~halted /\ Step.op = "start" /\ pc' = 0 /\ result' = "refused"
      /\ disturbed' = TRUE
      /\ UNCHANGED <<driver, transfer, hung, token, timersOn, halted, mine, done, late>>
  BY DEF StartRefused, At, Return
<1>2. SameProgram
  BY <1>1, DriverStays
<1>3. TypeOK /\ HistoryInv /\ HaltInv /\ TimersInv
  BY DEF IInv
<1>4. /\ \A c : ~HasStarted(c)' /\ ~HasAwaited(c)' /\ ~HasReset(c)'
      /\ ToStop => ToStop'
  BY <1>1, <1>3, Left
<1>5. \A c : ~Awaits(pc, c)
  BY <1>1, <1>3, AtOperation
<1>6. TypeOK'
  BY <1>1, <1>2, <1>3 DEF TypeOK, SameProgram, P
<1>7. HistoryInv' /\ DrainedInv' /\ UndisturbedInv' /\ SuccessIsEarned'
  BY <1>1, <1>3 DEF HistoryInv, DrainedInv, UndisturbedInv, SuccessIsEarned
<1>8. ResetInv'
  BY <1>4 DEF ResetInv
<1>9. HaltInv'
  BY <1>1, <1>2, <1>3, <1>5 DEF HaltInv, SameProgram
<1>10. TimersInv'
  BY <1>1, <1>3, <1>4 DEF TimersInv
<1> QED BY <1>6, <1>7, <1>8, <1>9, <1>10 DEF IInv

\* Acquire.
LEMMA AcquireKeeps ==
  ASSUME IInv, WellMade, NEW c \in Awaited(driver), Acquire(c) PROVE IInv'
<1>1. /\ pc # 0 /\ ~halted /\ Step.op = "await" /\ c \in Step.chans /\ Advance
      /\ token[c] = 1 /\ token' = [token EXCEPT ![c] = 0]
      /\ UNCHANGED <<driver, transfer, hung, timersOn, halted, result, mine, done, late, disturbed>>
  BY DEF Acquire, AtChan, At
<1>2. SameProgram
  BY <1>1, DriverStays
<1>3. /\ TypeOK /\ HistoryInv /\ DrainedInv /\ UndisturbedInv /\ ResetInv /\ HaltInv /\ TimersInv
      /\ token \in [Awaited(driver) -> {0, 1}]
  BY DEF IInv, TypeOK
<1>4. Awaits(pc, c) /\ pc \in DOMAIN P
  BY <1>1, <1>3, AtOperation
<1>5. /\ \A e : ~Starts(pc, e) /\ ~Drains(pc, e) /\ ~Aborts(pc, e)
      /\ \A e : Awaits(pc, e) <=> e = c
      /\ pc # Len(P) /\ P[pc] # TimersOff
  BY <1>1, <1>3, <1>4, AtOperation, OneChannel DEF Awaits
<1>6. /\ pc' # 0 /\ pc' \in DOMAIN P
      /\ \A e : HasStarted(e)' <=> HasStarted(e)
      /\ \A e : HasAwaited(e)' <=> HasAwaited(e) \/ e = c
      /\ \A e : ToDrain(e) <=> ToDrain(e)'
      /\ \A e : HasReset(e)' => HasReset(e)
      /\ ToStop => ToStop'
  BY <1>1, <1>3, <1>5, Advanced
<1>7. \A e \in Awaited(driver) : token'[e] = IF e = c THEN 0 ELSE token[e]
  BY <1>1, <1>3
<1>8. driver \notin {"ADC", "TIM"} => ~ToDrain(c)
  BY <1>4, <1>5 DEF WellMade, DrainedFirst, ToDrain, Final
<1>9. TypeOK'
  BY <1>1, <1>2, <1>3, <1>6 DEF TypeOK, SameProgram, P, WellMade, Final
<1>10. HistoryInv'
  BY <1>1, <1>2, <1>3, <1>5, <1>6 DEF HistoryInv, SameProgram
<1>11. DrainedInv'
  BY <1>1, <1>2, <1>3, <1>6, <1>7, <1>8 DEF DrainedInv, SameProgram
<1>12. UndisturbedInv'
  BY <1>1, <1>2, <1>3, <1>6, <1>7 DEF UndisturbedInv, SameProgram, Outstanding
<1>13. ResetInv'
  BY <1>1, <1>2, <1>3, <1>6 DEF ResetInv, SameProgram, Live, Hung
<1>14. HaltInv'
  BY <1>1, <1>2, <1>3, <1>5, <1>7 DEF HaltInv, SameProgram
<1>15. TimersInv'
  BY <1>1, <1>3, <1>6 DEF TimersInv
<1>16. SuccessIsEarned'
  BY <1>1, <1>3 DEF SuccessIsEarned, HistoryInv
<1> QED BY <1>9, <1>10, <1>11, <1>12, <1>13, <1>14, <1>15, <1>16 DEF IInv

\* AcquireTimeout.
LEMMA TimeoutKeeps ==
  ASSUME IInv, WellMade, NEW c \in Awaited(driver), AcquireTimeout(c) PROVE IInv'
<1>1. /\ pc # 0 /\ ~halted /\ Step.op = "await" /\ c \in Step.chans /\ token[c] = 0
      /\ pc' = (IF driver = "TIM" THEN pc + 1 ELSE 0)
      /\ result' = "timeout" /\ disturbed' = TRUE
      /\ UNCHANGED <<driver, transfer, hung, token, timersOn, halted, mine, done, late>>
  BY DEF AcquireTimeout, AtChan, At
<1>2. SameProgram
  BY <1>1, DriverStays
<1>3. TypeOK /\ HistoryInv /\ DrainedInv /\ ResetInv /\ HaltInv /\ TimersInv
  BY DEF IInv
<1>4. Awaits(pc, c) /\ pc \in DOMAIN P /\ \A e : Awaits(pc, e) => e = c
  BY <1>1, <1>3, AtOperation, OneChannel DEF Awaits
<1>5. UndisturbedInv' /\ SuccessIsEarned'
  BY <1>1 DEF UndisturbedInv, SuccessIsEarned
<1>6. HaltInv'
  BY <1>1, <1>2, <1>3, <1>4 DEF HaltInv, SameProgram
<1>7. CASE driver # "TIM"
  <2>1. pc' = 0 /\ ~timersOn'
    BY <1>1, <1>3, <1>7 DEF TimersInv
  <2>2. \A e : ~HasReset(e)'
    BY <1>1, <1>3, <2>1, Left
  <2>3. pc' \in 0..Len(P)
    BY <2>1 DEF WellMade, Final
  <2>4. TypeOK'
    BY <1>1, <1>2, <1>3, <2>3 DEF TypeOK, SameProgram, P
  <2>5. HistoryInv' /\ DrainedInv' /\ ResetInv' /\ TimersInv'
    BY <1>1, <1>3, <2>1, <2>2 DEF HistoryInv, DrainedInv, ResetInv, TimersInv
  <2> QED BY <1>5, <1>6, <2>4, <2>5 DEF IInv
<1>8. CASE driver = "TIM"
  <2>1. Advance /\ pc # Len(P) /\ P[pc] # TimersOff
    BY <1>1, <1>3, <1>8, AtOperation DEF Advance
  <2>2. /\ \A e : ~Starts(pc, e) /\ ~Aborts(pc, e)
    BY <1>1, <1>3, AtOperation
  <2>3. /\ pc' # 0 /\ pc' \in DOMAIN P
        /\ \A e : HasStarted(e)' <=> HasStarted(e)
        /\ \A e : HasReset(e)' => HasReset(e)
        /\ ToStop => ToStop'
    BY <1>1, <1>3, <2>1, <2>2, Advanced
  <2>4. P[pc'] = TimersOff
    BY <1>1, <1>4, <1>8 DEF WellMade, TimersPaired
  <2>5. TypeOK'
    BY <1>1, <1>2, <1>3, <2>3 DEF TypeOK, SameProgram, P, WellMade, Final
  <2>6. HistoryInv'
    BY <1>1, <1>2, <1>3, <2>3, <2>4 DEF HistoryInv, SameProgram
  <2>7. DrainedInv' /\ TimersInv'
    BY <1>1, <1>3, <1>8, <2>3 DEF DrainedInv, TimersInv
  <2>8. ResetInv'
    BY <1>1, <1>2, <1>3, <2>3 DEF ResetInv, SameProgram, Live, Hung
  <2> QED BY <1>5, <1>6, <2>5, <2>6, <2>7, <2>8 DEF IInv
<1> QED BY <1>7, <1>8

\* SwitchTimers.
LEMMA SwitchKeeps == ASSUME IInv, WellMade, SwitchTimers PROVE IInv'
<1>1. /\ pc # 0 /\ ~halted /\ Step.op \in {"timers_on", "timers_off"}
      /\ timersOn' = At("timers_on")
      /\ pc' = (IF result = "timeout" THEN 0 ELSE pc + 1)
      /\ UNCHANGED <<driver, transfer, hung, token, halted, result, mine, done, late, disturbed>>
  BY DEF SwitchTimers, At
<1>2. SameProgram
  BY <1>1, DriverStays
<1>3. TypeOK /\ HistoryInv /\ DrainedInv /\ UndisturbedInv /\ ResetInv /\ HaltInv
  BY DEF IInv
<1>4. /\ \A c : ~Starts(pc, c) /\ ~Awaits(pc, c) /\ ~Drains(pc, c) /\ ~Aborts(pc, c)
      /\ pc # Len(P) /\ pc \in DOMAIN P
      /\ P[pc] \in {TimersOn, TimersOff} /\ (Step.op = "timers_on" <=> P[pc] = TimersOn)
  BY <1>1, <1>3, AtOperation
<1>5. timersOn' \in BOOLEAN /\ (timersOn' => P[pc] = TimersOn) /\ driver = "TIM"
  BY <1>1, <1>4 DEF At, WellMade, TimersPaired
<1>6. HaltInv'
  BY <1>1, <1>2, <1>3, <1>5 DEF HaltInv, SameProgram
<1>7. SuccessIsEarned'
  BY <1>1, <1>3 DEF SuccessIsEarned, HistoryInv
<1>8. CASE result = "timeout"
  <2>1. pc' = 0 /\ ~timersOn'
    BY <1>1, <1>3, <1>5, <1>8, Operations DEF HistoryInv
  <2>2. \A c : ~HasStarted(c)' /\ ~HasAwaited(c)' /\ ~HasReset(c)'
    BY <1>1, <1>3, <2>1, Left
  <2>3. pc' \in 0..Len(P)
    BY <2>1 DEF WellMade, Final
  <2>4. TypeOK'
    BY <1>1, <1>2, <1>3, <1>5, <2>3 DEF TypeOK, SameProgram, P
  <2>5. HistoryInv' /\ DrainedInv' /\ ResetInv' /\ TimersInv'
    BY <1>1, <1>3, <2>1, <2>2 DEF HistoryInv, DrainedInv, ResetInv, TimersInv
  <2>6. UndisturbedInv'
    BY <1>1, <1>2, <1>3, <1>8, <2>2 DEF UndisturbedInv, SameProgram, Outstanding, HistoryInv
  <2> QED BY <1>6, <1>7, <2>4, <2>5, <2>6 DEF IInv
<1>9. CASE result # "timeout"
  <2>1. Advance /\ result = "none"
    BY <1>1, <1>3, <1>9 DEF Advance, HistoryInv
  <2>2. /\ pc' # 0 /\ pc' \in DOMAIN P /\ pc' = pc + 1
        /\ \A c : HasStarted(c)' <=> HasStarted(c)
        /\ \A c : HasAwaited(c)' <=> HasAwaited(c)
        /\ \A c : ToDrain(c) <=> ToDrain(c)'
        /\ \A c : HasReset(c)' => HasReset(c)
    BY <1>1, <1>3, <1>4, <2>1, Advanced
  <2>3. TypeOK'
    BY <1>1, <1>2, <1>3, <1>5, <2>2 DEF TypeOK, SameProgram, P, WellMade, Final
  <2>4. HistoryInv'
    BY <1>1, <1>2, <1>3, <2>1, <2>2 DEF HistoryInv, SameProgram
  <2>5. DrainedInv'
    BY <1>1, <1>2, <1>3, <2>2 DEF DrainedInv, SameProgram
  <2>6. UndisturbedInv'
    BY <1>1, <1>2, <1>3, <2>2 DEF UndisturbedInv, SameProgram, Outstanding
  <2>7. ResetInv'
    BY <1>1, <1>2, <1>3, <2>2 DEF ResetInv, SameProgram, Live, Hung
  <2>8. TimersInv'
    BY <1>1, <1>2, <1>4, <1>5, <2>2
       DEF TimersInv, SameProgram, ToStop, WellMade, TimersPaired, Final
  <2> QED BY <1>6, <1>7, <2>3, <2>4, <2>5, <2>6, <2>7, <2>8 DEF IInv
<1> QED BY <1>8, <1>9

\* CompareData: what the call awaited is behind it.
LEMMA CompareKeeps == ASSUME IInv, WellMade, CompareData PROVE IInv'
<1>1. /\ pc # 0 /\ ~halted /\ Step.op = "compare" /\ pc' = 0 /\ result' \in {"success", "mismatch"}
      /\ UNCHANGED <<driver, transfer, hung, token, timersOn, halted, mine, done, late, disturbed>>
  BY DEF CompareData, At, Return
<1>2. SameProgram
  BY <1>1, DriverStays
<1>3. TypeOK /\ HistoryInv /\ DrainedInv /\ UndisturbedInv /\ HaltInv /\ TimersInv
  BY DEF IInv
<1>4. /\ \A c : ~HasStarted(c)' /\ ~HasAwaited(c)' /\ ~HasReset(c)'
      /\ ToStop => ToStop'
  BY <1>1, <1>3, Left
<1>5. pc = Len(P) /\ P[pc] = Compare /\ \A c : ~Awaits(pc, c)
  BY <1>1, <1>3, AtOperation
<1>6. \A c \in Awaited(driver) : HasAwaited(c)
  <2> SUFFICES ASSUME NEW c \in Awaited(driver) PROVE HasAwaited(c)
    OBVIOUS
  <2>1. PICK n \in DOMAIN P : Awaits(n, c)
    BY DEF WellMade, StartedFirst
  <2>2. n # pc /\ n \in 1..Len(P) /\ Len(P) \in Nat
    BY <1>5, <2>1 DEF WellMade, Final
  <2> QED BY <1>5, <2>1, <2>2 DEF HasAwaited
<1>7. ~timersOn
  BY <1>1, <1>3, <1>5, AtOperation DEF TimersInv, ToStop, WellMade, Final
<1>8. TypeOK'
  BY <1>1, <1>2, <1>3 DEF TypeOK, SameProgram, P
<1>9. HistoryInv' /\ DrainedInv' /\ TimersInv'
  BY <1>1, <1>3, <1>7 DEF HistoryInv, DrainedInv, TimersInv
<1>10. UndisturbedInv'
  BY <1>1, <1>2, <1>3, <1>4, <1>6 DEF UndisturbedInv, SameProgram, Outstanding
<1>11. ResetInv'
  BY <1>4 DEF ResetInv
<1>12. HaltInv'
  BY <1>1, <1>2, <1>3, <1>5 DEF HaltInv, SameProgram
<1>13. SuccessIsEarned'
  BY <1>1, <1>2, <1>3, <1>6 DEF SuccessIsEarned, SameProgram, DrainedInv, UndisturbedInv
<1> QED BY <1>8, <1>9, <1>10, <1>11, <1>12, <1>13 DEF IInv

\* A channel that is started now has not been started before, and what Readied says of it holds.
LEMMA FreshStart ==
  ASSUME IInv, WellMade, NEW c, AtChan("start", c), NEW e \in Started(driver),
         e.dev = c.dev, driver = "UART" => e.dir = c.dir
  PROVE  /\ ~HasStarted(c) /\ c \in Started(driver)
         /\ \/ transfer[e] = "none" \/ Hung(e.dev)
            \/ driver \notin {"UART", "SPI"} /\ e \in Awaited(driver) /\ ~Outstanding(e)
<1>1. TypeOK /\ ResetInv /\ pc # 0 /\ Step.op = "start" /\ c \in Step.chans
  BY DEF IInv, AtChan, At
<1>2. Starts(pc, c) /\ pc \in DOMAIN P /\ c \in Started(driver)
  BY <1>1, AtOperation
<1>3. ~HasStarted(c)
  BY <1>1, <1>2 DEF HasStarted, WellMade, Once, Final
<1>4. CASE ResetAt(e, pc)
  BY <1>1, <1>2, <1>3, <1>4 DEF ResetInv, HasReset
<1>5. CASE ~ResetAt(e, pc)
  BY <1>2, <1>3, <1>5 DEF WellMade, Readied, Outstanding, HasStarted, HasAwaited
<1> QED BY <1>4, <1>5

\* Complete.
LEMMA CompleteKeeps ==
  ASSUME IInv, WellMade, NEW c \in Started(driver), Complete(c) PROVE IInv'
<1>1. /\ ~halted /\ transfer[c] = "running"
      /\ transfer' = [transfer EXCEPT ![c] = "none"]
      /\ token' = [d \in DOMAIN token |-> IF d = c THEN 1 ELSE token[d]]
      /\ halted' = (HaltsOnFullSemaphore /\ c \in DOMAIN token /\ token[c] = 1)
         \/ (MayMeetLock(c) /\ halted' = TRUE)
      /\ done' = IF c \in mine THEN done \cup {c} ELSE done
      /\ late' = (late \/ (c \notin mine /\ Drained(c)))
      /\ UNCHANGED <<driver, pc, hung, timersOn, result, mine, disturbed>>
  BY DEF Complete
<1>2. SameProgram
  BY <1>1, DriverStays
<1>3. /\ TypeOK /\ HistoryInv /\ DrainedInv /\ UndisturbedInv /\ ResetInv /\ HaltInv /\ TimersInv
      /\ SuccessIsEarned
      /\ transfer \in [Started(driver) -> {"none", "armed", "running", "abandoned"}]
      /\ token \in [Awaited(driver) -> {0, 1}]
      /\ done \subseteq mine /\ mine \subseteq Started(driver)
      /\ halted \in BOOLEAN /\ late \in BOOLEAN
  BY DEF IInv, TypeOK
<1>4. /\ \A e : HasStarted(e)' <=> HasStarted(e)
      /\ \A e : HasAwaited(e)' <=> HasAwaited(e)
      /\ \A e : ToDrain(e)' <=> ToDrain(e)
      /\ \A e : HasReset(e)' <=> HasReset(e)
      /\ ToStop' <=> ToStop
      /\ \A n, e : Awaits(n, e)' <=> Awaits(n, e)
  BY <1>1, Stayed
<1>5. /\ \A e \in Started(driver) : transfer'[e] = IF e = c THEN "none" ELSE transfer[e]
      /\ \A e \in Awaited(driver) : token'[e] = IF e = c THEN 1 ELSE token[e]
      /\ done \subseteq done' /\ done' \subseteq done \cup {c}
      /\ DOMAIN token = Awaited(driver)
  BY <1>1, <1>3
<1>6. Awaited(driver) \subseteq Started(driver)
  BY AwaitedStarted
<1>7. late' \in BOOLEAN /\ (late => late')
      /\ (late' <=> late \/ (c \notin mine /\ pc # 0 /\ ~ToDrain(c)))
  BY <1>1, <1>3, DrainedOrNot
<1>8. ~disturbed => c \notin Awaited(driver) \/ (Outstanding(c) /\ token[c] = 0 /\ c \in mine)
  BY <1>1, <1>3 DEF UndisturbedInv, HistoryInv, Outstanding, HasStarted, TypeOK, WellMade, Final
<1>9. halted' \in BOOLEAN
  BY <1>1
<1>10. MayMeetLock(c) => disturbed
  BY <1>1, <1>3, <1>8, FreshStart DEF MayMeetLock, Outstanding, UndisturbedInv, Hung
<1>11. TypeOK'
  <2>1. token' \in [Awaited(driver) -> {0, 1}]
    BY <1>1, <1>3, <1>5
  <2>2. done' \subseteq mine /\ transfer' \in [Started(driver) -> {"none", "armed", "running", "abandoned"}]
    BY <1>1, <1>3
  <2> QED BY <1>1, <1>2, <1>3, <1>7, <1>9, <2>1, <2>2 DEF TypeOK, SameProgram, P
<1>12. HistoryInv'
  BY <1>1, <1>2, <1>3, <1>4, <1>5 DEF HistoryInv, SameProgram
<1>13. DrainedInv'
  BY <1>1, <1>2, <1>3, <1>4, <1>5, <1>7 DEF DrainedInv, SameProgram
<1>14. UndisturbedInv'
  <2> SUFFICES ASSUME ~disturbed PROVE UndisturbedInv'
    BY <1>1 DEF UndisturbedInv
  <2>1. token[c] # 1 \/ c \notin DOMAIN token
    BY <1>5, <1>8
  <2>2. ~halted'
    BY <1>1, <1>10, <2>1
  <2>3. ASSUME NEW e \in Awaited(driver)
        PROVE  /\ token'[e] = 1 => transfer'[e] = "none" /\ e \in done'
               /\ ~Outstanding(e)' => token'[e] = 0 /\ transfer'[e] = "none"
               /\ HasAwaited(e)' => e \in done'
    BY <1>1, <1>3, <1>4, <1>5, <1>6, <1>8 DEF UndisturbedInv, Outstanding
  <2> QED BY <1>1, <1>2, <1>3, <2>2, <2>3 DEF UndisturbedInv, SameProgram
<1>15. ResetInv'
  BY <1>1, <1>2, <1>3, <1>4, <1>5 DEF ResetInv, SameProgram, Live, Hung
<1>16. HaltInv'
  <2>1. driver \in {"UART", "SPI"} /\ halted' => late'
    BY <1>1, <1>3, <1>5, <1>7 DEF HaltInv, HaltsOnFullSemaphore, MayMeetLock
  <2>2. ASSUME driver = "UART", NEW e \in Awaited(driver), transfer'[e] = "running", token'[e] = 1
        PROVE  late' /\ pc \in DOMAIN P /\ Awaits(pc, e)
    BY <1>3, <1>5, <1>6, <1>7, <2>2 DEF HaltInv
  <2> QED BY <1>1, <1>2, <2>1, <2>2 DEF HaltInv, SameProgram, Awaits
<1>17. TimersInv'
  BY <1>1, <1>3, <1>4 DEF TimersInv
<1>18. SuccessIsEarned'
  BY <1>1, <1>2, <1>3, <1>5, <1>7 DEF SuccessIsEarned, SameProgram, HistoryInv
<1> QED BY <1>11, <1>12, <1>13, <1>14, <1>15, <1>16, <1>17, <1>18 DEF IInv

\* BreakOff.
LEMMA BreakOffKeeps ==
  ASSUME IInv, WellMade, NEW c \in Started(driver), BreakOff(c) PROVE IInv'
<1>1. /\ transfer' = [transfer EXCEPT ![c] = "none"]
      /\ UNCHANGED <<driver, pc, hung, token, timersOn, halted, result, mine, done, late, disturbed>>
  BY DEF BreakOff
<1>2. SameProgram
  BY <1>1, DriverStays
<1>3. /\ TypeOK /\ HistoryInv /\ DrainedInv /\ UndisturbedInv /\ ResetInv /\ HaltInv /\ TimersInv
      /\ SuccessIsEarned
      /\ transfer \in [Started(driver) -> {"none", "armed", "running", "abandoned"}]
      /\ done \subseteq Started(driver)
  BY DEF IInv, TypeOK
<1>4. /\ \A e : HasStarted(e)' <=> HasStarted(e)
      /\ \A e : HasAwaited(e)' <=> HasAwaited(e)
      /\ \A e : ToDrain(e)' <=> ToDrain(e)
      /\ \A e : HasReset(e)' <=> HasReset(e)
      /\ ToStop' <=> ToStop
      /\ \A n, e : Awaits(n, e)' <=> Awaits(n, e)
  BY <1>1, Stayed
<1>5. /\ \A e \in Started(driver) : transfer'[e] = IF e = c THEN "none" ELSE transfer[e]
      /\ Awaited(driver) \subseteq Started(driver)
  BY <1>1, <1>3, AwaitedStarted
<1>6. TypeOK'
  BY <1>1, <1>2, <1>3 DEF TypeOK, SameProgram, P
<1>7. HistoryInv'
  BY <1>1, <1>2, <1>3, <1>4, <1>5 DEF HistoryInv, SameProgram
<1>8. DrainedInv'
  BY <1>1, <1>2, <1>3, <1>4 DEF DrainedInv, SameProgram
<1>9. UndisturbedInv'
  BY <1>1, <1>2, <1>3, <1>4, <1>5 DEF UndisturbedInv, SameProgram, Outstanding
<1>10. ResetInv'
  BY <1>1, <1>2, <1>3, <1>4, <1>5 DEF ResetInv, SameProgram, Live, Hung
<1>11. HaltInv'
  BY <1>1, <1>2, <1>3, <1>4, <1>5 DEF HaltInv, SameProgram
<1>12. TimersInv' /\ SuccessIsEarned'
  BY <1>1, <1>2, <1>3, <1>4 DEF TimersInv, SuccessIsEarned, SameProgram
<1> QED BY <1>6, <1>7, <1>8, <1>9, <1>10, <1>11, <1>12 DEF IInv

-----------------------------------------------------------------------------
(* What holds whatever the task and the interrupts do *)

\* All programs start out clean.
LEMMA Initially == Init => IInv
<1> SUFFICES ASSUME Init PROVE IInv
  OBVIOUS
<1>1. /\ driver \in Driver /\ pc = 0 /\ result = "none"
      /\ transfer = [c \in Started(driver) |-> "none"] /\ token = [c \in Awaited(driver) |-> 0]
      /\ timersOn = FALSE /\ halted = FALSE /\ mine = {} /\ done = {} /\ hung = {}
      /\ late = FALSE /\ disturbed = FALSE
  BY DEF Init
<1>2. WellMade
  BY <1>1, ProgramWellMade
<1>3. Awaited(driver) \subseteq Started(driver) /\ Len(P) \in Nat /\ DOMAIN P \subseteq Nat
  BY <1>2, AwaitedStarted DEF WellMade, Final
<1>4. \A c : ~HasStarted(c) /\ ~HasAwaited(c)
  BY <1>1, <1>3 DEF HasStarted, HasAwaited
<1>5. TypeOK
  <2>1. pc \in 0..Len(P)
    BY <1>1, <1>3
  <2>2. /\ transfer \in [Started(driver) -> {"none", "armed", "running", "abandoned"}]
        /\ token \in [Awaited(driver) -> {0, 1}]
    BY <1>1
  <2>3. result \in {"none", "refused", "timeout", "mismatch", "success"}
        /\ done \subseteq mine /\ mine \subseteq Started(driver) /\ hung \subseteq Started(driver)
    BY <1>1
  <2>4. {timersOn, halted, late, disturbed} \subseteq BOOLEAN
    BY <1>1, Zenon
  <2> QED BY <1>1, <2>1, <2>2, <2>3, <2>4 DEF TypeOK, P
<1>6. HistoryInv /\ DrainedInv /\ ResetInv /\ TimersInv /\ SuccessIsEarned
  BY <1>1 DEF HistoryInv, DrainedInv, ResetInv, Live, TimersInv, SuccessIsEarned
<1>7. UndisturbedInv
  BY <1>1, <1>3, <1>4 DEF UndisturbedInv, Outstanding
<1>8. HaltInv
  BY <1>1, <1>3 DEF HaltInv
<1> QED BY <1>5, <1>6, <1>7, <1>8 DEF IInv

\* Each step of the task and each interrupt keeps the invariant.
LEMMA EachStep == IInv /\ [Next]_vars => IInv'
<1> SUFFICES ASSUME IInv, [Next]_vars PROVE IInv'
  OBVIOUS
<1>1. WellMade
  BY ProgramWellMade DEF IInv, TypeOK
<1>2. CASE Call
  BY <1>1, <1>2, CallKeeps
<1>3. CASE TaskStep
  <2>1. CASE DrainSemaphore
    BY <1>1, <2>1, DrainKeeps
  <2>2. CASE AbortDevice
    BY <1>1, <2>2, AbortKeeps
  <2>3. CASE \E c \in Started(driver) : StartTransfer(c)
    BY <1>1, <2>3, StartKeeps
  <2>4. CASE StartRefused
    BY <1>1, <2>4, RefusedKeeps
  <2>5. CASE \E c \in Awaited(driver) : Acquire(c)
    BY <1>1, <2>5, AcquireKeeps
  <2>6. CASE \E c \in Awaited(driver) : AcquireTimeout(c)
    BY <1>1, <2>6, TimeoutKeeps
  <2>7. CASE SwitchTimers
    BY <1>1, <2>7, SwitchKeeps
  <2>8. CASE CompareData
    BY <1>1, <2>8, CompareKeeps
  <2> QED BY <1>3, <2>1, <2>2, <2>3, <2>4, <2>5, <2>6, <2>7, <2>8 DEF TaskStep
<1>4. CASE Interrupt
  BY <1>1, <1>4, CompleteKeeps, BreakOffKeeps DEF Interrupt
<1>5. CASE UNCHANGED vars
  <2>1. /\ UNCHANGED <<driver, pc, transfer, hung, token, timersOn, halted, result>>
        /\ UNCHANGED <<mine, done, late, disturbed>>
    BY <1>5 DEF vars
  <2>2. SameProgram
    BY <2>1, DriverStays
  <2>3. /\ \A e : /\ HasStarted(e)' <=> HasStarted(e)
                  /\ HasAwaited(e)' <=> HasAwaited(e)
                  /\ ToDrain(e)' <=> ToDrain(e)
                  /\ HasReset(e)' <=> HasReset(e)
        /\ ToStop' <=> ToStop
        /\ \A n, e : Awaits(n, e)' <=> Awaits(n, e)
    BY <2>1, Stayed
  <2>4. TypeOK' /\ SuccessIsEarned'
    BY <2>1, <2>2 DEF IInv, TypeOK, SuccessIsEarned, SameProgram
  <2>5. HistoryInv' /\ DrainedInv' /\ TimersInv'
    BY <2>1, <2>2, <2>3 DEF IInv, HistoryInv, DrainedInv, TimersInv, SameProgram
  <2>6. UndisturbedInv' /\ ResetInv' /\ HaltInv'
    BY <2>1, <2>2, <2>3 DEF IInv, UndisturbedInv, ResetInv, HaltInv, SameProgram, Outstanding,
                            Live, Hung
  <2> QED BY <2>4, <2>5, <2>6 DEF IInv
<1> QED BY <1>2, <1>3, <1>4, <1>5 DEF Next

\* The inductive invariant holds for every set of drivers.
THEOREM Invariance == Spec => []IInv
BY Initially, EachStep, PTL DEF Spec

\* The state stays well typed; each semaphore is binary and only what was started has completed.
THEOREM TypeCorrect == Spec => []TypeOK
<1>1. IInv => TypeOK
  BY DEF IInv
<1> QED BY Invariance, <1>1, PTL

\* What a success of XXX_Test_Perform says, and when. UART, SPI and I2C: the transfers the call
\* awaited have completed in this call, unless an old one ended after its drain (late). ADC and timer,
\* which do not drain: only until a call is refused or times out (disturbed). Without these
\* conditions it is false: timer_test.c:127 then takes the token of an earlier sampling.
THEOREM Earned == Spec => []SuccessIsEarned
<1>1. IInv => SuccessIsEarned
  BY DEF IInv
<1> QED BY Invariance, <1>1, PTL

\* Before a call is refused or times out every start finds the HAL ready, no callback halts the
\* system, and between calls no semaphore is full and nothing that is awaited is running.
THEOREM NothingLeftBehind == Spec => []CallsLeaveNothingBehind
<1>1. IInv => CallsLeaveNothingBehind
  <2> SUFFICES ASSUME IInv, ~disturbed PROVE CallsLeaveNothingBehind
    BY DEF CallsLeaveNothingBehind
  <2>1. WellMade /\ TypeOK /\ UndisturbedInv
    BY ProgramWellMade DEF IInv, TypeOK
  <2>2. ASSUME NEW c \in Started(driver), AtChan("start", c) PROVE ~Busy(c)
    <3> SUFFICES ASSUME NEW e \in Started(driver), e.dev = c.dev, driver = "UART" => e.dir = c.dir
                 PROVE  transfer[e] = "none"
      BY <2>1 DEF Busy, UndisturbedInv
    <3> QED BY <2>1, <2>2, FreshStart DEF UndisturbedInv, Hung
  <2>3. ASSUME pc = 0, NEW c \in Awaited(driver) PROVE token[c] = 0 /\ transfer[c] = "none"
    <3>1. ~Outstanding(c)
      BY <2>1, <2>3 DEF Outstanding, HasStarted, WellMade, Final
    <3> QED BY <2>1, <3>1 DEF UndisturbedInv
  <2> QED BY <2>1, <2>2, <2>3 DEF CallsLeaveNothingBehind, UndisturbedInv
<1> QED BY Invariance, <1>1, PTL

\* The aborts of the UART and the SPI make up for whatever an earlier call has left running: a start
\* finds the HAL busy only at a device of which an abort could not stop a DMA stream.
THEOREM AbortsRecover == Spec => []AbortRecovers
<1>1. IInv => AbortRecovers
  <2> SUFFICES ASSUME IInv, driver \in {"UART", "SPI"} PROVE AbortRecovers
    BY DEF AbortRecovers
  <2>1. WellMade /\ HaltInv
    BY ProgramWellMade DEF IInv, TypeOK
  <2>2. ASSUME NEW c \in Started(driver), AtChan("start", c), Busy(c) PROVE Hung(c.dev)
    <3>1. CASE Streams(c) \cap hung # {}
      BY <2>1, <3>1 DEF WellMade, Streamed, Hung
    <3>2. ASSUME NEW e \in Started(driver), transfer[e] # "none", e.dev = c.dev,
                 driver = "UART" => e.dir = c.dir
          PROVE  Hung(c.dev)
      BY <2>1, <2>2, <3>2, FreshStart
    <3> QED BY <2>2, <3>1, <3>2 DEF Busy
  <2> QED BY <2>1, <2>2 DEF AbortRecovers, HaltInv, Hung
<1> QED BY Invariance, <1>1, PTL

\* The timers are left running only by a call the DMA has refused.
THEOREM TimersStop == Spec => []TimersStopped
<1>1. IInv => TimersStopped
  BY DEF IInv, TimersInv, TimersStopped
<1> QED BY Invariance, <1>1, PTL
====
