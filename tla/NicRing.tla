------------------------------ MODULE NicRing ------------------------------
(***************************************************************************)
(* The receive path of kernel/drivers/rtl8139.c: the card writes packets    *)
(* into a ring and raises an interrupt; the handler acknowledges it and     *)
(* drains the ring, and the card goes on receiving meanwhile.  A cell is    *)
(* four bytes: a packet is a header cell with rx_size, its data, and a      *)
(* checksum cell that rx_size counts; it may run over the end of the ring.  *)
(* The card is set up (packet_accept = 0xe) to keep packets with errors to  *)
(* itself, so the handler's error branch is not reached.                    *)
(***************************************************************************)
EXTENDS Integers, Sequences

CONSTANTS RingCells,  \* RTL8139_RXBUFFER_SIZE in cells
          Wrap,       \* range of the 16-bit current_packet_read, in cells
          DataCells,  \* lengths of a packet's data
          MaxPackets  \* bound: packets received

ASSUME NicAssumption == /\ RingCells \in Nat \ {0} /\ Wrap \in Nat \ {0} /\ Wrap % RingCells = 0
                        /\ DataCells \subseteq Nat

VARIABLES ring,     \* cell -> what the card wrote there
          put,      \* the card's write pointer
          rx_read,     \* current_packet_read
          capr,     \* the read pointer the card was last told
          isr,      \* the receive bit of the interrupt status register
          handler,  \* rtl8139_handler: "idle", "entered", "draining"
          arrived,  \* lengths of the packets the card has taken, in order
          handled   \* what handle_ethernet was given, in order

nic_vars == <<ring, put, rx_read, capr, isr, handler, arrived, handled>>

Cell(i) == i % RingCells

\* The card: bytes between its write pointer and capr; the buffer-empty bit.
Room == RingCells - 1 - Cell(put - capr)
BufferEmpty == Cell(put) = Cell(capr)

nic_receive(n) ==
  /\ Len(arrived) < MaxPackets /\ n + 2 <= Room
  /\ ring' = [c \in 0..(RingCells - 1) |->
                LET k == Cell(c - put)
                IN IF k > n + 1 THEN ring[c]
                   ELSE [id |-> Len(arrived) + 1, pos |-> k, rx_size |-> n + 1]]
  /\ put' = Cell(put + n + 2) /\ isr' = TRUE
  /\ arrived' = Append(arrived, n)
  /\ UNCHANGED <<rx_read, capr, handler, handled>>

rtl8139_enter == /\ handler = "idle" /\ isr
                 /\ handler' = "entered"
                 /\ UNCHANGED <<ring, put, rx_read, capr, isr, arrived, handled>>

\* The status is acknowledged before the ring is looked at.
acknowledge == /\ handler = "entered"
               /\ handler' = "draining" /\ isr' = FALSE
               /\ UNCHANGED <<ring, put, rx_read, capr, arrived, handled>>

\* Mutant: the test for the end of the ring counts the checksum cell as well
\* and the first piece is one cell too long.
PacketDataBug(at, rx_size) ==
  LET end == RingCells - at
      len == rx_size - 1
  IN [k \in 1..len |-> IF at + rx_size > RingCells
                       THEN ring[Cell(IF k <= end THEN at + k ELSE k - end - 1)]
                       ELSE ring[at + k]]

\* packet_buffer: the data in one piece, or in two over the end of the ring.
PacketData(at, rx_size) ==
  LET end == RingCells - at - 1
      len == rx_size - 1
  IN [k \in 1..len |-> IF at + rx_size > RingCells
                       THEN ring[IF k <= end THEN at + k ELSE k - end - 1]
                       ELSE ring[at + k]]

\* One turn of handle_packet's loop.
handle_packet ==
  /\ handler = "draining" /\ ~BufferEmpty
  /\ LET at      == Cell(rx_read)
         rx_size == ring[at].rx_size
     IN /\ handled' = Append(handled, PacketData(at, rx_size))
        /\ rx_read' = (rx_read + rx_size + 1) % Wrap
        /\ capr' = rx_read'
  /\ UNCHANGED <<ring, put, isr, handler, arrived>>

rtl8139_leave == /\ handler = "draining" /\ BufferEmpty
                 /\ handler' = "idle"
                 /\ UNCHANGED <<ring, put, rx_read, capr, isr, arrived, handled>>

NicInit == /\ ring = [c \in 0..(RingCells - 1) |-> [id |-> 0, pos |-> 0, rx_size |-> 1]]
           /\ put = 0 /\ rx_read = 0 /\ capr = 0 /\ isr = FALSE /\ handler = "idle"
           /\ arrived = <<>> /\ handled = <<>>

NicNext == \/ \E n \in DataCells : nic_receive(n)
           \/ rtl8139_enter \/ acknowledge \/ handle_packet \/ rtl8139_leave
NicSpec == NicInit /\ [][NicNext]_nic_vars
----------------------------------------------------------------------------
\* Packets reach handle_ethernet whole, once and in the order of arrival,
\* across the end of the ring and the wrap of the 16-bit read pointer,
\* whatever the card writes while handle_packet runs.
PacketsInOrder ==
  /\ Len(handled) <= Len(arrived)
  /\ \A i \in 1..Len(handled) :
       handled[i] = [k \in 1..arrived[i] |->
                       [id |-> i, pos |-> k, rx_size |-> arrived[i] + 1]]

\* No packet waits in the ring for an interrupt that does not come: when
\* rtl8139_handler is not running, either everything was handled or the status
\* bit is up, because it is acknowledged before the ring is drained.
NoPacketStuck == handler = "idle" /\ Len(handled) < Len(arrived) => isr

\* Between the card and rtl8139_handler no packet is lost, cut, reordered or left
\* waiting, at whatever point of the handler the card writes.
ReceiveExact == PacketsInOrder /\ NoPacketStuck
=============================================================================
