--------------------------- MODULE MCPostPurchase ---------------------------
(* Instance of PostPurchase for TLC: an order of two units of money with   *)
(* two lines at most; PayPal refunds half of it, reverses all of it and    *)
(* cancels that reversal.  About a shipped order it also sends a second    *)
(* cancellation, and a reversal that contradicts the order.                *)
EXTENDS PostPurchase

Kinds == [shipping |-> {"a"}, pickup |-> {"a"}, digital |-> {"a", "b"}]

Goods == {[a |-> "file", b |-> "file"], [a |-> "file", b |-> "email"],
          [a |-> "email", b |-> "message"]}

Contradicting == [shipping |-> {5}, pickup |-> {}, digital |-> {}]

Sending == [shipping |-> 1..5, pickup |-> 1..3, digital |-> 1..3]

Notices ==
    <<[status |-> "Refunded", amount |-> 1],
      [status |-> "Reversed", amount |-> 2],
      [status |-> "Canceled_Reversal", amount |-> 2],
      [status |-> "Canceled_Reversal", amount |-> 1],
      [status |-> "Reversed", amount |-> 1]>>

=============================================================================
