------------------------------- MODULE MCWire -------------------------------
(* Wire with bytes of two bits, words of two bytes, one line feed and two   *)
(* digits, for TLC.  The default password fills its field, as the program's *)
(* does; two passwords of one character do so too, on two lines.            *)
EXTENDS Wire

Pair(word, capital, value) ==
  [kind |-> "pair", name |-> [word |-> word, capital |-> capital], value |-> value]
Section(word, rest, closed) ==
  [kind |-> "section", name |-> [word |-> word, rest |-> rest, capital |-> TRUE],
   closed |-> closed]

MCLines == {
  <<Section("logon", <<>>, TRUE)>>, <<Section("log", <<>>, TRUE)>>,
  <<Section("log", <<3>>, TRUE)>>, <<Section("log", <<>>, FALSE)>>,
  <<[kind |-> "comment"]>>, <<[kind |-> "text"]>>,
  <<Pair("password", TRUE, <<2>>)>>, <<Pair("password", FALSE, <<3>>)>>,
  <<Pair("password", TRUE, <<>>)>>, <<Pair("heart_beat_int", TRUE, <<3, 2>>)>>,
  <<Pair("sender_name", TRUE, <<3, 3>>), [kind |-> "text"]>>}

MCFieldBytes == [sender_name |-> 2, receiver_name |-> 2, heart_beat_int |-> 2,
                 password |-> 3, version |-> 2]
MCDefault == [sender_name |-> <<2>>, receiver_name |-> <<3, 2>>, heart_beat_int |-> 4,
              password |-> <<3, 3, 2>>, version |-> <<2>>]

MCLogonBody == <<3>>
MCMessages == {[type |-> 3, body |-> <<>>], [type |-> 6, body |-> <<2, 3>>]}
=============================================================================
