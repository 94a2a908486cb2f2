----------------------------- MODULE MCRtuClient -----------------------------
EXTENDS RtuClientProps

CONSTANTS Slave, Other

Asks(to, handler) == [to |-> to, handler |-> handler]

\* A polling loop, a broadcast whose handler goes on, a session that begins again
\* from inside a handler, and one whose cancelled handler begins it instead.
Sessions ==
    { <<Asks(Slave, <<"send">>), Asks(Slave, <<>>)>>,
      <<Asks(Broadcast, <<"send">>), Asks(Slave, <<>>)>>,
      <<Asks(Slave, <<"unbind", "bind", "send">>), Asks(Other, <<>>)>>,
      <<Asks(Broadcast, <<"unbind", "bind">>), Asks(Slave, <<"bind", "send">>), Asks(Other, <<>>)>> }
=============================================================================
