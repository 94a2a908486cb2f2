---------------------------- MODULE MCTcpEndpoint ----------------------------
EXTENDS TcpEndpointProps

OneCrcByte == [crc_size |-> 1, max_data_size |-> 1]
Sum(w) == <<FoldLeft(LAMBDA i, j : i + j, 1, w) % 256>>
Sealed(w) == w \o Sum(w)

\* A request of the greatest length, one of the least with a wrong checksum, one
\* of another protocol, and lengths beyond both limits.
Requests ==
    { Sealed(<<0, 2, 0, 0, 0, 4, 1, 2, 9>>),
      <<0, 3, 0, 0, 0, 3, 1, 2, 0>>,
      <<0, 4, 0, 1, 0, 3, 1, 2, 0>>,
      <<0, 5, 0, 0, 0, 2, 1, 2, 0>>,
      <<0, 6, 0, 0, 0, 5, 1, 2, 0>> }

\* The message objects are interchangeable.
Alike == Permutations(Handles)
=============================================================================
