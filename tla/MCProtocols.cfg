CONSTANTS
    x1 = x1
    x2 = x2
    x3 = x3
    Nobody = Nobody
SPECIFICATION Spec
INVARIANTS TypesOK OneWriter NothingStranded WholeMessagesOnly BooksBalance PeerIsWatched
PROPERTIES ExchangesEnd
CHECK_DEADLOCK FALSE
