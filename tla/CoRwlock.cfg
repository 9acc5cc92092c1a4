CONSTANTS
    Coroutines = {c1, c2, c3}
    SeqWrap = 3
SPECIFICATION RwSpec
SYMMETRY Symmetry
INVARIANTS TypeOK OneOwner TurnOwed WakesExact RecordsLive OwnersExact TicketOwed GrantedOnce
PROPERTIES ImplementsRwSections
