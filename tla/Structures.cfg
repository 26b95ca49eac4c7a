SPECIFICATION Spec

INVARIANTS
    CountExact
    
    OpensAsBuilt
    ReadsExact
    
    BytesMatchMap
