SPECIFICATION Spec
CONSTANT QueueLen = 2
INVARIANTS TypeOK StoppedIsQuiet  ResumeRestores  
