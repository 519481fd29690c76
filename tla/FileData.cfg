SPECIFICATION Spec
CONSTANTS
    Byte = {0, 1}
    Zero = 0
    SS = 2
    N = 4
    Buffers <- MCBuffers
    Volumes <- MCVolumes
INVARIANTS TypeOK SizeFits NothingLeaks BufferHoldsSector ClusterHoldsPointer
PROPERTIES ImplementsByteFile WritesStayInFile SyncIsDurable
