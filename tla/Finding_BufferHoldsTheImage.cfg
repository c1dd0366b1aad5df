SPECIFICATION Spec
CONSTANTS
    DCTSIZE = 8
    Slack = 2048
    TableBytes = 600
    Images <- FindingImages
    Requests <- FindingRequests
INVARIANTS
    BufferHoldsTheImage
